--------------------------- MODULE DownloadBuffer ---------------------------
(***************************************************************************)
(* The way of a downloaded byte through response_buffer: the stream of     *)
(* src/http.c reads the response into it, http_stream_read hands on what   *)
(* came behind the header and then reads the connection, and the download  *)
(* function of src/firmware_update.c collects pages in its first half and  *)
(* reads them back from the flash into its second half.  Sizes are those   *)
(* of the code in terms of the page of the flash.  A byte of the body      *)
(* stands for itself as its number, counted from 1.                        *)
(***************************************************************************)
EXTENDS Integers

CONSTANTS PAGE,      \* bytes in a page of the flash, 256 in the code
          REGION,    \* binary_size: the application region
          BODY,      \* length of the body the server sends
          Header     \* the lengths a header may have

ASSUME PageAssumption == PAGE \in Nat /\ PAGE >= 2
ASSUME BodyAssumption == REGION \in Nat /\ BODY \in Nat
ASSUME HeaderAssumption == Header \subseteq Nat

READ == 2 * PAGE + 1           \* the 513 bytes asked of a read
HALF == 4 * PAGE               \* download_buffer_size
RESPONSE_SIZE == 8 * PAGE
Offset == 0 .. RESPONSE_SIZE - 1
Flash == 0 .. REGION + 4 * PAGE - 1   \* no download writes further

PAD == 0      \* 0xFF: an erased byte, or padding
FOREIGN == -1   \* any byte that is neither padding nor of the body
Byte == {FOREIGN, PAD} \cup 1 .. BODY

VARIABLES
    pc,         \* where the download is
    header,     \* length of the response's header
    first,      \* bytes of the response that came with http_stream_open
    contentLength,  \* content_length, 0 if the header has none
    taken,      \* bytes of the response taken from the connection
    response_buffer,
    bodyStart, bodyInBuffer,   \* body_start, body_data_in_buffer
    complete,   \* download_complete
    used,       \* download_buffer_used
    flash,      \* external flash from FLASH_BINARY_OFFSET on
    addr,       \* flash_write_address
    summed, total   \* the bytes added to the checksum, total_downloaded

connection == <<header, first, contentLength>>
stream == <<taken, bodyStart, bodyInBuffer, complete>>
vars == <<pc, connection, stream, response_buffer, used, flash, addr, summed, total>>

Least(a, b) == IF a < b THEN a ELSE b

\* The byte at place p of the response, counted from 1.
Wire(p) == IF p <= header THEN FOREIGN ELSE p - header

\* Mutant of Rest: pages are written in pairs only.
Rest_Pairs(n) == n % (2 * PAGE)

\* What remains of n when whole pages are taken from it.
Rest(n) == n % PAGE

-----------------------------------------------------------------------------
(* http_stream_open: the response is read until the buffer is full, it     *)
(* seems complete, or nothing came for five seconds.                       *)

\* If the header has not come as a whole, body_start stays NULL and the rest
\* of the header is taken for the body.
Open(h, r, length) ==
    /\ pc = "open" /\ pc' = "read"
    /\ header' = h /\ first' = r /\ contentLength' = length
    /\ taken' = r
    /\ response_buffer' = [i \in Offset |-> IF i < r /\ i >= h THEN i + 1 - h ELSE FOREIGN]
    /\ IF r >= h THEN bodyStart' = h /\ bodyInBuffer' = r - h
                 ELSE bodyStart' = 0 /\ bodyInBuffer' = 0
    /\ UNCHANGED <<complete, used, flash, addr, summed, total>>

-----------------------------------------------------------------------------
(* http_stream_read into download_buffer + download_buffer_used *)

\* Nothing more: the loop of the download ends.
ReadEnded ==
    /\ pc = "read" /\ complete
    /\ pc' = "last"
    /\ UNCHANGED <<connection, stream, response_buffer, used, flash, addr, summed, total>>

\* The n bytes read are added to the checksum.
Got(n) ==
    /\ used' = used + n /\ total' = total + n
    /\ summed' = [a \in Flash |-> IF a \in total .. total + n - 1
                                  THEN response_buffer'[used + a - total] ELSE summed[a]]

\* The buffer after n bytes of the body in it were handed on.  Source and
\* target of this memcpy may overlap; it copies upwards, the target lies first.
Copied(n) ==
    [i \in Offset |-> IF i \in used .. used + n - 1
                      THEN response_buffer[bodyStart + i - used] ELSE response_buffer[i]]

LengthReached(n) == contentLength > 0 /\ total + n >= contentLength

\* The rest of what came with the header is enough for this read.
ReadBuffered ==
    LET n == Least(bodyInBuffer, READ) IN
    /\ pc = "read" /\ ~complete /\ n > 0
    /\ LengthReached(n) \/ n = READ
    /\ response_buffer' = Copied(n)
    /\ bodyStart' = bodyStart + n /\ bodyInBuffer' = bodyInBuffer - n
    /\ complete' = LengthReached(n)
    /\ Got(n)
    /\ pc' = "flush"
    /\ UNCHANGED <<connection, taken, flash, addr>>

\* Mutant of ReadNetwork: what comes is put over the rest of the body.
ReadNetwork_OverRest(r, closed) ==
    LET n == bodyInBuffer IN
    /\ pc = "read" /\ ~complete /\ n < READ /\ ~(n > 0 /\ LengthReached(n))
    /\ r <= READ - n - 1 /\ taken + r <= header + BODY
    /\ response_buffer' = [i \in Offset |-> IF i \in used .. used + r - 1
                                            THEN Wire(taken + 1 + i - used)
                                            ELSE Copied(n)[i]]
    /\ taken' = taken + r
    /\ bodyStart' = bodyStart + n /\ bodyInBuffer' = 0
    /\ complete' = (closed \/ (r > 0 /\ LengthReached(n + r)))
    /\ Got(n + r)
    /\ pc' = IF n + r = 0 THEN "last" ELSE "flush"
    /\ UNCHANGED <<connection, flash, addr>>

\* What is left of it is completed from the connection with r bytes: fewer
\* than asked for, since a NUL is put behind them.  The connection may be
\* found closed; a read of nothing ends the download.
ReadNetwork(r, closed) ==
    LET n == bodyInBuffer IN
    /\ pc = "read" /\ ~complete /\ n < READ /\ ~(n > 0 /\ LengthReached(n))
    /\ r <= READ - n - 1 /\ taken + r <= header + BODY
    /\ response_buffer' = [i \in Offset |-> IF i \in used + n .. used + n + r - 1
                                            THEN Wire(taken + 1 + i - used - n)
                                            ELSE IF i = used + n + r THEN FOREIGN
                                            ELSE Copied(n)[i]]
    /\ taken' = taken + r
    /\ bodyStart' = bodyStart + n /\ bodyInBuffer' = 0
    /\ complete' = (closed \/ (r > 0 /\ LengthReached(n + r)))
    /\ Got(n + r)
    /\ pc' = IF n + r = 0 THEN "last" ELSE "flush"
    /\ UNCHANGED <<connection, flash, addr>>

-----------------------------------------------------------------------------
(* Writing the collected pages *)

\* n bytes of the buffer are written at flash_write_address.
WriteFlash(buffer, n) ==
    flash' = [a \in Flash |-> IF a \in addr .. addr + n - 1 THEN buffer[a - addr] ELSE flash[a]]

\* The buffer after the n bytes written were read back into its second half.
ReadBack(buffer, n) ==
    [i \in Offset |-> IF i \in HALF .. HALF + n - 1 THEN buffer[i - HALF] ELSE buffer[i]]

\* flush_download_buffer_to_flash: whole pages are written and verified, the
\* rest is moved to the front.  The loop ends when the region is full.
Flush ==
    LET n == used - Rest(used)
        verified == ReadBack(response_buffer, n) IN
    /\ pc = "flush"
    /\ WriteFlash(response_buffer, n)
    /\ response_buffer' = [i \in Offset |-> IF i < Rest(used) THEN verified[n + i] ELSE verified[i]]
    /\ used' = used - n /\ addr' = addr + n
    /\ pc' = IF total >= REGION THEN "last" ELSE "read"
    /\ UNCHANGED <<connection, stream, summed, total>>

\* The buffer with the last page filled up.
Padded == [i \in Offset |-> IF i \in used .. used + PAGE - Rest(used) - 1 THEN PAD
                            ELSE response_buffer[i]]

\* Mutant of Last: a last page that is not whole is not written.
Last_WholePages ==
    /\ pc = "last" /\ pc' = "done"
    /\ UNCHANGED <<connection, stream, response_buffer, used, flash, addr, summed, total>>

\* The rest, which is shorter than a page, is padded, written and verified.
\* flash_write_address is not needed any more and stays.
Last ==
    /\ pc = "last" /\ pc' = "done"
    /\ IF used > 0
       THEN /\ WriteFlash(Padded, PAGE)
            /\ response_buffer' = ReadBack(Padded, PAGE)
            /\ used' = PAGE
       ELSE UNCHANGED <<response_buffer, used, flash>>
    /\ UNCHANGED <<connection, stream, addr, summed, total>>

\* A write, a read or a comparison fails: the record is never made valid.
Fails ==
    /\ pc \in {"flush", "last"} /\ pc' = "failed"
    /\ UNCHANGED <<connection, stream, response_buffer, used, flash, addr, summed, total>>

-----------------------------------------------------------------------------
Init ==
    /\ pc = "open"
    /\ header = 0 /\ first = 0 /\ contentLength = 0
    /\ taken = 0 /\ bodyStart = 0 /\ bodyInBuffer = 0 /\ complete = FALSE
    /\ response_buffer = [i \in Offset |-> FOREIGN]
    /\ used = 0 /\ addr = 0 /\ total = 0
    /\ flash = [a \in Flash |-> PAD] /\ summed = [a \in Flash |-> PAD]

Next ==
    \/ \E h \in Header, r \in Offset, length \in {0, BODY} :
           r <= h + BODY /\ Open(h, r, length)
    \/ ReadEnded \/ ReadBuffered
    \/ \E r \in 0 .. READ, closed \in BOOLEAN : ReadNetwork(r, closed)
    \/ Flush \/ Last \/ Fails

Spec == Init /\ [][Next]_vars

-----------------------------------------------------------------------------
(* Properties *)

\* Every variable holds a value of its kind: no index leaves its buffer, and a
\* flush leaves less than a page.
TypeOK ==
    /\ pc \in {"open", "read", "flush", "last", "done", "failed"}
    /\ header \in Nat /\ first \in Offset /\ contentLength \in {0, BODY}
    /\ taken \in Nat /\ complete \in BOOLEAN
    /\ response_buffer \in [Offset -> Byte]
    /\ bodyStart \in Nat /\ bodyInBuffer \in Nat /\ bodyStart + bodyInBuffer < RESPONSE_SIZE
    /\ used \in 0 .. 3 * PAGE /\ (pc \in {"read", "last"} => used < PAGE)
    /\ flash \in [Flash -> Byte] /\ summed \in [Flash -> Byte]
    /\ addr \in Nat /\ total \in Nat /\ total <= REGION + READ

\* The header came as a whole, and of the body no more than stays clear of
\* the half that written pages are read back into, or is handed on at once.
Intact ==
    /\ header <= first
    /\ first <= HALF \/ first - header <= READ

\* What a download that ends records as its checksum is that of what the flash
\* holds, and padding follows it: also when it is not the body the server sent,
\* so the checksum of the record cannot tell (firmware_update.c:888-893,
\* 932-997, 1015-1019).
SumIsOfFlash ==
    pc = "done" => \A a \in Flash : flash[a] = IF a < total THEN summed[a] ELSE PAD

\* If what came with the header was clear of the verify buffer, the buffer and
\* the flash together store the body from its first byte on, byte after byte:
\* nothing is changed, lost or stored twice on its way from the connection to
\* the flash (http.c:1193-1237, firmware_update.c:604-664, 855-930).
Copy == INSTANCE BodyCopy
            WITH Address <- Flash,
                 stored <- [a \in Flash |->
                               IF ~Intact \/ a >= total THEN 0
                               ELSE IF a < addr \/ pc = "done" THEN flash[a]
                               ELSE response_buffer[a - addr]],
                 count <- IF Intact THEN total ELSE 0,
                 ended <- pc \in {"done", "failed"}
StoresBody == Copy!Spec

\* "Read next chunk of data" (http.h:115): what a read hands on are the next
\* bytes of the body.
ReadsNextChunk == header <= first => \A a \in Flash : a < total => summed[a] = a + 1
=============================================================================
