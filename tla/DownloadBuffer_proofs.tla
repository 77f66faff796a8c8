----------------------- MODULE DownloadBuffer_proofs -----------------------
(***************************************************************************)
(* Proofs about DownloadBuffer for any page, region, body and headers.     *)
(***************************************************************************)
EXTENDS DownloadBuffer, TLAPS

\* Places: nothing was read before the response came, a read begins only while
\* the region is not full, and what was summed is what was written and what is
\* collected.
Progress ==
    /\ pc = "open" => used = 0 /\ total = 0 /\ bodyInBuffer = 0
    /\ pc \in {"open", "read"} => total <= REGION
    /\ pc # "done" => addr + used = total

\* The checksum is of what was written and what is collected, in this order.
Accounted ==
    /\ pc # "done" => \A a \in Flash :
           /\ a < addr => flash[a] = summed[a]
           /\ addr <= a => flash[a] = PAD
           /\ addr <= a /\ a < total => response_buffer[a - addr] = summed[a]
    /\ pc = "done" => \A a \in Flash : flash[a] = IF a < total THEN summed[a] ELSE PAD

\* The body that came with the header is clear of the collected pages, and of
\* the half they are read back into when they are.
Clear ==
    /\ taken = header + total + bodyInBuffer
    /\ bodyInBuffer = 0 \/ used <= bodyStart
    /\ \/ bodyInBuffer = 0 \/ bodyStart + bodyInBuffer <= HALF
       \/ pc = "read" /\ bodyInBuffer <= READ

\* It is the part of the body that follows what was handed on.
Follows ==
    \A j \in Offset : bodyStart <= j /\ j < bodyStart + bodyInBuffer =>
        response_buffer[j] = total + 1 + j - bodyStart

Unread == Intact /\ pc \in {"read", "flush"} => Clear /\ Follows

\* What was handed on is the body from its first byte on.
Numbered == Intact => \A a \in Flash : a < total => summed[a] = a + 1

IInv == TypeOK /\ Progress /\ Accounted /\ Unread /\ Numbered

-----------------------------------------------------------------------------
(* Sizes *)

LEMMA Sizes ==
    /\ PAGE \in Nat /\ PAGE >= 2 /\ REGION \in Nat /\ BODY \in Nat
    /\ READ = 2 * PAGE + 1 /\ HALF = 4 * PAGE /\ RESPONSE_SIZE = 8 * PAGE
    /\ Offset = 0 .. 8 * PAGE - 1 /\ Flash = 0 .. REGION + 4 * PAGE - 1
BY PageAssumption, BodyAssumption DEF READ, HALF, RESPONSE_SIZE, Offset, Flash

\* What remains of the whole pages is less than a page and less than all.
LEMMA RestBounded ==
    ASSUME NEW n \in Nat
    PROVE  /\ Rest(n) \in 0 .. PAGE - 1 /\ Rest(n) <= n
           /\ n < PAGE => Rest(n) = n
<1>1. Rest(n) \in 0 .. PAGE - 1
  BY PageAssumption, SMT DEF Rest
<1>2. ASSUME n < PAGE PROVE Rest(n) = n
  BY <1>2, PageAssumption, SMT DEF Rest
<1> QED
  BY <1>1, <1>2, PageAssumption

\* A byte of the wire behind the header is of the body.
LEMMA WireByte ==
    ASSUME NEW p \in Nat, header \in Nat, p <= header + BODY
    PROVE  Wire(p) \in Byte
BY Sizes DEF Wire, Byte, FOREIGN, PAD

LEMMA WireBody ==
    ASSUME NEW p, ~(p <= header)
    PROVE  Wire(p) = p - header
BY Zenon DEF Wire

-----------------------------------------------------------------------------
(* Reading *)

\* What a read of n bytes keeps, wherever they come from.
LEMMA GotKeeps ==
    ASSUME TypeOK, Progress, Accounted, pc = "read", NEW n \in 0 .. READ, Got(n),
           response_buffer' \in [Offset -> Byte],
           \A k \in Offset : k < used => response_buffer'[k] = response_buffer[k],
           UNCHANGED <<flash, addr>>, pc' \in {"last", "flush"}, pc' = "last" => n = 0
    PROVE  /\ used' = used + n /\ total' = total + n
           /\ used' \in 0 .. 3 * PAGE /\ (pc' \in {"read", "last"} => used' < PAGE)
           /\ addr' \in Nat /\ total' \in Nat /\ total' <= REGION + READ
           /\ flash' \in [Flash -> Byte] /\ summed' \in [Flash -> Byte]
           /\ Progress' /\ Accounted'
<1> USE Sizes
<1>1. /\ used' = used + n /\ total' = total + n /\ addr' = addr /\ flash' = flash
      /\ used \in 0 .. PAGE - 1 /\ total \in Nat /\ total <= REGION /\ addr \in Nat
      /\ addr + used = total
  BY DEF Got, TypeOK, Progress
<1>2. /\ used' \in 0 .. 3 * PAGE /\ (pc' \in {"read", "last"} => used' < PAGE)
      /\ addr' \in Nat /\ total' \in Nat /\ total' <= REGION + READ
  BY <1>1
<1>3. summed' = [a \in Flash |-> IF a \in total .. total + n - 1
                                 THEN response_buffer'[used + a - total] ELSE summed[a]]
  BY DEF Got
<1>4. ASSUME NEW a \in Flash, a \in total .. total + n - 1
      PROVE  used + a - total \in Offset /\ used + a - total = a - addr
  <2>1. a \in Int /\ total <= a /\ a < total + n /\ n <= 2 * PAGE + 1
    BY <1>1, <1>4
  <2>2. used + a - total = a - addr
    BY <1>1, <2>1
  <2>3. used + a - total \in 0 .. 8 * PAGE - 1
    BY <1>1, <2>1
  <2> QED
    BY <2>2, <2>3
<1>5. summed' \in [Flash -> Byte]
  BY <1>3, <1>4 DEF TypeOK
<1>6. Progress'
  BY <1>1, <1>2 DEF Progress
<1>7. Accounted'
  <2>1. ASSUME NEW a \in Flash, a < addr PROVE flash[a] = summed'[a]
    BY <1>1, <1>3, <2>1 DEF Accounted
  <2>2. ASSUME NEW a \in Flash, addr <= a PROVE flash[a] = PAD
    BY <1>1, <2>2 DEF Accounted
  <2>3. ASSUME NEW a \in Flash, addr <= a, a < total'
        PROVE  response_buffer'[a - addr] = summed'[a]
    <3>1. CASE a < total
      <4>1. a - addr \in Offset /\ a - addr < used
        BY <1>1, <2>3, <3>1
      <4>2. response_buffer'[a - addr] = response_buffer[a - addr]
        BY <4>1
      <4>3. a \notin total .. total + n - 1
        BY <1>1, <3>1
      <4>4. summed'[a] = summed[a]
        BY <1>3, <4>3, Zenon
      <4> QED
        BY <2>3, <3>1, <4>2, <4>4 DEF Accounted
    <3>2. CASE ~(a < total)
      <4>1. a \in total .. total + n - 1
        BY <1>1, <2>3, <3>2
      <4> QED
        BY <1>3, <1>4, <4>1
    <3> QED
      BY <3>1, <3>2
  <2>4. pc' # "done"
    OBVIOUS
  <2> QED
    BY <1>1, <2>1, <2>2, <2>3, <2>4 DEF Accounted
<1> QED
  BY <1>1, <1>2, <1>5, <1>6, <1>7 DEF TypeOK

\* What is handed on is numbered if it follows in the buffer.
LEMMA GotNumbered ==
    ASSUME TypeOK, Progress, Numbered, pc = "read", NEW n \in 0 .. READ, Got(n),
           UNCHANGED connection,
           Intact => \A k \in Offset : used <= k /\ k < used + n =>
                         response_buffer'[k] = total + 1 + k - used
    PROVE  Numbered'
<1> USE Sizes
<1>1. /\ used \in 0 .. PAGE - 1 /\ total \in Nat /\ total' = total + n
      /\ Intact' = Intact
  BY DEF Got, TypeOK, connection, Intact
<1>2. summed' = [a \in Flash |-> IF a \in total .. total + n - 1
                                 THEN response_buffer'[used + a - total] ELSE summed[a]]
  BY DEF Got
<1>3. ASSUME Intact, NEW a \in Flash, a < total + n PROVE summed'[a] = a + 1
  <2>1. CASE a < total
    BY <1>1, <1>2, <1>3, <2>1 DEF Numbered
  <2>2. CASE ~(a < total)
    <3> DEFINE k == used + a - total
    <3>1. a \in total .. total + n - 1 /\ k \in Offset /\ used <= k /\ k < used + n
      BY <1>1, <1>3, <2>2
    <3>2. response_buffer'[k] = total + 1 + k - used
      BY <1>3, <3>1
    <3> QED
      BY <1>1, <1>2, <3>1, <3>2
  <2> QED
    BY <2>1, <2>2
<1> QED
  BY <1>1, <1>3 DEF Numbered

\* A read that the body in the buffer is enough for.
LEMMA ReadBufferedKeeps ==
    ASSUME IInv, ReadBuffered
    PROVE  IInv'
<1> USE Sizes
<1> DEFINE n == Least(bodyInBuffer, READ)
<1>1. /\ pc = "read" /\ pc' = "flush" /\ Got(n) /\ response_buffer' = Copied(n)
      /\ bodyStart' = bodyStart + n /\ bodyInBuffer' = bodyInBuffer - n
      /\ UNCHANGED <<connection, taken, flash, addr>> /\ complete' \in BOOLEAN
  BY DEF ReadBuffered, LengthReached
<1>2. n \in 0 .. READ /\ n <= bodyInBuffer /\ (n = READ \/ n = bodyInBuffer)
  BY DEF Least, IInv, TypeOK
<1> HIDE DEF n
<1>3. /\ bodyStart \in Nat /\ bodyInBuffer \in Nat /\ bodyStart + bodyInBuffer < 8 * PAGE
      /\ used \in 0 .. PAGE - 1 /\ response_buffer \in [Offset -> Byte]
      /\ total \in Nat /\ taken \in Nat /\ header \in Nat
  BY <1>1 DEF IInv, TypeOK
<1>4. ASSUME NEW k \in Offset, k \in used .. used + n - 1
      PROVE  bodyStart + k - used \in Offset /\ bodyStart + k - used < bodyStart + bodyInBuffer
             /\ bodyStart <= bodyStart + k - used
  <2>1. k \in Int /\ used <= k /\ k - used < n /\ n \in Nat
    BY <1>2, <1>3, <1>4
  <2>2. bodyStart + k - used < bodyStart + bodyInBuffer /\ bodyStart <= bodyStart + k - used
    BY <1>2, <1>3, <2>1
  <2>3. bodyStart + k - used \in 0 .. 8 * PAGE - 1
    BY <1>3, <2>1, <2>2
  <2> QED
    BY <2>2, <2>3
<1>5. \A k \in Offset : response_buffer'[k] = IF k \in used .. used + n - 1
          THEN response_buffer[bodyStart + k - used] ELSE response_buffer[k]
  BY <1>1 DEF Copied
<1>6. response_buffer' \in [Offset -> Byte]
  BY <1>1, <1>3, <1>4 DEF Copied
<1>7. \A k \in Offset : k < used => response_buffer'[k] = response_buffer[k]
  BY <1>2, <1>3, <1>5
<1>8. /\ used' = used + n /\ total' = total + n
      /\ used' \in 0 .. 3 * PAGE /\ (pc' \in {"read", "last"} => used' < PAGE)
      /\ addr' \in Nat /\ total' \in Nat /\ total' <= REGION + READ
      /\ flash' \in [Flash -> Byte] /\ summed' \in [Flash -> Byte]
      /\ Progress' /\ Accounted'
  BY <1>1, <1>2, <1>6, <1>7, GotKeeps DEF IInv
<1>9. TypeOK'
  <2>1. bodyStart' \in Nat /\ bodyInBuffer' \in Nat /\ bodyStart' + bodyInBuffer' < RESPONSE_SIZE
    BY <1>1, <1>2, <1>3
  <2>2. header' \in Nat /\ first' \in Offset /\ contentLength' \in {0, BODY} /\ taken' \in Nat
    BY <1>1 DEF connection, IInv, TypeOK
  <2> QED
    BY <1>1, <1>6, <1>8, <2>1, <2>2 DEF TypeOK
<1>10. Intact' = Intact /\ header' = header /\ taken' = taken
  BY <1>1 DEF Intact, connection
<1>11. ASSUME Intact PROVE Clear /\ Follows
  BY <1>1, <1>11 DEF IInv, Unread
<1>12. Unread'
  <2> SUFFICES ASSUME Intact PROVE Clear' /\ Follows'
    BY <1>10 DEF Unread
  <2>1. Clear'
    <3>1. taken' = header' + total' + bodyInBuffer'
      BY <1>1, <1>2, <1>3, <1>8, <1>10, <1>11 DEF Clear
    <3>2. bodyInBuffer' = 0 \/ used' <= bodyStart'
      BY <1>1, <1>2, <1>3, <1>8, <1>11 DEF Clear
    <3>3. bodyInBuffer' = 0 \/ bodyStart' + bodyInBuffer' <= HALF
      BY <1>1, <1>2, <1>3, <1>11 DEF Clear
    <3> QED
      BY <3>1, <3>2, <3>3 DEF Clear
  <2>2. Follows'
    <3>1. ASSUME NEW j \in Offset, bodyStart' <= j, j < bodyStart' + bodyInBuffer'
          PROVE  response_buffer'[j] = total' + 1 + j - bodyStart'
      <4>1. bodyStart + n <= j /\ j < bodyStart + bodyInBuffer /\ used <= bodyStart
        BY <1>1, <1>2, <1>3, <1>11, <3>1 DEF Clear
      <4>2. response_buffer'[j] = response_buffer[j]
        BY <1>2, <1>3, <1>5, <4>1
      <4>3. response_buffer[j] = total + 1 + j - bodyStart
        BY <1>2, <1>3, <1>11, <4>1 DEF Follows
      <4> QED
        BY <1>1, <1>2, <1>3, <1>8, <4>2, <4>3
    <3> QED
      BY <3>1 DEF Follows
  <2> QED
    BY <2>1, <2>2
<1>13. Numbered'
  <2>1. ASSUME Intact, NEW k \in Offset, used <= k, k < used + n
        PROVE  response_buffer'[k] = total + 1 + k - used
    <3>1. k \in used .. used + n - 1
      BY <1>2, <1>3, <2>1
    <3>2. response_buffer'[k] = response_buffer[bodyStart + k - used]
      BY <1>5, <3>1
    <3>3. response_buffer[bodyStart + k - used] = total + 1 + (bodyStart + k - used) - bodyStart
      BY <1>4, <1>11, <2>1, <3>1 DEF Follows
    <3> QED
      BY <1>3, <3>2, <3>3
  <2> QED
    BY <1>1, <1>2, <2>1, GotNumbered DEF IInv
<1> QED
  BY <1>8, <1>9, <1>12, <1>13 DEF IInv

\* A read that is completed, or made, from the connection.
LEMMA ReadNetworkKeeps ==
    ASSUME IInv, NEW r \in 0 .. READ, NEW closed \in BOOLEAN, ReadNetwork(r, closed)
    PROVE  IInv'
<1> USE Sizes
<1> DEFINE n == bodyInBuffer
           m == n + r
<1>1. /\ pc = "read" /\ pc' = (IF m = 0 THEN "last" ELSE "flush") /\ Got(m)
      /\ n < READ /\ r <= READ - n - 1 /\ taken + r <= header + BODY
      /\ bodyStart' = bodyStart + n /\ bodyInBuffer' = 0 /\ taken' = taken + r
      /\ UNCHANGED <<connection, flash, addr>> /\ complete' \in BOOLEAN
  BY DEF ReadNetwork, LengthReached
<1>2. /\ bodyStart \in Nat /\ n \in Nat /\ bodyStart + n < 8 * PAGE
      /\ used \in 0 .. PAGE - 1 /\ response_buffer \in [Offset -> Byte]
      /\ total \in Nat /\ taken \in Nat /\ header \in Nat
  BY <1>1 DEF IInv, TypeOK
<1>3. m \in 0 .. READ /\ m < READ /\ r \in Nat
  BY <1>1, <1>2
<1>4. \A k \in Offset : response_buffer'[k] =
          IF k \in used + n .. used + n + r - 1 THEN Wire(taken + 1 + k - used - n)
          ELSE IF k = used + n + r THEN FOREIGN
          ELSE IF k \in used .. used + n - 1 THEN response_buffer[bodyStart + k - used]
          ELSE response_buffer[k]
  BY DEF ReadNetwork, Copied
<1>5. ASSUME NEW k \in Offset, k \in used .. used + n - 1
      PROVE  bodyStart + k - used \in Offset /\ bodyStart + k - used < bodyStart + bodyInBuffer
             /\ bodyStart <= bodyStart + k - used
  <2>1. k \in Int /\ used <= k /\ k - used < n
    BY <1>2, <1>5
  <2>2. bodyStart + k - used < bodyStart + bodyInBuffer /\ bodyStart <= bodyStart + k - used
    BY <1>2, <2>1
  <2>3. bodyStart + k - used \in 0 .. 8 * PAGE - 1
    BY <1>2, <2>1, <2>2
  <2> QED
    BY <2>2, <2>3
<1>6. ASSUME NEW k \in Offset, k \in used + n .. used + n + r - 1
      PROVE  /\ taken + 1 + k - used - n \in Nat
             /\ taken < taken + 1 + k - used - n /\ taken + 1 + k - used - n <= header + BODY
  BY <1>1, <1>2, <1>3, <1>6
<1> HIDE DEF n, m
<1>7. response_buffer' \in [Offset -> Byte]
  <2>1. ASSUME NEW k \in Offset, k \in used + n .. used + n + r - 1
        PROVE  Wire(taken + 1 + k - used - n) \in Byte
    BY <1>2, <1>6, <2>1, WireByte
  <2>2. ASSUME NEW k \in Offset, k \in used .. used + n - 1
        PROVE  response_buffer[bodyStart + k - used] \in Byte
    BY <1>2, <1>5, <2>2
  <2>3. FOREIGN \in Byte
    BY DEF Byte
  <2>4. \A k \in Offset : response_buffer'[k] \in Byte
    BY <1>2, <1>4, <2>1, <2>2, <2>3
  <2>5. response_buffer' = [k \in Offset |-> response_buffer'[k]]
    BY DEF ReadNetwork
  <2> QED
    BY <2>4, <2>5
<1>8. \A k \in Offset : k < used => response_buffer'[k] = response_buffer[k]
  <2>1. ASSUME NEW k \in Offset, k < used
        PROVE  /\ k \notin used + n .. used + n + r - 1 /\ k # used + n + r
               /\ k \notin used .. used + n - 1
    BY <1>2, <1>3, <2>1 DEF n
  <2> QED
    BY <1>4, <2>1
<1>9. /\ used' = used + m /\ total' = total + m
      /\ used' \in 0 .. 3 * PAGE /\ (pc' \in {"read", "last"} => used' < PAGE)
      /\ addr' \in Nat /\ total' \in Nat /\ total' <= REGION + READ
      /\ flash' \in [Flash -> Byte] /\ summed' \in [Flash -> Byte]
      /\ Progress' /\ Accounted'
  <2>1. pc' \in {"last", "flush"} /\ (pc' = "last" => m = 0) /\ UNCHANGED <<flash, addr>>
    BY <1>1
  <2> QED
    BY <1>1, <1>3, <1>7, <1>8, <2>1, GotKeeps DEF IInv
<1>10. TypeOK'
  <2>1. bodyStart' \in Nat /\ bodyInBuffer' \in Nat /\ bodyStart' + bodyInBuffer' < RESPONSE_SIZE
    BY <1>1, <1>2
  <2>2. header' \in Nat /\ first' \in Offset /\ contentLength' \in {0, BODY} /\ taken' \in Nat
    BY <1>1, <1>2, <1>3 DEF connection, IInv, TypeOK
  <2> QED
    BY <1>1, <1>7, <1>9, <2>1, <2>2 DEF TypeOK
<1>11. Intact' = Intact /\ header' = header
  BY <1>1 DEF Intact, connection
<1>12. ASSUME Intact PROVE Clear /\ Follows
  BY <1>1, <1>12 DEF IInv, Unread
<1>13. Unread'
  <2> SUFFICES ASSUME Intact PROVE Clear' /\ Follows'
    BY <1>11 DEF Unread
  <2>1. taken' = header' + total' + bodyInBuffer'
    BY <1>1, <1>2, <1>3, <1>9, <1>11, <1>12 DEF Clear, n, m
  <2>2. ~ \E j \in Offset : bodyStart' <= j /\ j < bodyStart' + bodyInBuffer'
    BY <1>1, <1>2
  <2> QED
    BY <1>1, <2>1, <2>2 DEF Clear, Follows
<1>14. Numbered'
  <2>1. ASSUME Intact, NEW k \in Offset, used <= k, k < used + m
        PROVE  response_buffer'[k] = total + 1 + k - used
    <3>1. CASE k < used + n
      <4>1. k \in used .. used + n - 1 /\ k \notin used + n .. used + n + r - 1 /\ k # used + n + r
        BY <1>2, <1>3, <2>1, <3>1 DEF n
      <4>2. response_buffer'[k] = response_buffer[bodyStart + k - used]
        BY <1>4, <4>1
      <4>3. response_buffer[bodyStart + k - used] = total + 1 + (bodyStart + k - used) - bodyStart
        BY <1>5, <1>12, <2>1, <4>1 DEF Follows
      <4> QED
        BY <1>2, <4>2, <4>3
    <3>2. CASE ~(k < used + n)
      <4>1. k \in used + n .. used + n + r - 1
        BY <1>2, <1>3, <2>1, <3>2 DEF n, m
      <4> DEFINE p == taken + 1 + k - used - n
      <4>2. response_buffer'[k] = Wire(p)
        BY <1>4, <4>1
      <4>3. taken = header + total + n
        BY <1>12, <2>1 DEF Clear, n
      <4>4. ~(p <= header) /\ p - header = total + 1 + k - used
        BY <1>2, <2>1, <3>2, <4>3 DEF n
      <4> HIDE DEF p
      <4>5. Wire(p) = p - header
        BY <4>4, WireBody
      <4> QED
        BY <4>2, <4>4, <4>5
    <3> QED
      BY <3>1, <3>2
  <2> QED
    BY <1>1, <1>3, <2>1, GotNumbered DEF IInv
<1> QED
  BY <1>9, <1>10, <1>13, <1>14 DEF IInv

\* A read of nothing more.
LEMMA ReadEndedKeeps ==
    ASSUME IInv, ReadEnded
    PROVE  IInv'
<1>1. /\ pc = "read" /\ pc' = "last"
      /\ UNCHANGED <<connection, stream, response_buffer, used, flash, addr, summed, total>>
  BY DEF ReadEnded
<1>2. TypeOK' /\ Progress' /\ Accounted' /\ Unread' /\ Numbered'
  <2>1. TypeOK'
    BY <1>1 DEF IInv, TypeOK, connection, stream
  <2>2. Progress' /\ Accounted'
    BY <1>1 DEF IInv, Progress, Accounted
  <2>3. Unread' /\ Numbered'
    BY <1>1 DEF IInv, Unread, Numbered, Intact, connection
  <2> QED
    BY <2>1, <2>2, <2>3
<1> QED
  BY <1>2 DEF IInv

-----------------------------------------------------------------------------
(* Opening and writing *)

\* The response has been opened.
LEMMA OpenKeeps ==
    ASSUME IInv, NEW h \in Header, NEW r \in Offset, NEW length \in {0, BODY},
           r <= h + BODY, Open(h, r, length)
    PROVE  IInv'
<1> USE Sizes
<1>1. /\ pc = "open" /\ pc' = "read" /\ header' = h /\ first' = r /\ contentLength' = length
      /\ taken' = r /\ UNCHANGED <<complete, used, flash, addr, summed, total>>
      /\ response_buffer' = [j \in Offset |-> IF j < r /\ j >= h THEN j + 1 - h ELSE FOREIGN]
  BY DEF Open
<1>2. h \in Nat /\ r \in Nat /\ r < 8 * PAGE
  BY HeaderAssumption
<1>3. IF r >= h THEN bodyStart' = h /\ bodyInBuffer' = r - h
                ELSE bodyStart' = 0 /\ bodyInBuffer' = 0
  BY DEF Open
<1>4. used = 0 /\ total = 0 /\ total <= REGION /\ addr + used = total
  BY <1>1 DEF IInv, Progress
<1>5. /\ TypeOK
      /\ \A a \in Flash : /\ a < addr => flash[a] = summed[a]
                          /\ addr <= a => flash[a] = PAD
      /\ addr = 0
  BY <1>1, <1>4 DEF IInv, Accounted, TypeOK
<1>6. TypeOK'
  <2>1. ASSUME NEW j \in Offset, j < r, j >= h PROVE j + 1 - h \in Byte
    BY <1>2, <2>1 DEF Byte
  <2>2. FOREIGN \in Byte
    BY DEF Byte
  <2>3. response_buffer' \in [Offset -> Byte]
    BY <1>1, <2>1, <2>2
  <2>4. bodyStart' \in Nat /\ bodyInBuffer' \in Nat /\ bodyStart' + bodyInBuffer' < RESPONSE_SIZE
    BY <1>2, <1>3
  <2> QED
    <3>1. /\ complete' \in BOOLEAN /\ flash' \in [Flash -> Byte] /\ summed' \in [Flash -> Byte]
          /\ used' \in 0 .. 3 * PAGE /\ used' < PAGE /\ addr' \in Nat
          /\ total' \in Nat /\ total' <= REGION + READ
      BY <1>1, <1>4, <1>5 DEF TypeOK
    <3>2. pc' \in {"open", "read", "flush", "last", "done", "failed"} /\ header' \in Nat
          /\ first' \in Offset /\ contentLength' \in {0, BODY} /\ taken' \in Nat
      BY <1>1, <1>2
    <3> QED
      BY <2>3, <2>4, <3>1, <3>2 DEF TypeOK
<1>7. Progress'
  BY <1>1, <1>4 DEF Progress
<1>8. Accounted'
  BY <1>1, <1>4, <1>5 DEF Accounted
<1>9. Unread'
  <2> SUFFICES ASSUME Intact' PROVE Clear' /\ Follows'
    BY DEF Unread
  <2>1. h <= r /\ (r <= HALF \/ r - h <= READ)
    BY <1>1 DEF Intact
  <2>2. bodyStart' = h /\ bodyInBuffer' = r - h
    BY <1>2, <1>3, <2>1
  <2>3. Clear'
    BY <1>1, <1>2, <1>4, <2>1, <2>2 DEF Clear
  <2>4. Follows'
    BY <1>1, <1>2, <1>4, <2>2 DEF Follows
  <2> QED
    BY <2>3, <2>4
<1>10. Numbered'
  BY <1>1, <1>4 DEF Numbered
<1> QED
  BY <1>6, <1>7, <1>8, <1>9, <1>10 DEF IInv

\* The collected pages are written and read back.
LEMMA FlushKeeps ==
    ASSUME IInv, Flush
    PROVE  IInv'
<1> USE Sizes
<1> DEFINE left == Rest(used)
           n == used - left
           verified == ReadBack(response_buffer, n)
<1>1. /\ pc = "flush" /\ pc' = (IF total >= REGION THEN "last" ELSE "read")
      /\ WriteFlash(response_buffer, n)
      /\ response_buffer' = [j \in Offset |-> IF j < left THEN verified[n + j] ELSE verified[j]]
      /\ used' = used - n /\ addr' = addr + n
      /\ UNCHANGED <<connection, stream, summed, total>>
  BY DEF Flush
<1>2. /\ used \in 0 .. 3 * PAGE /\ left \in 0 .. PAGE - 1 /\ left <= used
      /\ n \in 0 .. used /\ used' = left
  <2>1. used \in 0 .. 3 * PAGE
    BY DEF IInv, TypeOK
  <2>2. left \in 0 .. PAGE - 1 /\ left <= used
    BY <2>1, RestBounded
  <2> QED
    BY <1>1, <2>1, <2>2
<1> HIDE DEF left
<1>3. /\ addr \in Nat /\ total \in Nat /\ addr + used = total /\ total <= REGION + READ
      /\ response_buffer \in [Offset -> Byte] /\ flash \in [Flash -> Byte]
  BY <1>1 DEF IInv, TypeOK, Progress
<1>4. \A j \in Offset : verified[j] = IF j \in HALF .. HALF + n - 1 THEN response_buffer[j - HALF]
                                      ELSE response_buffer[j]
  BY DEF ReadBack
<1>5. \A j \in Offset : response_buffer'[j] = IF j < left THEN verified[n + j] ELSE verified[j]
  BY <1>1
<1>6. \A a \in Flash : flash'[a] = IF a \in addr .. addr + n - 1 THEN response_buffer[a - addr]
                                   ELSE flash[a]
  BY <1>1 DEF WriteFlash
<1> HIDE DEF verified, n
<1>7. ASSUME NEW j \in Offset, j < left
      PROVE  n + j \in Offset /\ n + j < used /\ response_buffer'[j] = response_buffer[n + j]
  <2>1. n + j \in Offset /\ n + j < used /\ n + j \notin HALF .. HALF + n - 1
    BY <1>2, <1>7 DEF n
  <2> QED
    BY <1>4, <1>5, <1>7, <2>1, Zenon
<1>8. TypeOK'
  <2>1. ASSUME NEW j \in Offset PROVE verified[j] \in Byte
    <3>1. CASE j \in HALF .. HALF + n - 1
      <4>1. j - HALF \in Offset
        BY <1>2, <3>1
      <4> QED
        BY <1>3, <1>4, <3>1, <4>1
    <3>2. CASE j \notin HALF .. HALF + n - 1
      BY <1>3, <1>4, <3>2
    <3> QED
      BY <3>1, <3>2
  <2>2. response_buffer' \in [Offset -> Byte]
    BY <1>1, <1>7, <2>1, <1>3
  <2>3. ASSUME NEW a \in Flash, a \in addr .. addr + n - 1 PROVE response_buffer[a - addr] \in Byte
    <3>1. a - addr \in Offset
      BY <1>2, <1>3, <2>3
    <3> QED
      BY <1>3, <3>1
  <2>4. flash' \in [Flash -> Byte]
    BY <1>1, <1>3, <2>3 DEF WriteFlash
  <2>5. used' \in 0 .. 3 * PAGE /\ used' < PAGE /\ addr' \in Nat
    BY <1>1, <1>2, <1>3
  <2>6. /\ header' \in Nat /\ first' \in Offset /\ contentLength' \in {0, BODY} /\ taken' \in Nat
        /\ bodyStart' \in Nat /\ bodyInBuffer' \in Nat /\ bodyStart' + bodyInBuffer' < RESPONSE_SIZE
        /\ summed' \in [Flash -> Byte] /\ total' \in Nat /\ total' <= REGION + READ
    BY <1>1 DEF connection, stream, IInv, TypeOK
  <2>7. complete' \in BOOLEAN
    BY <1>1 DEF stream, IInv, TypeOK
  <2> QED
    BY <1>1, <2>2, <2>4, <2>5, <2>6, <2>7 DEF TypeOK
<1>9. Progress'
  BY <1>1, <1>2, <1>3 DEF Progress
<1>10. Accounted'
  <2>0. \A a \in Flash : /\ a < addr => flash[a] = summed[a]
                         /\ addr <= a => flash[a] = PAD
                         /\ addr <= a /\ a < total => response_buffer[a - addr] = summed[a]
    BY <1>1 DEF IInv, Accounted
  <2>1. ASSUME NEW a \in Flash, a < addr' PROVE flash'[a] = summed'[a]
    <3>1. CASE a < addr
      <4>1. a \notin addr .. addr + n - 1
        BY <1>3, <3>1
      <4> QED
        BY <1>1, <1>6, <2>0, <3>1, <4>1
    <3>2. CASE ~(a < addr)
      <4>1. a \in addr .. addr + n - 1 /\ addr <= a /\ a < total
        BY <1>1, <1>2, <1>3, <2>1, <3>2
      <4> QED
        BY <1>1, <1>6, <2>0, <4>1
    <3> QED
      BY <3>1, <3>2
  <2>2. ASSUME NEW a \in Flash, addr' <= a PROVE flash'[a] = PAD
    <3>1. a \notin addr .. addr + n - 1 /\ addr <= a
      BY <1>1, <1>2, <1>3, <2>2
    <3> QED
      BY <1>6, <2>0, <3>1
  <2>3. ASSUME NEW a \in Flash, addr' <= a, a < total'
        PROVE  response_buffer'[a - addr'] = summed'[a]
    <3>1. /\ a - addr' \in Offset /\ a - addr' < left /\ n + (a - addr') = a - addr
          /\ addr <= a /\ a < total
      BY <1>1, <1>2, <1>3, <2>3 DEF n
    <3>2. response_buffer'[a - addr'] = response_buffer[a - addr]
      BY <1>7, <3>1
    <3> QED
      BY <1>1, <2>0, <3>1, <3>2
  <2> QED
    BY <1>1, <2>1, <2>2, <2>3 DEF Accounted
<1>11. Intact' = Intact
  BY <1>1 DEF Intact, connection
<1>12. Unread'
  <2> SUFFICES ASSUME Intact, pc' = "read" PROVE Clear' /\ Follows'
    BY <1>1, <1>11 DEF Unread
  <2>1. Clear /\ Follows
    BY <1>1 DEF IInv, Unread
  <2>2. /\ bodyStart \in Nat /\ bodyInBuffer \in Nat /\ header' = header /\ taken' = taken
        /\ bodyStart' = bodyStart /\ bodyInBuffer' = bodyInBuffer
        /\ total' = total
    BY <1>1 DEF IInv, TypeOK, connection, stream
  <2>3. /\ taken = header + total + bodyInBuffer
        /\ bodyInBuffer = 0 \/ used <= bodyStart
        /\ bodyInBuffer = 0 \/ bodyStart + bodyInBuffer <= HALF
    BY <1>1, <2>1 DEF Clear
  <2>4. Clear'
    BY <1>2, <2>2, <2>3 DEF Clear
  <2>5. ASSUME NEW j \in Offset, bodyStart <= j, j < bodyStart + bodyInBuffer
        PROVE  response_buffer'[j] = total + 1 + j - bodyStart
    <3>1. ~(j < left) /\ j \notin HALF .. HALF + n - 1
      BY <1>2, <2>2, <2>3, <2>5
    <3>2. response_buffer'[j] = response_buffer[j]
      BY <1>4, <1>5, <3>1
    <3> QED
      BY <2>1, <2>5, <3>2 DEF Follows
  <2> QED
    BY <2>2, <2>4, <2>5 DEF Follows
<1>13. Numbered'
  BY <1>1, <1>11 DEF IInv, Numbered
<1> QED
  BY <1>8, <1>9, <1>10, <1>12, <1>13 DEF IInv

\* What is left is padded and written.
LEMMA LastKeeps ==
    ASSUME IInv, Last
    PROVE  IInv'
<1> USE Sizes
<1>1. /\ pc = "last" /\ pc' = "done"
      /\ UNCHANGED <<connection, stream, addr, summed, total>>
  BY DEF Last
<1>2. /\ used \in 0 .. PAGE - 1 /\ addr \in Nat /\ total \in Nat /\ addr + used = total
      /\ total <= REGION + READ /\ response_buffer \in [Offset -> Byte] /\ flash \in [Flash -> Byte]
  BY <1>1 DEF IInv, TypeOK, Progress
<1>3. Rest(used) = used
  BY <1>2, RestBounded
<1>4. \A a \in Flash : /\ a < addr => flash[a] = summed[a]
                       /\ addr <= a => flash[a] = PAD
                       /\ addr <= a /\ a < total => response_buffer[a - addr] = summed[a]
  BY <1>1 DEF IInv, Accounted
<1>5. /\ Padded \in [Offset -> Byte]
      /\ \A j \in Offset : Padded[j] = IF j \in used .. PAGE - 1 THEN PAD ELSE response_buffer[j]
  <2>1. PAD \in Byte
    BY DEF Byte
  <2>2. used + PAGE - Rest(used) - 1 = PAGE - 1
    BY <1>2, <1>3
  <2> QED
    BY <1>2, <2>1, <2>2 DEF Padded
<1>6. ASSUME used > 0
      PROVE  /\ response_buffer' \in [Offset -> Byte] /\ flash' \in [Flash -> Byte]
             /\ \A a \in Flash : flash'[a] = IF a < total THEN summed[a] ELSE PAD
             /\ used' \in 0 .. 3 * PAGE
  <2>1. WriteFlash(Padded, PAGE) /\ response_buffer' = ReadBack(Padded, PAGE) /\ used' = PAGE
    BY <1>6 DEF Last
  <2>2. \A a \in Flash : flash'[a] = IF a \in addr .. addr + PAGE - 1 THEN Padded[a - addr] ELSE flash[a]
    BY <2>1 DEF WriteFlash
  <2>3. ASSUME NEW a \in Flash, a \in addr .. addr + PAGE - 1 PROVE a - addr \in Offset
    BY <1>2, <2>3
  <2>4. flash' \in [Flash -> Byte]
    BY <1>2, <1>5, <2>1, <2>3 DEF WriteFlash
  <2>5. response_buffer' \in [Offset -> Byte]
    <3>1. ASSUME NEW j \in Offset, j \in HALF .. HALF + PAGE - 1 PROVE j - HALF \in Offset
      BY <3>1
    <3> QED
      BY <1>5, <2>1, <3>1 DEF ReadBack
  <2>6. ASSUME NEW a \in Flash PROVE flash'[a] = IF a < total THEN summed[a] ELSE PAD
    <3>1. CASE a < addr
      <4>1. a \notin addr .. addr + PAGE - 1 /\ a < total
        BY <1>2, <3>1
      <4> QED
        BY <1>4, <2>2, <3>1, <4>1
    <3>2. CASE addr <= a /\ a < addr + PAGE
      <4>1. a \in addr .. addr + PAGE - 1 /\ a - addr \in Offset
        BY <1>2, <2>3, <3>2
      <4>2. flash'[a] = Padded[a - addr]
        BY <2>2, <4>1
      <4>3. CASE a < total
        <5>1. a - addr \notin used .. PAGE - 1
          BY <1>2, <3>2, <4>3
        <5>2. Padded[a - addr] = response_buffer[a - addr]
          BY <1>5, <4>1, <5>1
        <5>3. response_buffer[a - addr] = summed[a]
          BY <1>4, <3>2, <4>3
        <5> QED
          BY <4>2, <4>3, <5>2, <5>3
      <4>4. CASE ~(a < total)
        <5>1. a - addr \in used .. PAGE - 1
          BY <1>2, <3>2, <4>4
        <5>2. Padded[a - addr] = PAD
          BY <1>5, <4>1, <5>1
        <5> QED
          BY <4>2, <4>4, <5>2
      <4> QED
        BY <4>3, <4>4
    <3>3. CASE ~(a < addr + PAGE)
      <4>1. a \notin addr .. addr + PAGE - 1 /\ addr <= a /\ ~(a < total)
        BY <1>2, <3>3
      <4> QED
        BY <1>4, <2>2, <4>1
    <3> QED
      BY <1>2, <3>1, <3>2, <3>3
  <2> QED
    BY <2>1, <2>4, <2>5, <2>6
<1>7. ASSUME ~(used > 0)
      PROVE  /\ response_buffer' \in [Offset -> Byte] /\ flash' \in [Flash -> Byte]
             /\ \A a \in Flash : flash'[a] = IF a < total THEN summed[a] ELSE PAD
             /\ used' \in 0 .. 3 * PAGE
  <2>1. UNCHANGED <<response_buffer, used, flash>> /\ used = 0 /\ addr = total
    BY <1>2, <1>7 DEF Last
  <2> QED
    BY <1>2, <1>4, <2>1
<1>8. /\ response_buffer' \in [Offset -> Byte] /\ flash' \in [Flash -> Byte]
      /\ \A a \in Flash : flash'[a] = IF a < total THEN summed[a] ELSE PAD
      /\ used' \in 0 .. 3 * PAGE
  BY <1>6, <1>7
<1>9. TypeOK'
  <2>1. /\ header' \in Nat /\ first' \in Offset /\ contentLength' \in {0, BODY} /\ taken' \in Nat
        /\ bodyStart' \in Nat /\ bodyInBuffer' \in Nat /\ bodyStart' + bodyInBuffer' < RESPONSE_SIZE
        /\ summed' \in [Flash -> Byte] /\ total' \in Nat /\ total' <= REGION + READ /\ addr' \in Nat
    BY <1>1 DEF connection, stream, IInv, TypeOK
  <2>2. complete' \in BOOLEAN
    BY <1>1 DEF stream, IInv, TypeOK
  <2> QED
    BY <1>1, <1>8, <2>1, <2>2 DEF TypeOK
<1>10. Progress' /\ Unread'
  BY <1>1 DEF Progress, Unread
<1>11. Accounted'
  BY <1>1, <1>8 DEF Accounted
<1>12. Numbered'
  BY <1>1 DEF IInv, Numbered, Intact, connection
<1> QED
  BY <1>9, <1>10, <1>11, <1>12 DEF IInv

\* A failed access to the flash changes nothing but the place.
LEMMA FailsKeeps ==
    ASSUME IInv, Fails
    PROVE  IInv'
<1>1. /\ pc \in {"flush", "last"} /\ pc' = "failed"
      /\ UNCHANGED <<connection, stream, response_buffer, used, flash, addr, summed, total>>
  BY DEF Fails
<1>2. TypeOK'
  BY <1>1 DEF IInv, TypeOK, connection, stream
<1>3. Progress' /\ Accounted' /\ Unread'
  <2>1. Progress'
    BY <1>1 DEF IInv, Progress
  <2>2. Accounted'
    BY <1>1 DEF IInv, Accounted
  <2>3. Unread'
    BY <1>1 DEF Unread
  <2> QED
    BY <2>1, <2>2, <2>3
<1>4. Numbered'
  BY <1>1 DEF IInv, Numbered, Intact, connection
<1> QED
  BY <1>2, <1>3, <1>4 DEF IInv

-----------------------------------------------------------------------------
(* The invariant *)

LEMMA InitCorrect == Init => IInv
<1> SUFFICES ASSUME Init PROVE IInv
  OBVIOUS
<1> USE Sizes
<1>1. TypeOK
  <2>1. FOREIGN \in Byte /\ PAD \in Byte
    BY DEF Byte
  <2>2. /\ response_buffer \in [Offset -> Byte] /\ flash \in [Flash -> Byte]
        /\ summed \in [Flash -> Byte]
    BY <2>1 DEF Init
  <2>3. /\ pc = "open" /\ complete \in BOOLEAN
        /\ header \in Nat /\ first \in Offset /\ contentLength \in {0, BODY}
        /\ taken \in Nat /\ bodyStart \in Nat /\ bodyInBuffer \in Nat
        /\ bodyStart + bodyInBuffer < RESPONSE_SIZE /\ used \in 0 .. 3 * PAGE
        /\ addr \in Nat /\ total \in Nat /\ total <= REGION + READ
    <3>1. /\ header = 0 /\ first = 0 /\ contentLength = 0 /\ taken = 0 /\ bodyStart = 0
          /\ bodyInBuffer = 0 /\ used = 0 /\ addr = 0 /\ total = 0
      BY DEF Init
    <3>2. pc = "open" /\ complete \in BOOLEAN
      BY DEF Init
    <3> QED
      BY <3>1, <3>2
  <2> QED
    BY <2>2, <2>3 DEF TypeOK
<1>2. Progress /\ Accounted /\ Unread /\ Numbered
  BY DEF Init, Progress, Accounted, Unread, Numbered
<1> QED
  BY <1>1, <1>2 DEF IInv

LEMMA StepCorrect == IInv /\ [Next]_vars => IInv'
<1> SUFFICES ASSUME IInv, [Next]_vars PROVE IInv'
  OBVIOUS
<1>1. CASE \E h \in Header, r \in Offset, length \in {0, BODY} :
               r <= h + BODY /\ Open(h, r, length)
  BY <1>1, OpenKeeps
<1>2. CASE ReadEnded
  BY <1>2, ReadEndedKeeps
<1>3. CASE ReadBuffered
  BY <1>3, ReadBufferedKeeps
<1>4. CASE \E r \in 0 .. READ, closed \in BOOLEAN : ReadNetwork(r, closed)
  BY <1>4, ReadNetworkKeeps
<1>5. CASE Flush
  BY <1>5, FlushKeeps
<1>6. CASE Last
  BY <1>6, LastKeeps
<1>7. CASE Fails
  BY <1>7, FailsKeeps
<1>8. CASE UNCHANGED vars
  <2>1. UNCHANGED <<pc, header, first, contentLength, taken, response_buffer, bodyStart,
                    bodyInBuffer, complete, used, flash, addr, summed, total>>
    BY <1>8 DEF vars, connection, stream
  <2> QED
    BY <2>1 DEF IInv, TypeOK, Progress, Accounted, Unread, Clear, Follows, Numbered, Intact
<1> QED
  BY <1>1, <1>2, <1>3, <1>4, <1>5, <1>6, <1>7, <1>8 DEF Next

LEMMA InvariantHolds == Spec => []IInv
BY InitCorrect, StepCorrect, PTL DEF Spec

\* For any page, region, body, headers and sizes of reads no index leaves its
\* buffer, a flush leaves less than a page, and no more than one read comes
\* behind the region (http.c:1113-1256, firmware_update.c:595-664, 855-997).
THEOREM TypeCorrect == Spec => []TypeOK
<1>1. IInv => TypeOK
  BY DEF IInv
<1> QED
  BY <1>1, InvariantHolds, PTL

\* For all of them the checksum of a download that ends is that of what the
\* flash holds, whatever became of the body on its way (firmware_update.c:
\* 888-893, 932-997).
THEOREM ChecksumOfFlash == Spec => []SumIsOfFlash
<1>1. IInv => SumIsOfFlash
  BY DEF IInv, Accounted, SumIsOfFlash
<1> QED
  BY <1>1, InvariantHolds, PTL

-----------------------------------------------------------------------------
(* The download implements BodyCopy *)

\* What is stored, and how much of it.
Stored == [a \in Flash |-> IF ~Intact \/ a >= total THEN 0
                           ELSE IF a < addr \/ pc = "done" THEN flash[a]
                           ELSE response_buffer[a - addr]]
Count == IF Intact THEN total ELSE 0

\* Each stored byte is that of its place.
LEMMA StoredIsBody ==
    IInv => Stored = [a \in Flash |-> IF a < Count THEN a + 1 ELSE 0] /\ Count \in Nat
<1> SUFFICES ASSUME IInv
             PROVE  Stored = [a \in Flash |-> IF a < Count THEN a + 1 ELSE 0] /\ Count \in Nat
  OBVIOUS
<1> USE Sizes
<1>1. addr \in Nat /\ total \in Nat
  BY DEF IInv, TypeOK
<1>2. ASSUME Intact, NEW a \in Flash, a < total
      PROVE  (IF a < addr \/ pc = "done" THEN flash[a] ELSE response_buffer[a - addr]) = a + 1
  <2>1. summed[a] = a + 1
    BY <1>2 DEF IInv, Numbered
  <2>2. CASE pc = "done"
    BY <1>2, <2>1, <2>2 DEF IInv, Accounted
  <2>3. CASE pc # "done" /\ a < addr
    BY <1>2, <2>1, <2>3 DEF IInv, Accounted
  <2>4. CASE pc # "done" /\ ~(a < addr)
    <3>1. addr <= a
      BY <1>1, <2>4
    <3> QED
      BY <1>2, <2>1, <2>4, <3>1 DEF IInv, Accounted
  <2> QED
    BY <2>2, <2>3, <2>4
<1>3. CASE Intact
  <2>1. \A a \in Flash : a >= total <=> ~(a < total)
    BY <1>1
  <2> QED
    BY <1>1, <1>2, <1>3, <2>1 DEF Stored, Count
<1>4. CASE ~Intact
  <2>1. \A a \in Flash : ~(a < 0)
    OBVIOUS
  <2> QED
    BY <1>4, <2>1 DEF Stored, Count
<1> QED
  BY <1>3, <1>4

LEMMA StoredIsBodyNext ==
    IInv' => Stored' = [a \in Flash |-> IF a < Count' THEN a + 1 ELSE 0] /\ Count' \in Nat
<1>1. (IInv => Stored = [a \in Flash |-> IF a < Count THEN a + 1 ELSE 0] /\ Count \in Nat)'
  BY StoredIsBody, PTL
<1> QED
  BY <1>1

\* The abstract step of a step that stores more, or as much.
LEMMA Stores ==
    ASSUME IInv, IInv', Count' >= Count
    PROVE  \/ Stored' = Stored /\ Count' = Count
           \/ /\ Count' > Count
              /\ Stored' = [a \in Flash |-> IF a < Count THEN Stored[a]
                                            ELSE IF a < Count' THEN a + 1 ELSE 0]
<1> USE Sizes
<1>1. Stored = [a \in Flash |-> IF a < Count THEN a + 1 ELSE 0] /\ Count \in Nat
  BY StoredIsBody
<1>2. Stored' = [a \in Flash |-> IF a < Count' THEN a + 1 ELSE 0] /\ Count' \in Nat
  BY StoredIsBodyNext
<1>3. CASE Count' = Count
  BY <1>1, <1>2, <1>3
<1>4. CASE Count' > Count
  <2>1. \A a \in Flash : a < Count => a < Count'
    BY <1>1, <1>2, <1>4
  <2> QED
    BY <1>1, <1>2, <1>4, <2>1
<1> QED
  BY <1>1, <1>2, <1>3, <1>4

\* For any page, region, body, headers and reads the download implements
\* BodyCopy: each step stores the next bytes of the body behind the others, ends
\* the storing, or does neither (http.c:1113-1256, firmware_update.c:595-664,
\* 855-997).
THEOREM Implementation == Spec => StoresBody
<1> DEFINE ended == pc \in {"done", "failed"}
<1>1. Init => Copy!Init
  <2> SUFFICES ASSUME Init PROVE Copy!Init
    OBVIOUS
  <2>1. Intact /\ total = 0 /\ pc = "open"
    BY Sizes DEF Init, Intact
  <2>2. Count = 0 /\ Stored = [a \in Flash |-> 0]
    BY <2>1, Sizes DEF Count, Stored
  <2> QED
    BY <2>1, <2>2 DEF Copy!Init, Count, Stored
<1>2. IInv /\ IInv' /\ [Next]_vars => [Copy!Next]_<<Stored, Count, ended>>
  <2> SUFFICES ASSUME IInv, IInv', [Next]_vars
               PROVE  [Copy!Next]_<<Stored, Count, ended>>
    OBVIOUS
  <2>0. ASSUME Count' = Count PROVE Stored' = Stored
    BY <2>0, StoredIsBody, StoredIsBodyNext
  <2>1. ASSUME NEW h \in Header, NEW r \in Offset, NEW length \in {0, BODY}, Open(h, r, length)
        PROVE  UNCHANGED <<Stored, Count, ended>>
    <3>1. total = 0 /\ total' = 0 /\ ~ended /\ ~ended'
      BY <2>1 DEF Open, IInv, Progress
    <3>2. Count' = Count
      BY <3>1 DEF Count
    <3> QED
      BY <2>0, <3>1, <3>2
  <2>2. ASSUME ReadBuffered \/ \E r \in 0 .. READ, closed \in BOOLEAN : ReadNetwork(r, closed)
        PROVE  [Copy!Store]_<<Stored, Count, ended>>
    <3>1. pc = "read" /\ pc' \in {"flush", "last"} /\ UNCHANGED connection
      BY <2>2 DEF ReadBuffered, ReadNetwork
    <3>2. PICK n \in Nat : Got(n)
      <4>1. CASE ReadBuffered
        <5>1. Least(bodyInBuffer, READ) \in Nat
          BY Sizes DEF IInv, TypeOK, Least
        <5> QED
          BY <4>1, <5>1 DEF ReadBuffered
      <4>2. ASSUME NEW r \in 0 .. READ, NEW closed \in BOOLEAN, ReadNetwork(r, closed)
            PROVE  \E n \in Nat : Got(n)
        <5>1. bodyInBuffer + r \in Nat
          BY DEF IInv, TypeOK
        <5> QED
          BY <4>2, <5>1 DEF ReadNetwork
      <4> QED
        BY <2>2, <4>1, <4>2
    <3>3. total' = total + n /\ total \in Nat /\ Intact' = Intact
      BY <3>1, <3>2 DEF Got, IInv, TypeOK, connection, Intact
    <3>4. Count' >= Count
      BY <3>3 DEF Count
    <3>5. ~ended /\ ~ended'
      BY <3>1
    <3>6. CASE Stored' = Stored /\ Count' = Count
      BY <3>5, <3>6
    <3>7. CASE /\ Count' > Count
               /\ Stored' = [a \in Flash |-> IF a < Count THEN Stored[a]
                                             ELSE IF a < Count' THEN a + 1 ELSE 0]
      BY <3>5, <3>7 DEF Copy!Store, Stored, Count
    <3> QED
      BY <3>4, <3>6, <3>7, Stores
  <2>3. ASSUME ReadEnded \/ Flush PROVE UNCHANGED <<Stored, Count, ended>>
    <3>1. total' = total /\ Intact' = Intact /\ ~ended /\ ~ended'
      BY <2>3 DEF ReadEnded, Flush, Intact, connection
    <3>2. Count' = Count
      BY <3>1 DEF Count
    <3> QED
      BY <2>0, <3>1, <3>2
  <2>4. ASSUME Last \/ Fails PROVE Copy!End
    <3>1. total' = total /\ Intact' = Intact /\ ~ended /\ ended'
      BY <2>4 DEF Last, Fails, Intact, connection
    <3>2. Count' = Count
      BY <3>1 DEF Count
    <3> QED
      BY <2>0, <3>1, <3>2 DEF Copy!End, Stored, Count
  <2>5. ASSUME UNCHANGED vars PROVE UNCHANGED <<Stored, Count, ended>>
    <3>1. Intact' = Intact /\ total' = total /\ (ended' <=> ended)
      BY <2>5 DEF vars, connection, Intact
    <3>2. Count' = Count
      BY <3>1 DEF Count
    <3> QED
      BY <2>0, <3>1, <3>2
  <2>6. Copy!Store \/ Copy!End => Copy!Next
    BY DEF Copy!Next
  <2> QED
    BY <2>1, <2>2, <2>3, <2>4, <2>5, <2>6 DEF Next
<1> QED
  BY <1>1, <1>2, InvariantHolds, InitCorrect, StepCorrect, PTL DEF Spec, StoresBody, Copy!Spec, Stored, Count
=============================================================================
