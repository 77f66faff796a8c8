------------------------------- MODULE Pdline -------------------------------
(***************************************************************************)
(* Packets of the wall switches on the peripheral line (src/pdline.c): the *)
(* timer interrupt takes the bytes of a packet from the line into a ring   *)
(* buffer, and the SYS_CMD task copies a complete packet out of it and     *)
(* handles it.  The two share the indices of the ring without a lock.  A   *)
(* byte takes a time slot of the line and is one step; nothing calls the   *)
(* functions that would send.                                              *)
(***************************************************************************)
EXTENDS Integers, Sequences

CONSTANTS MAX_RX_BUF,    \* 70, bytes in the ring
          MAX_PRPH_BUF,  \* 20, bytes in the buffer a packet is handled in
          MAX_FALSE,     \* 20, bytes 0xFF that are put up with
          COUNT,         \* 256, values of false_byte_cnt
          Packet,        \* what the peripherals may send
          MaxReceptions  \* bound: receptions in a behaviour

ASSUME BufferAssumption ==
    MAX_PRPH_BUF \in Nat \ {0} /\ MAX_RX_BUF \in Nat /\ MAX_RX_BUF > 2 * MAX_PRPH_BUF
ASSUME CountAssumption == MAX_FALSE \in Nat /\ COUNT \in Nat \ {0}
ASSUME ReceptionAssumption == MaxReceptions \in Nat
ASSUME PacketAssumption == \A p \in Packet : p \in Seq(Nat) /\ Len(p) >= 2

FF == 255
Ring == 0 .. MAX_RX_BUF - 1
Buffer == 0 .. MAX_PRPH_BUF - 1

VARIABLES
    rx_flag,       \* a reception is in progress
    prph_rx_buf, prph_rx_head, prph_rx_tail,
    prph_pkt_vect, \* behind the last byte of the last packet
    prph_data_ready,
    false_byte_cnt,
    pc,            \* where the task is
    prph_data_buf,
    pdline_i,      \* bytes copied, prph_pkt_size when that is done
    packet, place, \* what is being received, <<>> for an idle line, and how far
    clear,         \* nothing stands in the way of it
    whole,         \* the last packet that came to its end, until it is handed on
    receptions,    \* receptions so far
    ok,            \* it lies in the ring by itself
    waiting,       \* it was not handed on yet
    astray         \* the ring holds bytes of no packet, or its head was reset under one

received == <<prph_rx_buf, prph_pkt_vect, rx_flag>>
history == <<packet, place, receptions, clear, whole, ok, waiting, astray>>
vars == <<received, prph_rx_head, prph_rx_tail, prph_data_ready, false_byte_cnt, pc,
          prph_data_buf, pdline_i, history>>

-----------------------------------------------------------------------------
(* The interrupt *)

\* Mutant of NextIndex: the ring is one byte longer than its buffer.
NextIndex_OnePast(k) == (k + 1) % (MAX_RX_BUF + 1)

NextIndex(k) == (k + 1) % MAX_RX_BUF

\* The task has something to copy that came to its end, or is at it.
Copying == prph_data_ready \/ pc \in {"copy", "reset"}

\* Mutant of EndOfByte: the packet ends before its last byte.
EndOfByte_Before(b, last) ==
    LET count == IF b = FF THEN (false_byte_cnt + 1) % COUNT ELSE false_byte_cnt
        head == NextIndex(prph_rx_head) IN
    /\ prph_rx_buf' = [prph_rx_buf EXCEPT ![prph_rx_head] = b]
    /\ prph_rx_head' = head
    /\ false_byte_cnt' = count
    /\ rx_flag' = ~(last \/ (b = FF /\ count > MAX_FALSE))
    /\ prph_data_ready' = (prph_data_ready \/ last)
    /\ prph_pkt_vect' = IF last THEN prph_rx_head ELSE prph_pkt_vect
    /\ UNCHANGED <<prph_rx_tail, pc, prph_data_buf, pdline_i>>

\* The eighth bit of byte b: it is put into the ring.  The last one makes the
\* packet ready; too many 0xFF end the reception without one.
EndOfByte(b, last) ==
    LET count == IF b = FF THEN (false_byte_cnt + 1) % COUNT ELSE false_byte_cnt
        head == NextIndex(prph_rx_head) IN
    /\ prph_rx_buf' = [prph_rx_buf EXCEPT ![prph_rx_head] = b]
    /\ prph_rx_head' = head
    /\ false_byte_cnt' = count
    /\ rx_flag' = ~(last \/ (b = FF /\ count > MAX_FALSE))
    /\ prph_data_ready' = (prph_data_ready \/ last)
    /\ prph_pkt_vect' = IF last THEN head ELSE prph_pkt_vect
    /\ UNCHANGED <<prph_rx_tail, pc, prph_data_buf, pdline_i>>

\* The account of the reception at the end of a byte, the place-th of p.  A
\* packet lies in the ring by itself if nothing stood in its way and the one
\* before was copied by now, as long as no reception follows that is longer than
\* a packet or does not come to its end.
Account(p, n, clear_now, last) ==
    /\ packet' = IF rx_flag' THEN p ELSE <<>>
    /\ place' = IF rx_flag' THEN n ELSE 0
    /\ clear' = (clear_now /\ rx_flag')
    /\ whole' = IF last THEN p ELSE whole
    /\ ok' = IF last THEN clear_now /\ ~Copying
              ELSE ok /\ ~(Copying /\ (n > MAX_PRPH_BUF \/ p = <<>> \/ ~rx_flag'))
    /\ waiting' = (waiting \/ last)
    /\ astray' = IF last THEN FALSE ELSE astray \/ ~rx_flag'

\* A peripheral pulls the line down in a slot, and sends its first byte in it.
\* Nothing stands in its way if all before it was copied, or will be without
\* reaching the limit of the buffer.
FirstByte(p) ==
    /\ ~rx_flag /\ receptions < MaxReceptions /\ receptions' = receptions + 1
    /\ EndOfByte(p[1], FALSE)
    /\ Account(p, 1, ~astray /\ (~Copying \/ (ok /\ Len(whole) < MAX_PRPH_BUF)), FALSE)

\* In each slot after that the line tells first whether its byte is the last.
NextByte ==
    /\ rx_flag /\ packet # <<>> /\ UNCHANGED receptions
    /\ LET n == place + 1  last == n = Len(packet) IN
       EndOfByte(packet[n], last) /\ Account(packet, n, clear, last)

\* The peripheral has gone: the line is high, and nothing marks a last byte.
IdleByte ==
    /\ rx_flag /\ UNCHANGED receptions
    /\ EndOfByte(FF, FALSE)
    /\ Account(<<>>, 0, FALSE, FALSE)

-----------------------------------------------------------------------------
(* The task: pdline_data_ready_task, every 10 ms *)

Take ==
    /\ pc = "rest" /\ prph_data_ready
    /\ prph_data_ready' = FALSE
    /\ pc' = "copy" /\ pdline_i' = 0
    /\ UNCHANGED <<received, prph_rx_head, prph_rx_tail, false_byte_cnt, prph_data_buf, history>>

\* A byte is copied.  With the last place of the buffer filled, the ring is
\* emptied: first its tail is reset, then its head.
CopyByte ==
    /\ pc = "copy" /\ prph_rx_tail # prph_pkt_vect
    /\ prph_data_buf' = [prph_data_buf EXCEPT ![pdline_i] = prph_rx_buf[prph_rx_tail]]
    /\ pdline_i' = pdline_i + 1
    /\ IF pdline_i + 1 > MAX_PRPH_BUF - 1
       THEN pc' = "reset" /\ prph_rx_tail' = 0
       ELSE pc' = pc /\ prph_rx_tail' = NextIndex(prph_rx_tail)
    /\ UNCHANGED <<received, prph_rx_head, prph_data_ready, false_byte_cnt, history>>

\* What was copied is handed on.
HandOn ==
    /\ pc' = "check"
    /\ waiting' = FALSE /\ whole' = <<>> /\ ok' = FALSE
    /\ UNCHANGED <<packet, place, receptions, clear>>

Reset ==
    /\ pc = "reset" /\ prph_rx_head' = 0
    /\ HandOn /\ astray' = (astray \/ prph_data_ready)
    /\ UNCHANGED <<received, prph_rx_tail, prph_data_ready, false_byte_cnt, prph_data_buf, pdline_i>>

CopyDone ==
    /\ pc = "copy" /\ prph_rx_tail = prph_pkt_vect
    /\ HandOn /\ UNCHANGED astray
    /\ UNCHANGED <<received, prph_rx_head, prph_rx_tail, prph_data_ready, false_byte_cnt,
                   prph_data_buf, pdline_i>>

\* Mutant of Checked: the mark is removed when the packet was handled.
Checked_ClearsFlag ==
    /\ pc = "check" /\ pc' = "rest"
    /\ false_byte_cnt' = 0 /\ prph_data_ready' = FALSE
    /\ UNCHANGED <<received, prph_rx_head, prph_rx_tail, prph_data_buf, pdline_i, history>>

\* go_check_prph has executed and sent the event of the packet.
Checked ==
    /\ pc = "check" /\ pc' = "rest"
    /\ false_byte_cnt' = 0
    /\ UNCHANGED <<received, prph_rx_head, prph_rx_tail, prph_data_ready, prph_data_buf,
                   pdline_i, history>>

Task == Take \/ CopyByte \/ Reset \/ CopyDone \/ Checked

-----------------------------------------------------------------------------
Init ==
    /\ rx_flag = FALSE /\ prph_data_ready = FALSE /\ false_byte_cnt = 0
    /\ prph_rx_head = 0 /\ prph_rx_tail = 0 /\ prph_pkt_vect = 0
    /\ prph_rx_buf = [k \in Ring |-> 0] /\ prph_data_buf = [k \in Buffer |-> 0]
    /\ pc = "rest" /\ pdline_i = 0
    /\ packet = <<>> /\ place = 0 /\ receptions = 0 /\ whole = <<>>
    /\ clear = FALSE /\ ok = FALSE /\ waiting = FALSE /\ astray = FALSE

Next ==
    \/ \E p \in Packet : FirstByte(p)
    \/ NextByte \/ IdleByte
    \/ Task

\* The task is called every 10 ms; the line owes nothing.
Spec == Init /\ [][Next]_vars /\ WF_vars(Task)

-----------------------------------------------------------------------------
(* Properties *)

\* Every variable holds a value of its kind: the indices stay in their buffers.
TypeOK ==
    /\ rx_flag \in BOOLEAN /\ prph_data_ready \in BOOLEAN
    /\ prph_rx_buf \in [Ring -> Nat] /\ prph_data_buf \in [Buffer -> Nat]
    /\ prph_rx_head \in Ring /\ prph_rx_tail \in Ring /\ prph_pkt_vect \in Ring
    /\ false_byte_cnt \in 0 .. COUNT - 1
    /\ pc \in {"rest", "copy", "reset", "check"}
    /\ pdline_i \in 0 .. MAX_PRPH_BUF /\ (pc = "copy" => pdline_i < MAX_PRPH_BUF)
    /\ packet \in Packet \cup {<<>>} /\ place \in 0 .. Len(packet) /\ whole \in Packet \cup {<<>>}
    /\ receptions \in Nat /\ clear \in BOOLEAN /\ ok \in BOOLEAN /\ waiting \in BOOLEAN /\ astray \in BOOLEAN

\* A packet that fits the buffer is handed on as it came, whatever came
\* before: unless a reception was given up before it, or, before it was copied,
\* another one came to its end, grew longer than a packet or was left by its
\* peripheral (pdline.c:474-494, 593-622).
HandsOnWhole ==
    [][pc # "check" /\ pc' = "check" /\ ok /\ Len(whole) <= MAX_PRPH_BUF =>
           /\ pdline_i = Len(whole)
           /\ \A k \in 1 .. Len(whole) : prph_data_buf[k - 1] = whole[k]]_vars

\* A packet that came to its end is handed on, also when it does so while the
\* task handles another (pdline.c:475-476, 615-620).
HandedOn == waiting ~> ~waiting
=============================================================================
