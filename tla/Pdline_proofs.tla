--------------------------- MODULE Pdline_proofs ---------------------------
(***************************************************************************)
(* Proofs about Pdline for rings and packets of any length.                *)
(***************************************************************************)
EXTENDS Pdline, TLAPS

\* The place j bytes behind k in the ring.
At(k, j) == IF k + j < MAX_RX_BUF THEN k + j ELSE k + j - MAX_RX_BUF

Behind == 0 .. MAX_PRPH_BUF

\* n bytes of packet p from its m-th on lie in a ring from k on.
Lies(ring, p, m, n, k) == \A j \in Behind : j < n => ring[At(k, j)] = p[m + j]

Copied == IF pc = "copy" THEN pdline_i ELSE 0

\* A reception knows its packet as long as its peripheral is there, and has not
\* come to its end.
Reception ==
    /\ ~rx_flag => packet = <<>> /\ place = 0
    /\ packet # <<>> => place \in 1 .. Len(packet) - 1
    /\ clear => packet # <<>>
    /\ pc = "reset" => prph_rx_tail = 0 /\ pdline_i = MAX_PRPH_BUF

\* Between receptions the head of the ring is where the next copy will begin.
Idle ==
    ~rx_flag /\ ~astray =>
        IF Copying THEN pc = "reset" \/ prph_rx_head = prph_pkt_vect
                   ELSE prph_rx_head = prph_rx_tail

\* What came of a packet that nothing stands in the way of.
Coming ==
    clear /\ place <= MAX_PRPH_BUF =>
        LET start == IF Copying THEN prph_pkt_vect ELSE prph_rx_tail IN
        /\ prph_rx_head = At(start, place)
        /\ Lies(prph_rx_buf, packet, 1, place, start)
        /\ Copying => ok /\ Len(whole) < MAX_PRPH_BUF

\* A packet that lies in the ring by itself: what is left to be copied, what was
\* copied, and the reception that may follow it.
Ready ==
    ok => /\ Copying /\ (prph_data_ready => pc \in {"rest", "check"})
          /\ Len(whole) >= 2
          /\ Len(whole) <= MAX_PRPH_BUF =>
                /\ pc # "reset" =>
                      /\ Copied <= Len(whole)
                      /\ prph_pkt_vect = At(prph_rx_tail, Len(whole) - Copied)
                      /\ Lies(prph_rx_buf, whole, Copied + 1, Len(whole) - Copied, prph_rx_tail)
                      /\ prph_rx_head = At(prph_pkt_vect, place)
                      /\ place <= MAX_PRPH_BUF /\ (rx_flag => packet # <<>>)
                      /\ \A j \in Buffer : j < Copied => prph_data_buf[j] = whole[j + 1]
                /\ pc = "reset" =>
                      /\ Len(whole) = MAX_PRPH_BUF
                      /\ \A j \in Buffer : prph_data_buf[j] = whole[j + 1]

IInv == TypeOK /\ Reception /\ Idle /\ Coming /\ Ready

-----------------------------------------------------------------------------
(* Places in the ring *)

LEMMA Sizes ==
    /\ MAX_RX_BUF \in Nat /\ MAX_PRPH_BUF \in Nat /\ MAX_PRPH_BUF >= 1
    /\ MAX_RX_BUF > 2 * MAX_PRPH_BUF
    /\ Ring = 0 .. MAX_RX_BUF - 1 /\ Buffer = 0 .. MAX_PRPH_BUF - 1
    /\ COUNT \in Nat /\ COUNT >= 1
BY BufferAssumption, CountAssumption DEF Ring, Buffer

LEMMA Remainder == ASSUME NEW n \in Nat, NEW w \in Nat, w # 0 PROVE n % w \in 0 .. w - 1
BY SMT

\* The index that follows.
LEMMA NextPlace ==
    ASSUME NEW k \in Ring
    PROVE  /\ NextIndex(k) = IF k + 1 = MAX_RX_BUF THEN 0 ELSE k + 1
           /\ NextIndex(k) \in Ring
<1> USE Sizes
<1>1. CASE k + 1 = MAX_RX_BUF
  <2>1. (k + 1) % MAX_RX_BUF = 0
    BY <1>1, SMT
  <2> QED
    BY <1>1, <2>1 DEF NextIndex
<1>2. CASE k + 1 # MAX_RX_BUF
  <2>1. (k + 1) % MAX_RX_BUF = k + 1
    BY <1>2, SMT
  <2> QED
    BY <1>2, <2>1 DEF NextIndex
<1> QED
  BY <1>1, <1>2

\* Places behind one another in the ring, as far as the ring is long.
LEMMA Places ==
    ASSUME NEW k \in Ring, NEW j \in Nat, j < MAX_RX_BUF
    PROVE  /\ At(k, j) \in Ring /\ At(k, 0) = k
           /\ j + 1 < MAX_RX_BUF => NextIndex(At(k, j)) = At(k, j + 1) /\ At(NextIndex(k), j) = At(k, j + 1)
<1> USE Sizes
<1>1. At(k, j) \in Ring /\ At(k, 0) = k
  BY DEF At
<1>2. ASSUME j + 1 < MAX_RX_BUF
      PROVE  NextIndex(At(k, j)) = At(k, j + 1) /\ At(NextIndex(k), j) = At(k, j + 1)
  <2>1. NextIndex(At(k, j)) = IF At(k, j) + 1 = MAX_RX_BUF THEN 0 ELSE At(k, j) + 1
    BY <1>1, NextPlace
  <2>2. NextIndex(k) = IF k + 1 = MAX_RX_BUF THEN 0 ELSE k + 1
    BY NextPlace
  <2> QED
    BY <1>2, <2>1, <2>2 DEF At
<1> QED
  BY <1>1, <1>2

LEMMA PlacesDiffer ==
    ASSUME NEW k \in Ring, NEW a \in Nat, NEW b \in Nat, a < MAX_RX_BUF, b < MAX_RX_BUF, a # b
    PROVE  At(k, a) # At(k, b)
BY Sizes DEF At

LEMMA PlacesAdd ==
    ASSUME NEW k \in Ring, NEW a \in Nat, NEW b \in Nat, a + b < MAX_RX_BUF
    PROVE  At(At(k, a), b) = At(k, a + b)
BY Sizes DEF At

\* A packet is of numbers, and at least two.
LEMMA Packets ==
    ASSUME NEW p \in Packet
    PROVE  p \in Seq(Nat) /\ Len(p) \in Nat /\ Len(p) >= 2 /\ p # <<>>
           /\ \A k \in 1 .. Len(p) : p[k] \in Nat
<1>1. p \in Seq(Nat) /\ Len(p) >= 2
  BY PacketAssumption
<1> QED
  BY <1>1

-----------------------------------------------------------------------------
(* A byte of a reception *)

\* What the end of a byte does to the ring, whichever it is.
ByteIn(b) ==
    /\ prph_rx_buf' = [prph_rx_buf EXCEPT ![prph_rx_head] = b]
    /\ prph_rx_head' = NextIndex(prph_rx_head)
    /\ UNCHANGED <<prph_rx_tail, pc, prph_data_buf, pdline_i>>

LEMMA ByteTypes ==
    ASSUME TypeOK, NEW b \in Nat, ByteIn(b)
    PROVE  /\ prph_rx_buf' \in [Ring -> Nat] /\ prph_rx_head' \in Ring
           /\ prph_rx_buf'[prph_rx_head] = b
           /\ \A k \in Ring : k # prph_rx_head => prph_rx_buf'[k] = prph_rx_buf[k]
BY NextPlace DEF TypeOK, ByteIn

LEMMA CountTypes ==
    ASSUME TypeOK, NEW b
    PROVE  (IF b = FF THEN (false_byte_cnt + 1) % COUNT ELSE false_byte_cnt) \in 0 .. COUNT - 1
<1>1. false_byte_cnt \in 0 .. COUNT - 1
  BY DEF TypeOK
<1>2. (false_byte_cnt + 1) % COUNT \in 0 .. COUNT - 1
  BY <1>1, Sizes, Remainder
<1> QED
  BY <1>1, <1>2

\* A byte behind those of a packet that lies from k on.
LEMMA LiesOn ==
    ASSUME TypeOK, NEW b \in Nat, ByteIn(b), NEW k \in Ring, NEW p, NEW n \in 0 .. MAX_PRPH_BUF - 1,
           prph_rx_head = At(k, n), Lies(prph_rx_buf, p, 1, n, k), b = p[n + 1]
    PROVE  Lies(prph_rx_buf', p, 1, n + 1, k) /\ prph_rx_head' = At(k, n + 1)
<1> USE Sizes
<1>1. ASSUME NEW j \in Behind, j < n + 1 PROVE prph_rx_buf'[At(k, j)] = p[1 + j]
  <2>1. CASE j = n
    BY <2>1, ByteTypes
  <2>2. CASE j # n
    <3>1. j \in Nat /\ j < n /\ j < MAX_RX_BUF /\ n \in Nat /\ n < MAX_RX_BUF
      BY <1>1, <2>2 DEF Behind
    <3>2. At(k, j) \in Ring /\ At(k, j) # prph_rx_head
      BY <2>2, <3>1, Places, PlacesDiffer
    <3>3. prph_rx_buf[At(k, j)] = p[1 + j]
      BY <3>1, <1>1 DEF Lies
    <3> QED
      BY <3>2, <3>3, ByteTypes
  <2> QED
    BY <2>1, <2>2
<1>2. prph_rx_head' = At(k, n + 1)
  <2>1. n \in Nat /\ n < MAX_RX_BUF /\ n + 1 < MAX_RX_BUF
    OBVIOUS
  <2> QED
    BY <2>1, Places DEF ByteIn
<1> QED
  BY <1>1, <1>2 DEF Lies

\* A packet that lies from k on, and n bytes behind it.
LEMMA LiesBefore ==
    ASSUME TypeOK, NEW b \in Nat, ByteIn(b), NEW k \in Ring, NEW p, NEW m \in Nat,
           NEW l \in 0 .. MAX_PRPH_BUF, NEW n \in 0 .. MAX_PRPH_BUF - 1,
           prph_rx_head = At(At(k, l), n), Lies(prph_rx_buf, p, m, l, k)
    PROVE  Lies(prph_rx_buf', p, m, l, k) /\ prph_rx_head' = At(At(k, l), n + 1)
<1> USE Sizes
<1>1. At(k, l) \in Ring
  <2>1. l \in Nat /\ l < MAX_RX_BUF
    OBVIOUS
  <2> QED
    BY <2>1, Places
<1>2. prph_rx_head = At(k, l + n)
  <2>1. l \in Nat /\ n \in Nat /\ l + n < MAX_RX_BUF
    OBVIOUS
  <2> QED
    BY <2>1, PlacesAdd
<1>3. ASSUME NEW j \in Behind, j < l PROVE prph_rx_buf'[At(k, j)] = p[m + j]
  <2>1. j \in Nat /\ j < MAX_RX_BUF /\ l + n \in Nat /\ l + n < MAX_RX_BUF /\ j # l + n
    BY <1>3 DEF Behind
  <2>2. At(k, j) \in Ring /\ At(k, j) # prph_rx_head
    BY <1>2, <2>1, Places, PlacesDiffer
  <2>3. prph_rx_buf[At(k, j)] = p[m + j]
    BY <1>3 DEF Lies
  <2> QED
    BY <2>2, <2>3, ByteTypes
<1>4. prph_rx_head' = At(At(k, l), n + 1)
  <2>1. n \in Nat /\ n < MAX_RX_BUF /\ n + 1 < MAX_RX_BUF
    OBVIOUS
  <2> QED
    BY <1>1, <2>1, Places DEF ByteIn
<1> QED
  BY <1>3, <1>4 DEF Lies

-----------------------------------------------------------------------------
(* Receiving *)

\* A packet in the ring keeps its place there during a byte of a reception that
\* does not end and is not longer than a packet.
LEMMA ReadyKept ==
    ASSUME TypeOK, Reception, Ready, NEW b \in Nat, ByteIn(b),
           UNCHANGED <<prph_data_ready, prph_pkt_vect, whole>>,
           place' = place + 1, ok', ok, place' <= MAX_PRPH_BUF, rx_flag' => packet' # <<>>
    PROVE  Ready'
<1> USE Sizes
<1>1. UNCHANGED <<prph_rx_tail, pc, prph_data_buf, pdline_i, Copying, Copied>>
  BY DEF ByteIn, Copying, Copied
<1>2. Copying' /\ (prph_data_ready' => pc' \in {"rest", "check"}) /\ Len(whole') >= 2
  BY <1>1 DEF Ready
<1>3. ASSUME Len(whole) <= MAX_PRPH_BUF, pc # "reset"
      PROVE  /\ Copied <= Len(whole) /\ prph_pkt_vect = At(prph_rx_tail, Len(whole) - Copied)
             /\ Lies(prph_rx_buf', whole, Copied + 1, Len(whole) - Copied, prph_rx_tail)
             /\ prph_rx_head' = At(prph_pkt_vect, place')
             /\ \A j \in Buffer : j < Copied => prph_data_buf[j] = whole[j + 1]
  <2> DEFINE l == Len(whole) - Copied
  <2>1. /\ Copied <= Len(whole) /\ prph_pkt_vect = At(prph_rx_tail, l)
        /\ Lies(prph_rx_buf, whole, Copied + 1, l, prph_rx_tail)
        /\ prph_rx_head = At(prph_pkt_vect, place)
        /\ \A j \in Buffer : j < Copied => prph_data_buf[j] = whole[j + 1]
    BY <1>3 DEF Ready
  <2>2. Len(whole) \in Nat /\ Copied \in Nat /\ place \in Nat /\ prph_rx_tail \in Ring
    <3>1. Len(whole) \in Nat
      BY Packets DEF TypeOK
    <3>2. Copied \in Nat
      BY DEF Copied, TypeOK
    <3>3. Len(packet) \in Nat
      BY Packets DEF TypeOK
    <3> QED
      BY <3>1, <3>2, <3>3 DEF TypeOK
  <2>3. l \in 0 .. MAX_PRPH_BUF /\ place \in 0 .. MAX_PRPH_BUF - 1 /\ Copied + 1 \in Nat
    BY <1>3, <2>1, <2>2
  <2> HIDE DEF l
  <2>4. Lies(prph_rx_buf', whole, Copied + 1, l, prph_rx_tail)
    BY <2>1, <2>2, <2>3, LiesBefore
  <2>5. prph_rx_head' = At(prph_pkt_vect, place + 1)
    BY <2>1, <2>2, <2>3, LiesBefore
  <2> QED
    BY <2>1, <2>4, <2>5 DEF l
<1>4. ASSUME Len(whole) <= MAX_PRPH_BUF, pc = "reset"
      PROVE  Len(whole) = MAX_PRPH_BUF /\ \A j \in Buffer : prph_data_buf[j] = whole[j + 1]
  BY <1>4 DEF Ready
<1> QED
  BY <1>1, <1>2, <1>3, <1>4 DEF Ready

\* The ring's indices and the count of 0xFF keep to their kinds with any byte.
LEMMA ReceiveTypes ==
    ASSUME TypeOK, NEW b \in Nat, ByteIn(b),
           false_byte_cnt' = IF b = FF THEN (false_byte_cnt + 1) % COUNT ELSE false_byte_cnt,
           prph_pkt_vect' \in {prph_pkt_vect, prph_rx_head'},
           packet' \in Packet \cup {<<>>}, place' \in 0 .. Len(packet'),
           whole' \in Packet \cup {<<>>}, receptions' \in Nat,
           rx_flag' \in BOOLEAN, prph_data_ready' \in BOOLEAN, clear' \in BOOLEAN,
           ok' \in BOOLEAN, waiting' \in BOOLEAN, astray' \in BOOLEAN
    PROVE  TypeOK'
<1>1. /\ prph_rx_buf' \in [Ring -> Nat] /\ prph_rx_head' \in Ring /\ prph_rx_tail' \in Ring
      /\ prph_pkt_vect' \in Ring /\ prph_data_buf' \in [Buffer -> Nat]
      /\ pc' \in {"rest", "copy", "reset", "check"} /\ pdline_i' \in 0 .. MAX_PRPH_BUF
      /\ (pc' = "copy" => pdline_i' < MAX_PRPH_BUF)
  BY ByteTypes DEF TypeOK, ByteIn
<1>2. false_byte_cnt' \in 0 .. COUNT - 1
  BY CountTypes
<1> QED
  BY <1>1, <1>2 DEF TypeOK

\* A reception begins.
LEMMA FirstKeeps ==
    ASSUME IInv, NEW p \in Packet, FirstByte(p)
    PROVE  IInv'
<1> USE Sizes
<1> DEFINE b == p[1]
<1>0. TypeOK /\ Reception /\ Idle /\ Coming /\ Ready
  BY DEF IInv
<1>1. b \in Nat /\ Len(p) \in Nat /\ Len(p) >= 2 /\ p # <<>>
  BY Packets
<1>2. ByteIn(b)
  BY DEF FirstByte, EndOfByte, ByteIn
<1>3. /\ ~rx_flag /\ receptions \in Nat /\ receptions' = receptions + 1
      /\ prph_data_ready' = prph_data_ready /\ prph_pkt_vect' = prph_pkt_vect
      /\ rx_flag' \in BOOLEAN
      /\ false_byte_cnt' = IF b = FF THEN (false_byte_cnt + 1) % COUNT ELSE false_byte_cnt
      /\ whole' = whole
  BY <1>0 DEF FirstByte, EndOfByte, Account, TypeOK
<1>4. /\ packet' = (IF rx_flag' THEN p ELSE <<>>) /\ place' = (IF rx_flag' THEN 1 ELSE 0)
      /\ astray' = (astray \/ ~rx_flag') /\ waiting' = waiting
  BY <1>0 DEF FirstByte, Account, TypeOK
<1>5. clear' = ((~astray /\ (~Copying \/ (ok /\ Len(whole) < MAX_PRPH_BUF))) /\ rx_flag')
  BY DEF FirstByte, Account
<1>6. ok' = (ok /\ ~(Copying /\ ~rx_flag'))
  <2>1. ~(1 > MAX_PRPH_BUF)
    OBVIOUS
  <2> QED
    BY <1>1, <2>1 DEF FirstByte, Account
<1> HIDE DEF b
<1>7. Copying' = Copying
  BY <1>2, <1>3 DEF Copying, ByteIn
<1>8. packet = <<>> /\ place = 0
  BY <1>0, <1>3 DEF Reception
<1>9. TypeOK'
  <2>3. packet' \in Packet \cup {<<>>} /\ place' \in 0 .. Len(packet')
    <3>1. Len(<<>>) = 0
      OBVIOUS
    <3> QED
      BY <1>1, <1>4, <3>1
  <2>4. whole' \in Packet \cup {<<>>} /\ receptions' \in Nat
    BY <1>0, <1>3 DEF TypeOK
  <2>5. /\ rx_flag' \in BOOLEAN /\ prph_data_ready' \in BOOLEAN /\ clear' \in BOOLEAN
        /\ ok' \in BOOLEAN /\ waiting' \in BOOLEAN /\ astray' \in BOOLEAN
    BY <1>0, <1>3, <1>4, <1>5, <1>6, Zenon DEF TypeOK
  <2> QED
    BY <1>0, <1>1, <1>2, <1>3, <2>3, <2>4, <2>5, ReceiveTypes
<1>10. Reception'
  <2>1. ~rx_flag' => packet' = <<>> /\ place' = 0
    BY <1>4
  <2>2. packet' # <<>> => place' \in 1 .. Len(packet') - 1
    BY <1>1, <1>4
  <2>3. clear' => packet' # <<>>
    BY <1>1, <1>4, <1>5
  <2>4. pc' = "reset" => prph_rx_tail' = 0 /\ pdline_i' = MAX_PRPH_BUF
    BY <1>0, <1>2 DEF ByteIn, Reception
  <2> QED
    BY <2>1, <2>2, <2>3, <2>4 DEF Reception
<1>11. Idle'
  BY <1>4 DEF Idle
<1>12. Coming'
  <2> SUFFICES ASSUME clear'
               PROVE  LET start == IF Copying THEN prph_pkt_vect ELSE prph_rx_tail IN
                      /\ prph_rx_head' = At(start, 1)
                      /\ Lies(prph_rx_buf', p, 1, 1, start)
                      /\ Copying => ok' /\ Len(whole) < MAX_PRPH_BUF
    <3>1. prph_rx_tail' = prph_rx_tail
      BY <1>2 DEF ByteIn
    <3>2. clear' => rx_flag'
      BY <1>5
    <3> QED
      BY <1>3, <1>4, <1>7, <3>1, <3>2 DEF Coming
  <2>1. ~astray /\ rx_flag' /\ (~Copying \/ (ok /\ Len(whole) < MAX_PRPH_BUF))
    BY <1>5
  <2>2. prph_rx_head \in Ring /\ prph_rx_tail \in Ring /\ prph_pkt_vect \in Ring
    BY <1>0 DEF TypeOK
  <2>3. ASSUME NEW k \in Ring, prph_rx_head = k
        PROVE  prph_rx_head' = At(k, 1) /\ Lies(prph_rx_buf', p, 1, 1, k)
    <3>1. prph_rx_head = At(k, 0)
      BY <2>3, Places
    <3>2. Lies(prph_rx_buf, p, 1, 0, k)
      BY DEF Lies, Behind
    <3>3. 0 \in 0 .. MAX_PRPH_BUF - 1 /\ b = p[0 + 1]
      BY DEF b
    <3> QED
      BY <1>0, <1>1, <1>2, <3>1, <3>2, <3>3, LiesOn
  <2>4. CASE ~Copying
    <3>1. prph_rx_head = prph_rx_tail
      BY <1>0, <1>3, <2>1, <2>4 DEF Idle
    <3> QED
      BY <2>2, <2>3, <2>4, <3>1
  <2>5. CASE Copying
    <3>1. ok /\ Len(whole) < MAX_PRPH_BUF /\ ok'
      BY <1>6, <2>1, <2>5
    <3>2. pc # "reset" /\ prph_rx_head = At(prph_pkt_vect, place)
      <4>1. Len(whole) \in Nat
        BY <1>0, Packets DEF TypeOK
      <4> QED
        BY <1>0, <3>1, <4>1 DEF Ready
    <3>3. prph_rx_head = prph_pkt_vect
      BY <1>8, <2>2, <3>2, Places
    <3> QED
      BY <2>2, <2>3, <2>5, <3>1, <3>3
  <2> QED
    BY <2>4, <2>5
<1>13. Ready'
  <2> SUFFICES ASSUME ok' PROVE Ready'
    BY DEF Ready
  <2>1. ok /\ rx_flag'
    BY <1>0, <1>6 DEF Ready
  <2>2. place' = place + 1 /\ place' <= MAX_PRPH_BUF /\ (rx_flag' => packet' # <<>>)
    BY <1>1, <1>4, <1>8, <2>1
  <2> QED
    BY <1>0, <1>1, <1>2, <1>3, <2>1, <2>2, ReadyKept
<1> QED
  BY <1>9, <1>10, <1>11, <1>12, <1>13 DEF IInv

\* A byte of a packet that is not its last.
LEMMA NextKeeps ==
    ASSUME IInv, NextByte, place + 1 # Len(packet)
    PROVE  IInv'
<1> USE Sizes
<1> DEFINE n == place + 1
           b == packet[n]
<1>0. TypeOK /\ Reception /\ Idle /\ Coming /\ Ready
  BY DEF IInv
<1>1. /\ packet \in Packet /\ packet # <<>> /\ Len(packet) \in Nat /\ Len(packet) >= 2
      /\ place \in 1 .. Len(packet) - 2 /\ n \in 1 .. Len(packet) - 1 /\ b \in Nat
  <2>1. packet \in Packet /\ packet # <<>>
    BY <1>0 DEF NextByte, TypeOK
  <2>2. Len(packet) \in Nat /\ Len(packet) >= 2 /\ \A k \in 1 .. Len(packet) : packet[k] \in Nat
    BY <2>1, Packets
  <2>3. place \in 1 .. Len(packet) - 1
    BY <1>0, <2>1 DEF Reception
  <2> QED
    BY <2>1, <2>2, <2>3
<1>2. ByteIn(b)
  BY DEF NextByte, EndOfByte, ByteIn
<1>3. /\ rx_flag /\ receptions' = receptions
      /\ prph_pkt_vect' = prph_pkt_vect /\ whole' = whole
      /\ false_byte_cnt' = IF b = FF THEN (false_byte_cnt + 1) % COUNT ELSE false_byte_cnt
  BY DEF NextByte, EndOfByte, Account
<1>4. rx_flag' \in BOOLEAN /\ prph_data_ready' = prph_data_ready /\ waiting' = waiting
  BY <1>0 DEF NextByte, EndOfByte, Account, TypeOK
<1>5. /\ packet' = (IF rx_flag' THEN packet ELSE <<>>) /\ place' = (IF rx_flag' THEN n ELSE 0)
      /\ astray' = (astray \/ ~rx_flag') /\ clear' = (clear /\ rx_flag')
  BY DEF NextByte, Account
<1>6. ok' = (ok /\ ~(Copying /\ (n > MAX_PRPH_BUF \/ ~rx_flag')))
  BY <1>1 DEF NextByte, Account
<1> HIDE DEF n, b
<1>7. Copying' = Copying
  BY <1>2, <1>4 DEF Copying, ByteIn
<1>8. TypeOK'
  <2>1. packet' \in Packet \cup {<<>>} /\ place' \in 0 .. Len(packet')
    <3>1. Len(<<>>) = 0
      OBVIOUS
    <3> QED
      BY <1>1, <1>5, <3>1
  <2>2. whole' \in Packet \cup {<<>>} /\ receptions' \in Nat
    BY <1>0, <1>3 DEF TypeOK
  <2>3. /\ rx_flag' \in BOOLEAN /\ prph_data_ready' \in BOOLEAN /\ clear' \in BOOLEAN
        /\ ok' \in BOOLEAN /\ waiting' \in BOOLEAN /\ astray' \in BOOLEAN
    BY <1>0, <1>4, <1>5, <1>6, Zenon DEF TypeOK
  <2> QED
    BY <1>0, <1>1, <1>2, <1>3, <2>1, <2>2, <2>3, ReceiveTypes
<1>9. Reception'
  <2>1. ~rx_flag' => packet' = <<>> /\ place' = 0
    BY <1>5
  <2>2. packet' # <<>> => place' \in 1 .. Len(packet') - 1
    BY <1>1, <1>5
  <2>3. clear' => packet' # <<>>
    BY <1>1, <1>5
  <2>4. pc' = "reset" => prph_rx_tail' = 0 /\ pdline_i' = MAX_PRPH_BUF
    BY <1>0, <1>2 DEF ByteIn, Reception
  <2> QED
    BY <2>1, <2>2, <2>3, <2>4 DEF Reception
<1>10. Idle'
  BY <1>5 DEF Idle
<1>11. Coming'
  <2> DEFINE start == IF Copying THEN prph_pkt_vect ELSE prph_rx_tail
  <2> SUFFICES ASSUME clear', n <= MAX_PRPH_BUF
               PROVE  /\ prph_rx_head' = At(start, n)
                      /\ Lies(prph_rx_buf', packet, 1, n, start)
                      /\ Copying => ok' /\ Len(whole) < MAX_PRPH_BUF
    <3>1. prph_rx_tail' = prph_rx_tail
      BY <1>2 DEF ByteIn
    <3>2. clear' => packet' = packet /\ place' = n
      BY <1>5
    <3> QED
      BY <1>3, <1>7, <3>1, <3>2 DEF Coming
  <2>1. clear /\ rx_flag' /\ place <= MAX_PRPH_BUF
    <3>1. clear /\ rx_flag'
      BY <1>5, Zenon
    <3>2. place <= MAX_PRPH_BUF
      BY <1>1 DEF n
    <3> QED
      BY <3>1, <3>2
  <2>2. /\ prph_rx_head = At(start, place)
        /\ Lies(prph_rx_buf, packet, 1, place, start)
        /\ Copying => ok /\ Len(whole) < MAX_PRPH_BUF
    BY <1>0, <2>1 DEF Coming
  <2>3. start \in Ring
    BY <1>0 DEF TypeOK
  <2>4. place \in 0 .. MAX_PRPH_BUF - 1 /\ b = packet[place + 1]
    BY <1>1 DEF n, b
  <2> HIDE DEF start
  <2>5. Lies(prph_rx_buf', packet, 1, place + 1, start) /\ prph_rx_head' = At(start, place + 1)
    BY <1>0, <1>1, <1>2, <2>2, <2>3, <2>4, LiesOn
  <2>6. ~(n > MAX_PRPH_BUF)
    BY <1>1
  <2>7. Copying => ok'
    BY <1>6, <2>1, <2>2, <2>6
  <2> QED
    BY <2>2, <2>5, <2>7 DEF n
<1>12. Ready'
  <2> SUFFICES ASSUME ok' PROVE Ready'
    BY DEF Ready
  <2>1. ok /\ rx_flag' /\ ~(n > MAX_PRPH_BUF)
    BY <1>0, <1>6 DEF Ready
  <2>2. place' = place + 1 /\ place' <= MAX_PRPH_BUF /\ (rx_flag' => packet' # <<>>)
    BY <1>1, <1>5, <2>1 DEF n
  <2> QED
    BY <1>0, <1>1, <1>2, <1>3, <1>4, <2>1, <2>2, ReadyKept
<1> QED
  BY <1>8, <1>9, <1>10, <1>11, <1>12 DEF IInv

\* The last byte of a packet.
LEMMA LastKeeps ==
    ASSUME IInv, NextByte, place + 1 = Len(packet)
    PROVE  IInv'
<1> USE Sizes
<1> DEFINE n == place + 1
           b == packet[n]
<1>0. TypeOK /\ Reception /\ Idle /\ Coming /\ Ready
  BY DEF IInv
<1>1. /\ packet \in Packet /\ packet # <<>> /\ Len(packet) \in Nat /\ Len(packet) >= 2
      /\ place \in Nat /\ place >= 1 /\ n = Len(packet) /\ b \in Nat
  <2>1. packet \in Packet /\ packet # <<>>
    BY <1>0 DEF NextByte, TypeOK
  <2>2. Len(packet) \in Nat /\ Len(packet) >= 2 /\ \A k \in 1 .. Len(packet) : packet[k] \in Nat
    BY <2>1, Packets
  <2>3. place \in 1 .. Len(packet) - 1
    BY <1>0, <2>1 DEF Reception
  <2> QED
    BY <2>1, <2>2, <2>3
<1>2. ByteIn(b)
  BY DEF NextByte, EndOfByte, ByteIn
<1>3. /\ receptions' = receptions /\ prph_pkt_vect' = prph_rx_head' /\ whole' = packet
      /\ false_byte_cnt' = IF b = FF THEN (false_byte_cnt + 1) % COUNT ELSE false_byte_cnt
  BY DEF NextByte, EndOfByte, Account
<1>4. rx_flag' = FALSE /\ prph_data_ready' = TRUE
  BY DEF NextByte, EndOfByte
<1>5. waiting' = TRUE /\ clear' = FALSE /\ astray' = FALSE /\ packet' = <<>> /\ place' = 0
  BY <1>4 DEF NextByte, Account
<1>6. ok' = (clear /\ ~Copying)
  BY DEF NextByte, Account
<1> HIDE DEF n, b
<1>7. Copying'
  BY <1>4 DEF Copying
<1>8. TypeOK'
  <2>1. packet' \in Packet \cup {<<>>} /\ place' \in 0 .. Len(packet')
    <3>1. Len(<<>>) = 0
      OBVIOUS
    <3> QED
      BY <1>5, <3>1
  <2>2. whole' \in Packet \cup {<<>>} /\ receptions' \in Nat
    BY <1>0, <1>1, <1>3 DEF TypeOK
  <2>3. /\ rx_flag' \in BOOLEAN /\ prph_data_ready' \in BOOLEAN /\ clear' \in BOOLEAN
        /\ ok' \in BOOLEAN /\ waiting' \in BOOLEAN /\ astray' \in BOOLEAN
    BY <1>4, <1>5, <1>6, Zenon
  <2> QED
    BY <1>0, <1>1, <1>2, <1>3, <2>1, <2>2, <2>3, ReceiveTypes
<1>9. Reception'
  BY <1>0, <1>2, <1>4, <1>5 DEF ByteIn, Reception
<1>10. Idle'
  BY <1>3, <1>7 DEF Idle
<1>11. Coming'
  BY <1>5 DEF Coming
<1>12. Ready'
  <2> SUFFICES ASSUME ok' PROVE Ready'
    BY DEF Ready
  <2>1. clear /\ ~Copying /\ pc \in {"rest", "check"} /\ pc' = pc /\ prph_rx_tail' = prph_rx_tail
    BY <1>0, <1>2, <1>6 DEF Copying, TypeOK, ByteIn
  <2>2. Copied' = 0
    BY <2>1 DEF Copied
  <2>3. Copying' /\ (prph_data_ready' => pc' \in {"rest", "check"}) /\ Len(whole') >= 2
    BY <1>1, <1>3, <1>7, <2>1
  <2>4. ASSUME Len(packet) <= MAX_PRPH_BUF
        PROVE  /\ prph_rx_head' = At(prph_rx_tail, Len(packet))
               /\ Lies(prph_rx_buf', packet, 1, Len(packet), prph_rx_tail)
    <3>1. place <= MAX_PRPH_BUF /\ place \in 0 .. MAX_PRPH_BUF - 1 /\ b = packet[place + 1]
      BY <1>1, <2>4 DEF n, b
    <3>2. prph_rx_head = At(prph_rx_tail, place) /\ Lies(prph_rx_buf, packet, 1, place, prph_rx_tail)
      BY <1>0, <2>1, <3>1 DEF Coming
    <3>3. prph_rx_tail \in Ring
      BY <1>0 DEF TypeOK
    <3>4. Lies(prph_rx_buf', packet, 1, place + 1, prph_rx_tail)
          /\ prph_rx_head' = At(prph_rx_tail, place + 1)
      BY <1>0, <1>1, <1>2, <3>1, <3>2, <3>3, LiesOn
    <3> QED
      BY <1>1, <3>4 DEF n
  <2>5. prph_rx_head' = At(prph_pkt_vect', 0)
    <3>1. prph_rx_head' \in Ring
      BY <1>8 DEF TypeOK
    <3>2. 0 < MAX_RX_BUF
      OBVIOUS
    <3> QED
      BY <1>3, <3>1, <3>2, Places
  <2>6. ASSUME Len(whole') <= MAX_PRPH_BUF
        PROVE  /\ Copied' <= Len(whole')
               /\ prph_pkt_vect' = At(prph_rx_tail', Len(whole') - Copied')
               /\ Lies(prph_rx_buf', whole', Copied' + 1, Len(whole') - Copied', prph_rx_tail')
               /\ prph_rx_head' = At(prph_pkt_vect', place')
               /\ place' <= MAX_PRPH_BUF /\ (rx_flag' => packet' # <<>>)
    <3>1. Len(whole') - Copied' = Len(packet) /\ Copied' + 1 = 1 /\ Copied' <= Len(whole')
      BY <1>1, <1>3, <2>2
    <3> QED
      BY <1>3, <1>4, <1>5, <2>1, <2>4, <2>5, <2>6, <3>1
  <2>7. \A j \in Buffer : ~(j < Copied')
    BY <2>2
  <2> QED
    BY <2>1, <2>3, <2>6, <2>7 DEF Ready
<1> QED
  BY <1>8, <1>9, <1>10, <1>11, <1>12 DEF IInv

\* A byte of a reception whose peripheral has gone.
LEMMA IdleKeeps ==
    ASSUME IInv, IdleByte
    PROVE  IInv'
<1>0. TypeOK /\ Reception /\ Idle /\ Coming /\ Ready
  BY DEF IInv
<1>1. FF \in Nat
  BY DEF FF
<1>2. ByteIn(FF)
  BY DEF IdleByte, EndOfByte, ByteIn
<1>3. /\ receptions' = receptions /\ prph_pkt_vect' = prph_pkt_vect /\ whole' = whole
      /\ false_byte_cnt' = IF FF = FF THEN (false_byte_cnt + 1) % COUNT ELSE false_byte_cnt
  BY DEF IdleByte, EndOfByte, Account
<1>4. /\ rx_flag' \in BOOLEAN /\ prph_data_ready' = prph_data_ready /\ waiting' = waiting
      /\ packet' = <<>> /\ place' = 0 /\ clear' = FALSE /\ astray' = (astray \/ ~rx_flag')
  BY <1>0 DEF IdleByte, EndOfByte, Account, TypeOK
<1>5. ok' = (ok /\ ~Copying)
  BY DEF IdleByte, Account
<1>6. Len(<<>>) = 0
  OBVIOUS
<1>7. TypeOK'
  <2>1. packet' \in Packet \cup {<<>>} /\ place' \in 0 .. Len(packet')
    BY <1>4, <1>6
  <2>2. whole' \in Packet \cup {<<>>} /\ receptions' \in Nat
    BY <1>0, <1>3 DEF TypeOK
  <2>3. /\ rx_flag' \in BOOLEAN /\ prph_data_ready' \in BOOLEAN /\ clear' \in BOOLEAN
        /\ ok' \in BOOLEAN /\ waiting' \in BOOLEAN /\ astray' \in BOOLEAN
    BY <1>0, <1>4, <1>5, Zenon DEF TypeOK
  <2> QED
    BY <1>0, <1>1, <1>2, <1>3, <2>1, <2>2, <2>3, ReceiveTypes
<1>8. Reception'
  BY <1>0, <1>2, <1>4 DEF ByteIn, Reception
<1>9. Idle'
  BY <1>4 DEF Idle
<1>10. Coming'
  BY <1>4 DEF Coming
<1>11. Ready'
  BY <1>0, <1>5 DEF Ready
<1> QED
  BY <1>7, <1>8, <1>9, <1>10, <1>11 DEF IInv

-----------------------------------------------------------------------------
(* The task *)

LEMMA TakeKeeps ==
    ASSUME IInv, Take
    PROVE  IInv'
<1> USE Sizes
<1>0. TypeOK /\ Reception /\ Idle /\ Coming /\ Ready
  BY DEF IInv
<1>1. /\ pc = "rest" /\ prph_data_ready /\ prph_data_ready' = FALSE
      /\ pc' = "copy" /\ pdline_i' = 0
      /\ UNCHANGED <<prph_rx_buf, prph_pkt_vect, rx_flag, prph_rx_head, prph_rx_tail, false_byte_cnt,
                     prph_data_buf, packet, place, receptions, clear, whole, ok, waiting, astray>>
  BY DEF Take, received, history
<1>2. Copying /\ Copying' /\ Copied = 0 /\ Copied' = 0
  <2>1. Copying /\ Copying'
    BY <1>1, Zenon DEF Copying
  <2>2. Copied = 0 /\ Copied' = 0
    BY <1>1 DEF Copied
  <2> QED
    BY <2>1, <2>2
<1>3. TypeOK'
  <2>1. /\ rx_flag' \in BOOLEAN /\ prph_data_ready' \in BOOLEAN /\ clear' \in BOOLEAN
        /\ ok' \in BOOLEAN /\ waiting' \in BOOLEAN /\ astray' \in BOOLEAN
    BY <1>0, <1>1, Zenon DEF TypeOK
  <2>2. pdline_i' \in 0 .. MAX_PRPH_BUF /\ pdline_i' < MAX_PRPH_BUF
    BY <1>1
  <2>3. /\ prph_rx_buf' \in [Ring -> Nat] /\ prph_data_buf' \in [Buffer -> Nat]
        /\ prph_rx_head' \in Ring /\ prph_rx_tail' \in Ring /\ prph_pkt_vect' \in Ring
        /\ false_byte_cnt' \in 0 .. COUNT - 1
        /\ packet' \in Packet \cup {<<>>} /\ place' \in 0 .. Len(packet')
        /\ whole' \in Packet \cup {<<>>} /\ receptions' \in Nat
    BY <1>0, <1>1, Zenon DEF TypeOK
  <2> QED
    BY <1>1, <2>1, <2>2, <2>3 DEF TypeOK
<1>4. Reception' /\ Idle'
  BY <1>0, <1>1, <1>2 DEF Reception, Idle
<1>5. Coming'
  BY <1>0, <1>1, <1>2 DEF Coming
<1>6. Ready'
  BY <1>0, <1>1, <1>2 DEF Ready
<1> QED
  BY <1>3, <1>4, <1>5, <1>6 DEF IInv

LEMMA CopyKeeps ==
    ASSUME IInv, CopyByte
    PROVE  IInv'
<1> USE Sizes
<1> DEFINE c == pdline_i
           l == Len(whole)
<1>0. TypeOK /\ Reception /\ Idle /\ Coming /\ Ready
  BY DEF IInv
<1>1. /\ pc = "copy" /\ prph_rx_tail # prph_pkt_vect
      /\ prph_data_buf' = [prph_data_buf EXCEPT ![pdline_i] = prph_rx_buf[prph_rx_tail]]
      /\ pdline_i' = pdline_i + 1
      /\ IF pdline_i + 1 > MAX_PRPH_BUF - 1
         THEN pc' = "reset" /\ prph_rx_tail' = 0
         ELSE pc' = pc /\ prph_rx_tail' = NextIndex(prph_rx_tail)
      /\ UNCHANGED <<prph_rx_buf, prph_pkt_vect, rx_flag, prph_rx_head, prph_data_ready, false_byte_cnt,
                     packet, place, receptions, clear, whole, ok, waiting, astray>>
  BY DEF CopyByte, received, history
<1>2. /\ c \in Nat /\ c < MAX_PRPH_BUF /\ c \in Buffer /\ prph_rx_tail \in Ring /\ prph_pkt_vect \in Ring
      /\ prph_rx_buf \in [Ring -> Nat] /\ prph_data_buf \in [Buffer -> Nat] /\ l \in Nat
  <2>1. l \in Nat
    BY <1>0, Packets DEF TypeOK
  <2>2. c \in 0 .. MAX_PRPH_BUF /\ c < MAX_PRPH_BUF
    BY <1>0, <1>1 DEF TypeOK
  <2>3. /\ prph_rx_tail \in Ring /\ prph_pkt_vect \in Ring
        /\ prph_rx_buf \in [Ring -> Nat] /\ prph_data_buf \in [Buffer -> Nat]
    BY <1>0 DEF TypeOK
  <2>4. c \in Nat /\ c \in 0 .. MAX_PRPH_BUF - 1
    BY <2>2
  <2> QED
    BY <2>1, <2>2, <2>3, <2>4
<1>3. Copying /\ Copying' /\ Copied = c
  BY <1>1 DEF Copying, Copied
<1>4. /\ prph_data_buf' \in [Buffer -> Nat] /\ prph_data_buf'[c] = prph_rx_buf[prph_rx_tail]
      /\ \A j \in Buffer : j # c => prph_data_buf'[j] = prph_data_buf[j]
  BY <1>1, <1>2
<1>5. TypeOK'
  <2>1. /\ pc' \in {"rest", "copy", "reset", "check"} /\ prph_rx_tail' \in Ring
        /\ pdline_i' \in 0 .. MAX_PRPH_BUF /\ (pc' = "copy" => pdline_i' < MAX_PRPH_BUF)
    <3>1. NextIndex(prph_rx_tail) \in Ring /\ 0 \in Ring
      <4>1. NextIndex(prph_rx_tail) \in Ring
        BY <1>2, NextPlace, Zenon
      <4> QED
        BY <4>1
    <3>2. pdline_i' \in 0 .. MAX_PRPH_BUF
      BY <1>1, <1>2
    <3>3. CASE pdline_i + 1 > MAX_PRPH_BUF - 1
      BY <1>1, <3>1, <3>2, <3>3
    <3>4. CASE ~(pdline_i + 1 > MAX_PRPH_BUF - 1)
      <4>1. pdline_i' < MAX_PRPH_BUF
        BY <1>1, <1>2, <3>4
      <4> QED
        BY <1>1, <3>1, <3>2, <3>4, <4>1
    <3> QED
      BY <3>3, <3>4
  <2> QED
    BY <1>0, <1>1, <1>4, <2>1 DEF TypeOK
<1>6. Reception'
  <2>1. pc' = "reset" => prph_rx_tail' = 0 /\ pdline_i' = MAX_PRPH_BUF
    BY <1>1, <1>2
  <2> QED
    BY <1>0, <1>1, <2>1 DEF Reception
<1>7. Idle'
  BY <1>0, <1>1, <1>3 DEF Idle
<1>8. Coming'
  BY <1>0, <1>1, <1>3 DEF Coming
<1>9. Ready'
  <2> SUFFICES ASSUME ok PROVE Ready'
    BY <1>1 DEF Ready
  <2>1. ~prph_data_ready /\ Len(whole) >= 2
    BY <1>0, <1>1 DEF Ready
  <2>2. ASSUME l <= MAX_PRPH_BUF
        PROVE  /\ c < l /\ prph_pkt_vect = At(prph_rx_tail, l - c)
               /\ prph_rx_head = At(prph_pkt_vect, place) /\ place <= MAX_PRPH_BUF
               /\ (rx_flag => packet # <<>>)
               /\ Lies(prph_rx_buf, whole, c + 1, l - c, prph_rx_tail)
               /\ \A j \in Buffer : j < c + 1 => prph_data_buf'[j] = whole[j + 1]
    <3>1. /\ c <= l /\ prph_pkt_vect = At(prph_rx_tail, l - c)
          /\ prph_rx_head = At(prph_pkt_vect, place) /\ place <= MAX_PRPH_BUF
          /\ (rx_flag => packet # <<>>)
          /\ Lies(prph_rx_buf, whole, c + 1, l - c, prph_rx_tail)
          /\ \A j \in Buffer : j < c => prph_data_buf[j] = whole[j + 1]
      BY <1>0, <1>1, <1>3, <2>2 DEF Ready
    <3>2. At(prph_rx_tail, 0) = prph_rx_tail
      BY <1>2, Places
    <3>3. c < l
      <4>1. c # l
        <5> SUFFICES ASSUME c = l PROVE FALSE
          OBVIOUS
        <5>1. l - c = 0
          BY <1>2
        <5> QED
          BY <1>1, <3>1, <3>2, <5>1
      <4> QED
        BY <1>2, <3>1, <4>1
    <3>4. prph_rx_buf[prph_rx_tail] = whole[c + 1]
      <4>1. 0 \in Behind /\ 0 < l - c
        BY <1>2, <3>3 DEF Behind
      <4>2. prph_rx_buf[At(prph_rx_tail, 0)] = whole[c + 1 + 0]
        BY <3>1, <4>1 DEF Lies
      <4>3. c + 1 + 0 = c + 1
        BY <1>2
      <4> QED
        BY <3>2, <4>2, <4>3
    <3>5. ASSUME NEW j \in Buffer, j < c + 1 PROVE prph_data_buf'[j] = whole[j + 1]
      <4>1. CASE j = c
        BY <1>4, <3>4, <4>1
      <4>2. CASE j # c
        <5>1. j < c
          BY <1>2, <3>5, <4>2
        <5> QED
          BY <1>4, <3>1, <4>2, <5>1
      <4> QED
        BY <4>1, <4>2
    <3> QED
      BY <3>1, <3>3, <3>5
  <2>3. CASE pdline_i + 1 > MAX_PRPH_BUF - 1
    <3>1. pc' = "reset" /\ c + 1 = MAX_PRPH_BUF
      BY <1>1, <1>2, <2>3
    <3>2. ASSUME l <= MAX_PRPH_BUF
          PROVE  l = MAX_PRPH_BUF /\ \A j \in Buffer : prph_data_buf'[j] = whole[j + 1]
      <4>1. c < l
        BY <2>2, <3>2
      <4>2. l = MAX_PRPH_BUF
        BY <1>2, <3>1, <3>2, <4>1
      <4>3. \A j \in Buffer : j < c + 1
        BY <1>2, <3>1
      <4> QED
        BY <2>2, <3>2, <4>2, <4>3
    <3> QED
      BY <1>1, <1>3, <2>1, <3>1, <3>2 DEF Ready
  <2>4. CASE ~(pdline_i + 1 > MAX_PRPH_BUF - 1)
    <3>1. pc' = "copy" /\ prph_rx_tail' = NextIndex(prph_rx_tail) /\ pdline_i' = c + 1
      BY <1>1, <2>4
    <3>2. Copied' = c + 1
      BY <3>1 DEF Copied
    <3>3. ASSUME l <= MAX_PRPH_BUF
          PROVE  /\ c + 1 <= l /\ prph_pkt_vect = At(prph_rx_tail', l - (c + 1))
                 /\ Lies(prph_rx_buf, whole, (c + 1) + 1, l - (c + 1), prph_rx_tail')
      <4>1. c < l /\ prph_pkt_vect = At(prph_rx_tail, l - c)
            /\ Lies(prph_rx_buf, whole, c + 1, l - c, prph_rx_tail)
        BY <2>2, <3>3
      <4>2. prph_pkt_vect = At(prph_rx_tail', l - (c + 1))
        <5> HIDE DEF c, l
        <5>1. l - (c + 1) \in Nat /\ l - (c + 1) < MAX_RX_BUF /\ l - (c + 1) + 1 < MAX_RX_BUF
              /\ l - (c + 1) + 1 = l - c
          BY <1>2, <3>3, <4>1
        <5>2. At(NextIndex(prph_rx_tail), l - (c + 1)) = At(prph_rx_tail, l - (c + 1) + 1)
          BY <1>2, <5>1, Places
        <5> QED
          BY <3>1, <4>1, <5>1, <5>2
      <4>3. ASSUME NEW j \in Behind, j < l - (c + 1)
            PROVE  prph_rx_buf[At(prph_rx_tail', j)] = whole[(c + 1) + 1 + j]
        <5>1. j \in Nat /\ j < MAX_RX_BUF /\ j + 1 < MAX_RX_BUF /\ j + 1 \in Behind /\ j + 1 < l - c
              /\ c + 1 + (j + 1) = (c + 1) + 1 + j
          BY <1>2, <3>3, <4>1, <4>3 DEF Behind
        <5>2. At(NextIndex(prph_rx_tail), j) = At(prph_rx_tail, j + 1)
          BY <1>2, <5>1, Places
        <5>3. prph_rx_buf[At(prph_rx_tail, j + 1)] = whole[c + 1 + (j + 1)]
          BY <4>1, <5>1 DEF Lies
        <5> QED
          BY <3>1, <5>1, <5>2, <5>3
      <4>4. c + 1 <= l
        BY <1>2, <4>1
      <4> QED
        BY <4>2, <4>3, <4>4 DEF Lies
    <3> QED
      BY <1>1, <1>3, <2>1, <2>2, <3>1, <3>2, <3>3 DEF Ready
  <2> QED
    BY <2>3, <2>4
<1> QED
  BY <1>5, <1>6, <1>7, <1>8, <1>9 DEF IInv

\* The packet has been handed on: it is not in the ring any more.
LEMMA HandOnTypes ==
    ASSUME TypeOK, HandOn, prph_rx_head' \in Ring, astray' \in BOOLEAN,
           UNCHANGED <<prph_rx_buf, prph_pkt_vect, rx_flag, prph_rx_tail, prph_data_ready,
                       false_byte_cnt, prph_data_buf, pdline_i>>
    PROVE  /\ TypeOK' /\ ok' = FALSE /\ pc' = "check" /\ (Copying' <=> prph_data_ready)
           /\ packet' = packet /\ place' = place /\ clear' = clear
<1>1. /\ pc' = "check" /\ waiting' = FALSE /\ whole' = <<>> /\ ok' = FALSE
      /\ UNCHANGED <<packet, place, receptions, clear>>
  BY DEF HandOn
<1>2. /\ rx_flag' \in BOOLEAN /\ prph_data_ready' \in BOOLEAN /\ clear' \in BOOLEAN
      /\ ok' \in BOOLEAN /\ waiting' \in BOOLEAN
  BY <1>1, Zenon DEF TypeOK
<1>3. /\ prph_rx_buf' \in [Ring -> Nat] /\ prph_data_buf' \in [Buffer -> Nat]
      /\ prph_rx_tail' \in Ring /\ prph_pkt_vect' \in Ring
      /\ false_byte_cnt' \in 0 .. COUNT - 1 /\ pdline_i' \in 0 .. MAX_PRPH_BUF
      /\ packet' \in Packet \cup {<<>>} /\ place' \in 0 .. Len(packet') /\ receptions' \in Nat
  BY <1>1, Zenon DEF TypeOK
<1>4. TypeOK'
  BY <1>1, <1>2, <1>3 DEF TypeOK
<1>5. Copying' <=> prph_data_ready
  BY <1>1, Zenon DEF Copying
<1> QED
  BY <1>1, <1>4, <1>5

LEMMA ResetKeeps ==
    ASSUME IInv, Reset
    PROVE  IInv'
<1> USE Sizes
<1>0. TypeOK /\ Reception /\ Idle /\ Coming /\ Ready
  BY DEF IInv
<1>1. /\ pc = "reset" /\ prph_rx_head' = 0 /\ HandOn /\ astray' = (astray \/ prph_data_ready)
      /\ UNCHANGED <<prph_rx_buf, prph_pkt_vect, rx_flag, prph_rx_tail, prph_data_ready,
                     false_byte_cnt, prph_data_buf, pdline_i>>
  BY DEF Reset, received
<1>2. prph_rx_head' \in Ring /\ astray' \in BOOLEAN
  BY <1>0, <1>1 DEF TypeOK
<1>3. /\ TypeOK' /\ ok' = FALSE /\ pc' = "check" /\ (Copying' <=> prph_data_ready)
      /\ packet' = packet /\ place' = place /\ clear' = clear
  BY <1>0, <1>1, <1>2, HandOnTypes
<1>4. Reception'
  BY <1>0, <1>1, <1>3 DEF Reception
<1>5. Idle'
  <2> SUFFICES ASSUME ~rx_flag', ~astray'
               PROVE  ~Copying' /\ prph_rx_head' = prph_rx_tail'
    BY DEF Idle
  <2>1. ~Copying'
    BY <1>1, <1>3
  <2>2. prph_rx_tail' = 0
    BY <1>0, <1>1 DEF Reception
  <2> QED
    BY <1>1, <2>1, <2>2
<1>6. Coming'
  <2>1. ~(clear /\ place <= MAX_PRPH_BUF)
    <3> SUFFICES ASSUME clear, place <= MAX_PRPH_BUF PROVE FALSE
      OBVIOUS
    <3>1. ok /\ Len(whole) < MAX_PRPH_BUF
      BY <1>0, <1>1 DEF Coming, Copying
    <3>2. Len(whole) \in Nat
      BY <1>0, Packets DEF TypeOK
    <3> QED
      BY <1>0, <1>1, <3>1, <3>2 DEF Ready
  <2> QED
    BY <1>3, <2>1 DEF Coming
<1>7. Ready'
  BY <1>3 DEF Ready
<1> QED
  BY <1>3, <1>4, <1>5, <1>6, <1>7 DEF IInv

LEMMA DoneKeeps ==
    ASSUME IInv, CopyDone
    PROVE  IInv'
<1> USE Sizes
<1>0. TypeOK /\ Reception /\ Idle /\ Coming /\ Ready
  BY DEF IInv
<1>1. /\ pc = "copy" /\ prph_rx_tail = prph_pkt_vect /\ HandOn /\ astray' = astray
      /\ prph_rx_head' = prph_rx_head
      /\ UNCHANGED <<prph_rx_buf, prph_pkt_vect, rx_flag, prph_rx_tail, prph_data_ready,
                     false_byte_cnt, prph_data_buf, pdline_i>>
  BY DEF CopyDone, received
<1>2. prph_rx_head' \in Ring /\ astray' \in BOOLEAN
  BY <1>0, <1>1 DEF TypeOK
<1>3. /\ TypeOK' /\ ok' = FALSE /\ pc' = "check" /\ (Copying' <=> prph_data_ready)
      /\ packet' = packet /\ place' = place /\ clear' = clear
  BY <1>0, <1>1, <1>2, HandOnTypes
<1>4. Reception'
  BY <1>0, <1>1, <1>3 DEF Reception
<1>5. Copying /\ pc # "reset"
  BY <1>1, Zenon DEF Copying
<1>6. Idle'
  <2> SUFFICES ASSUME ~rx_flag', ~astray'
               PROVE  prph_rx_head' = prph_rx_tail' /\ prph_rx_head' = prph_pkt_vect'
    BY DEF Idle
  <2>1. prph_rx_head = prph_pkt_vect
    BY <1>0, <1>1, <1>5 DEF Idle
  <2> QED
    BY <1>1, <2>1
<1>7. Coming'
  <2> SUFFICES ASSUME clear, place <= MAX_PRPH_BUF
               PROVE  /\ ~Copying' /\ prph_rx_head' = At(prph_rx_tail', place)
                      /\ Lies(prph_rx_buf', packet, 1, place, prph_rx_tail')
    BY <1>3 DEF Coming
  <2>1. /\ prph_rx_head = At(prph_pkt_vect, place) /\ ok
        /\ Lies(prph_rx_buf, packet, 1, place, prph_pkt_vect)
    BY <1>0, <1>5 DEF Coming
  <2>2. ~prph_data_ready
    BY <1>0, <1>1, <2>1 DEF Ready
  <2> QED
    BY <1>1, <1>3, <2>1, <2>2
<1>8. Ready'
  BY <1>3 DEF Ready
<1> QED
  BY <1>3, <1>4, <1>6, <1>7, <1>8 DEF IInv

LEMMA CheckedKeeps ==
    ASSUME IInv, Checked
    PROVE  IInv'
<1> USE Sizes
<1>0. TypeOK /\ Reception /\ Idle /\ Coming /\ Ready
  BY DEF IInv
<1>1. /\ pc = "check" /\ pc' = "rest" /\ false_byte_cnt' = 0
      /\ UNCHANGED <<prph_rx_buf, prph_pkt_vect, rx_flag, prph_rx_head, prph_rx_tail, prph_data_ready,
                     prph_data_buf, pdline_i, packet, place, receptions, clear, whole, ok, waiting,
                     astray>>
  BY DEF Checked, received, history
<1>2. (Copying' <=> Copying) /\ Copied' = Copied /\ Copied = 0
  <2>1. Copying' <=> Copying
    BY <1>1, Zenon DEF Copying
  <2>2. Copied' = 0 /\ Copied = 0
    BY <1>1 DEF Copied
  <2> QED
    BY <2>1, <2>2
<1>3. TypeOK'
  <2>1. /\ rx_flag' \in BOOLEAN /\ prph_data_ready' \in BOOLEAN /\ clear' \in BOOLEAN
        /\ ok' \in BOOLEAN /\ waiting' \in BOOLEAN /\ astray' \in BOOLEAN
    BY <1>0, <1>1, Zenon DEF TypeOK
  <2>2. false_byte_cnt' \in 0 .. COUNT - 1
    BY <1>1
  <2>3. /\ prph_rx_buf' \in [Ring -> Nat] /\ prph_data_buf' \in [Buffer -> Nat]
        /\ prph_rx_head' \in Ring /\ prph_rx_tail' \in Ring /\ prph_pkt_vect' \in Ring
        /\ pdline_i' \in 0 .. MAX_PRPH_BUF
        /\ packet' \in Packet \cup {<<>>} /\ place' \in 0 .. Len(packet')
        /\ whole' \in Packet \cup {<<>>} /\ receptions' \in Nat
    BY <1>0, <1>1, Zenon DEF TypeOK
  <2> QED
    BY <1>1, <2>1, <2>2, <2>3 DEF TypeOK
<1>4. Reception' /\ Idle'
  BY <1>0, <1>1, <1>2 DEF Reception, Idle
<1>5. Coming'
  BY <1>0, <1>1, <1>2 DEF Coming
<1>6. Ready'
  BY <1>0, <1>1, <1>2 DEF Ready
<1> QED
  BY <1>3, <1>4, <1>5, <1>6 DEF IInv

-----------------------------------------------------------------------------
(* The invariant *)

LEMMA InitCorrect == Init => IInv
<1> SUFFICES ASSUME Init PROVE IInv
  OBVIOUS
<1> USE Sizes
<1>1. TypeOK
  <2>1. Len(<<>>) = 0
    OBVIOUS
  <2>2. /\ rx_flag \in BOOLEAN /\ prph_data_ready \in BOOLEAN /\ clear \in BOOLEAN
        /\ ok \in BOOLEAN /\ waiting \in BOOLEAN /\ astray \in BOOLEAN
    BY DEF Init
  <2>3. /\ prph_rx_buf \in [Ring -> Nat] /\ prph_data_buf \in [Buffer -> Nat]
        /\ prph_rx_head \in Ring /\ prph_rx_tail \in Ring /\ prph_pkt_vect \in Ring
        /\ false_byte_cnt \in 0 .. COUNT - 1 /\ pdline_i \in 0 .. MAX_PRPH_BUF
    BY DEF Init
  <2> QED
    BY <2>1, <2>2, <2>3 DEF Init, TypeOK
<1>2. Reception /\ Idle /\ Coming /\ Ready
  BY DEF Init, Reception, Idle, Coming, Ready, Copying
<1> QED
  BY <1>1, <1>2 DEF IInv

LEMMA StepCorrect == IInv /\ [Next]_vars => IInv'
<1> SUFFICES ASSUME IInv, [Next]_vars PROVE IInv'
  OBVIOUS
<1>1. CASE \E p \in Packet : FirstByte(p)
  BY <1>1, FirstKeeps
<1>2. CASE NextByte
  BY <1>2, NextKeeps, LastKeeps
<1>3. CASE IdleByte
  BY <1>3, IdleKeeps
<1>4. CASE Task
  BY <1>4, TakeKeeps, CopyKeeps, ResetKeeps, DoneKeeps, CheckedKeeps DEF Task
<1>5. CASE UNCHANGED vars
  BY <1>5 DEF vars, received, history, IInv, TypeOK, Reception, Idle, Coming, Ready, Copying, Copied, Lies
<1> QED
  BY <1>1, <1>2, <1>3, <1>4, <1>5 DEF Next

LEMMA InvariantHolds == Spec => []IInv
BY InitCorrect, StepCorrect, PTL DEF Spec

\* For any ring more than two packets long, any packets and receptions, the
\* indices of interrupt and task stay in their buffers (pdline.c:474-494,
\* 593-622).
THEOREM TypeCorrect == Spec => []TypeOK
<1>1. IInv => TypeOK
  BY DEF IInv
<1> QED
  BY <1>1, InvariantHolds, PTL

\* For all of them a packet that lies in the ring by itself is handed on as it
\* came, wherever the bytes of the next reception fall between the statements
\* of the copy (pdline.c:474-494, 593-622).
THEOREM HandedOnWhole == Spec => HandsOnWhole
<1>1. ASSUME IInv, Next, pc # "check", pc' = "check", ok, Len(whole) <= MAX_PRPH_BUF
      PROVE  /\ pdline_i = Len(whole)
             /\ \A k \in 1 .. Len(whole) : prph_data_buf[k - 1] = whole[k]
  <2> USE Sizes
  <2>0. TypeOK /\ Ready /\ Reception
    BY <1>1 DEF IInv
  <2>1. Len(whole) \in Nat
    BY <2>0, Packets DEF TypeOK
  <2>2. CASE Reset
    <3>1. pc = "reset" /\ pdline_i = MAX_PRPH_BUF
      BY <2>0, <2>2 DEF Reset, Reception
    <3>2. Len(whole) = MAX_PRPH_BUF /\ \A j \in Buffer : prph_data_buf[j] = whole[j + 1]
      BY <1>1, <2>0, <3>1 DEF Ready
    <3>3. ASSUME NEW k \in 1 .. Len(whole) PROVE k - 1 \in Buffer /\ (k - 1) + 1 = k
      BY <2>1, <3>2
    <3> QED
      BY <3>1, <3>2, <3>3
  <2>3. CASE CopyDone
    <3>1. pc = "copy" /\ prph_rx_tail = prph_pkt_vect /\ pc # "reset" /\ Copied = pdline_i
      BY <2>3 DEF CopyDone, Copied
    <3>2. /\ pdline_i <= Len(whole)
          /\ prph_pkt_vect = At(prph_rx_tail, Len(whole) - pdline_i)
          /\ \A j \in Buffer : j < pdline_i => prph_data_buf[j] = whole[j + 1]
      BY <1>1, <2>0, <3>1 DEF Ready
    <3>3. pdline_i \in Nat /\ prph_rx_tail \in Ring /\ pdline_i < MAX_PRPH_BUF
      BY <2>0, <3>1 DEF TypeOK
    <3>4. pdline_i = Len(whole)
      BY <1>1, <2>1, <3>1, <3>2, <3>3 DEF At
    <3>5. ASSUME NEW k \in 1 .. Len(whole)
          PROVE  k - 1 \in Buffer /\ k - 1 < pdline_i /\ (k - 1) + 1 = k
      BY <2>1, <3>3, <3>4
    <3> QED
      BY <3>2, <3>4, <3>5
  <2>4. ~(pc' = pc)
    BY <1>1
  <2>5. ~ \E p \in Packet : FirstByte(p)
    BY <2>4 DEF FirstByte, EndOfByte
  <2>6. ~NextByte /\ ~IdleByte
    BY <2>4 DEF NextByte, IdleByte, EndOfByte
  <2>7. ~Take /\ ~CopyByte /\ ~Checked
    BY <1>1 DEF Take, CopyByte, Checked
  <2> QED
    BY <1>1, <2>2, <2>3, <2>5, <2>6, <2>7 DEF Next, Task
<1>2. IInv /\ [Next]_vars =>
          [pc # "check" /\ pc' = "check" /\ ok /\ Len(whole) <= MAX_PRPH_BUF =>
               /\ pdline_i = Len(whole)
               /\ \A k \in 1 .. Len(whole) : prph_data_buf[k - 1] = whole[k]]_vars
  BY <1>1
<1> QED
  BY <1>2, InvariantHolds, PTL DEF Spec, HandsOnWhole
=============================================================================
