--------------------------- MODULE Eeprom_proofs ---------------------------
(***************************************************************************)
(* What holds of the EEPROM for any settings and any tasks: of the table   *)
(* of settings in it (Storage) and of the bus it shares with the flash     *)
(* (SpiCoordinator).  A scan goes along the entries as far as they reach,  *)
(* and what is said of it is shown by counting its steps: least elements   *)
(* of sets of numbers stand in for induction.                              *)
(***************************************************************************)
EXTENDS Storage, SpiCoordinator, WellFoundedInduction, TLAPS

-----------------------------------------------------------------------------
(* Least elements and counting up, for a set where the library has an operator *)

\* A set of natural numbers has a least element.
LEMMA LeastNatural ==
    ASSUME NEW T, T \subseteq Nat, T # {}
    PROVE  \E n \in T : \A m \in T : n <= m
<1> DEFINE R == {pair \in Nat \X Nat : pair[1] < pair[2]}
<1>1. OpToRel(<, Nat) = R
  BY DEF OpToRel
<1>2. IsWellFoundedOn(R, Nat)
  BY <1>1, NatLessThanWellFounded
<1>3. PICK n \in T : \A m \in T : ~(<<m, n>> \in R)
  <2> HIDE DEF R
  <2> QED
    BY <1>2, WFMin
<1>4. ASSUME NEW m \in T PROVE n <= m
  <2>1. <<m, n>> \notin R /\ m \in Nat /\ n \in Nat
    BY <1>3
  <2> QED
    BY <2>1
<1> QED
  BY <1>4

\* A set that holds 0 and with each number below K the next one holds all up to K.
LEMMA CountUp ==
    ASSUME NEW S, NEW K \in Nat, 0 \in S, \A n \in 0 .. K - 1 : n \in S => n + 1 \in S
    PROVE  0 .. K \subseteq S
<1> SUFFICES ASSUME ~(0 .. K \subseteq S) PROVE FALSE
  OBVIOUS
<1> DEFINE T == {n \in 0 .. K : n \notin S}
<1>1. T \subseteq Nat /\ T # {}
  OBVIOUS
<1>2. PICK n \in T : \A m \in T : n <= m
  <2> HIDE DEF T
  <2> QED
    BY <1>1, LeastNatural
<1>3. n \in 0 .. K /\ n # 0 /\ n \notin S
  BY <1>2
<1>4. n - 1 \in 0 .. K - 1 /\ n - 1 \notin T
  BY <1>2, <1>3
<1> QED
  BY <1>3, <1>4

-----------------------------------------------------------------------------
(* The cells of the EEPROM and the steps of a scan *)

Content == {FREE} \cup {Header(len) : len \in Nat} \cup {NameOf(k) : k \in Key}
           \cup {Data(v, i) : v \in Value, i \in Nat}
Memory == [Cell -> Content]

\* The kinds of cells differ, and each says what it was made of.
LEMMA Cells ==
    /\ FREE \in Content /\ FREE.kind # "header"
    /\ \A len \in Nat : Header(len) \in Content /\ Header(len).kind = "header" /\ Header(len).len = len
    /\ \A k \in Key : NameOf(k) \in Content /\ NameOf(k).kind # "header" /\ NameOf(k) # FREE
    /\ \A v \in Value, i \in Nat :
          Data(v, i) \in Content /\ Data(v, i).kind # "header" /\ Data(v, i) # FREE
    /\ \A k, j \in Key : NameOf(k) = NameOf(j) => k = j
    /\ \A v, w \in Value, i, j \in Nat : Data(v, i) = Data(w, j) => v = w
    /\ \A c \in Content : c.kind = "header" => c.len \in Nat /\ c = Header(c.len)
<1>1. FREE \in Content /\ FREE.kind # "header"
  BY DEF FREE, Content
<1>2. \A len \in Nat : Header(len) \in Content /\ Header(len).kind = "header" /\ Header(len).len = len
  BY DEF Header, Content
<1>3. ASSUME NEW k \in Key
      PROVE  NameOf(k) \in Content /\ NameOf(k).kind # "header" /\ NameOf(k) # FREE
  <2>1. NameOf(k).kind = "name" /\ FREE.kind = "free"
    BY DEF NameOf, FREE
  <2> QED
    BY <2>1 DEF Content
<1>4. ASSUME NEW v \in Value, NEW i \in Nat
      PROVE  Data(v, i) \in Content /\ Data(v, i).kind # "header" /\ Data(v, i) # FREE
  <2>1. Data(v, i).kind = "data" /\ FREE.kind = "free"
    BY DEF Data, FREE
  <2> QED
    BY <2>1 DEF Content
<1>5. \A k, j \in Key : NameOf(k) = NameOf(j) => k = j
  <2> SUFFICES ASSUME NEW k \in Key, NEW j \in Key, NameOf(k) = NameOf(j) PROVE k = j
    OBVIOUS
  <2>1. NameOf(k).key = k /\ NameOf(j).key = j
    BY DEF NameOf
  <2> QED
    BY <2>1
<1>6. \A v, w \in Value, i, j \in Nat : Data(v, i) = Data(w, j) => v = w
  <2> SUFFICES ASSUME NEW v \in Value, NEW w \in Value, NEW i \in Nat, NEW j \in Nat,
                      Data(v, i) = Data(w, j)
               PROVE  v = w
    OBVIOUS
  <2>1. Data(v, i).val = v /\ Data(w, j).val = w
    BY DEF Data
  <2> QED
    BY <2>1
<1>7. \A c \in Content : c.kind = "header" => c.len \in Nat /\ c = Header(c.len)
  BY DEF FREE, Header, NameOf, Data, Content
<1> QED
  BY <1>1, <1>2, <1>3, <1>4, <1>5, <1>6, <1>7

\* A step of a scan stays where no header is, and passes by two cells at least.
LEMMA BehindHeader ==
    ASSUME NEW m \in Memory, NEW p \in Nat \ {0}
    PROVE  /\ Behind(m)[p] \in Nat \ {0} /\ Behind(m)[p] >= p
           /\ IsHeader(m, p) => /\ p \in Cell /\ m[p].len \in Nat /\ m[p] = Header(m[p].len)
                                /\ Behind(m)[p] = p + 2 + m[p].len
           /\ ~IsHeader(m, p) => Behind(m)[p] = p
<1>1. CASE IsHeader(m, p)
  <2>1. p \in Cell
    BY <1>1, SizeAssumption DEF IsHeader, Cell
  <2>2. m[p] \in Content
    BY <2>1 DEF Memory
  <2>3. m[p].len \in Nat /\ m[p] = Header(m[p].len)
    BY <1>1, <2>2, Cells DEF IsHeader
  <2>4. Behind(m)[p] = p + 2 + m[p].len
    BY <1>1, <2>3 DEF Behind, EntrySize
  <2> QED
    BY <1>1, <2>1, <2>3, <2>4
<1>2. CASE ~IsHeader(m, p)
  BY <1>2 DEF Behind
<1> QED
  BY <1>1, <1>2

-----------------------------------------------------------------------------
(* The addresses of a scan, as the least set that its steps do not leave *)

SeenNext(m, S) == UNION {{p, Behind(m)[p]} : p \in S}
Seen(m, K, f) == /\ f = [n \in 0 .. K |-> f[n]]
                 /\ f[0] = {1} /\ \A n \in 0 .. K - 1 : f[n + 1] = SeenNext(m, f[n])

\* The recursive definition of what is seen has a solution for any number of steps.
LEMMA SeenExists == ASSUME NEW m, NEW K \in Nat PROVE \E f : Seen(m, K, f)
<1> DEFINE S == {n \in 0 .. K : \E f : Seen(m, n, f)}
<1>1. 0 \in S
  <2>1. Seen(m, 0, [n \in 0 .. 0 |-> {1}])
    BY DEF Seen
  <2> QED
    BY <2>1
<1>2. ASSUME NEW n \in 0 .. K - 1, n \in S PROVE n + 1 \in S
  <2>1. PICK f : Seen(m, n, f)
    BY <1>2
  <2> DEFINE g == [j \in 0 .. n + 1 |-> IF j = n + 1 THEN SeenNext(m, f[n]) ELSE f[j]]
  <2>2. g = [j \in 0 .. n + 1 |-> g[j]] /\ g[0] = {1}
    BY <2>1 DEF Seen
  <2>3. ASSUME NEW j \in 0 .. n PROVE g[j + 1] = SeenNext(m, g[j])
    <3>1. CASE j = n
      BY <3>1
    <3>2. CASE j # n
      <4>1. j \in 0 .. n - 1 /\ g[j + 1] = f[j + 1] /\ g[j] = f[j]
        BY <3>2
      <4>2. f[j + 1] = SeenNext(m, f[j])
        BY <4>1, <2>1, Zenon DEF Seen
      <4> QED
        BY <4>1, <4>2
    <3> QED
      BY <3>1, <3>2
  <2> HIDE DEF g
  <2>4. \A j \in 0 .. (n + 1) - 1 : g[j + 1] = SeenNext(m, g[j])
    BY <2>3
  <2>5. Seen(m, n + 1, g)
    BY <2>2, <2>4 DEF Seen
  <2> QED
    BY <2>5
<1>3. 0 .. K \subseteq S
  <2> HIDE DEF S
  <2> QED
    BY <1>1, <1>2, CountUp
<1> QED
  BY <1>3

\* Addresses is the last of the sets that the recursion defines.
LEMMA AddressesSeen ==
    ASSUME NEW m
    PROVE  Steps \in Nat /\ \E f : Seen(m, Steps, f) /\ Addresses(m) = f[Steps]
<1>0. Steps \in Nat
  BY SizeAssumption DEF Steps
<1> DEFINE Solves(g) ==
        g = [n \in 0 .. Steps |->
                 IF n = 0 THEN {1} ELSE UNION {{p, Behind(m)[p]} : p \in g[n - 1]}]
           seen == CHOOSE g : Solves(g)
<1>1. PICK f : Seen(m, Steps, f)
  BY <1>0, SeenExists
<1>2. Solves(f)
  <2>1. ASSUME NEW n \in 0 .. Steps
        PROVE  f[n] = IF n = 0 THEN {1} ELSE UNION {{p, Behind(m)[p]} : p \in f[n - 1]}
    <3>1. CASE n = 0
      BY <3>1, <1>1 DEF Seen
    <3>2. CASE n # 0
      <4>1. n - 1 \in 0 .. Steps - 1 /\ (n - 1) + 1 = n
        BY <3>2, <1>0
      <4>2. f[(n - 1) + 1] = SeenNext(m, f[n - 1])
        BY <4>1, <1>1, Zenon DEF Seen
      <4> QED
        BY <4>1, <4>2, <3>2 DEF SeenNext
    <3> QED
      BY <3>1, <3>2
  <2>2. f = [n \in 0 .. Steps |-> f[n]]
    BY <1>1 DEF Seen
  <2> QED
    BY <2>1, <2>2, Zenon
<1>3. Solves(seen)
  <2> HIDE DEF Solves
  <2> QED
    BY <1>2, Zenon
<1>4. Addresses(m) = seen[Steps]
  BY Zenon DEF Addresses
<1>5. seen[0] = {1}
  <2> HIDE DEF seen
  <2> QED
    BY <1>3, <1>0
<1>6. ASSUME NEW n \in 0 .. Steps - 1 PROVE seen[n + 1] = SeenNext(m, seen[n])
  <2> HIDE DEF seen
  <2>1. n + 1 \in 0 .. Steps /\ n + 1 # 0 /\ (n + 1) - 1 = n
    BY <1>0
  <2> QED
    BY <2>1, <1>3, Zenon DEF SeenNext
<1>7. seen = [n \in 0 .. Steps |-> seen[n]]
  <2> HIDE DEF seen
  <2> QED
    BY <1>3
<1> HIDE DEF seen
<1> QED
  BY <1>0, <1>4, <1>5, <1>6, <1>7 DEF Seen

\* Every address that is seen is followed by the next one, which is seen as well,
\* or lies as far behind as the steps taken.
LEMMA SeenBounds ==
    ASSUME NEW m \in Memory, NEW K \in Nat, NEW f, Seen(m, K, f)
    PROVE  \A n \in 0 .. K : /\ f[n] \subseteq Nat \ {0} /\ 1 \in f[n]
                            /\ \A p \in f[n] : Behind(m)[p] \in f[n] \/ p >= 1 + 2 * n
<1> DEFINE Bounded(n) == /\ f[n] \subseteq Nat \ {0} /\ 1 \in f[n]
                         /\ \A p \in f[n] : Behind(m)[p] \in f[n] \/ p >= 1 + 2 * n
           S == {n \in 0 .. K : Bounded(n)}
<1>1. 0 \in S
  BY DEF Seen
<1>2. ASSUME NEW n \in 0 .. K - 1, n \in S PROVE n + 1 \in S
  <2>1. Bounded(n)
    BY <1>2
  <2>2. f[n + 1] = UNION {{p, Behind(m)[p]} : p \in f[n]}
    BY Zenon DEF Seen, SeenNext
  <2>3. f[n] \subseteq f[n + 1] /\ \A p \in f[n] : Behind(m)[p] \in f[n + 1]
    BY <2>2
  <2>4. f[n + 1] \subseteq Nat \ {0} /\ 1 \in f[n + 1]
    <3>1. ASSUME NEW p \in f[n] PROVE p \in Nat \ {0} /\ Behind(m)[p] \in Nat \ {0}
      BY <2>1, BehindHeader
    <3> QED
      BY <3>1, <2>1, <2>2, <2>3
  <2>5. ASSUME NEW q \in f[n + 1] PROVE Behind(m)[q] \in f[n + 1] \/ q >= 1 + 2 * (n + 1)
    <3>1. CASE q \in f[n]
      BY <3>1, <2>3
    <3>2. CASE q \notin f[n]
      <4>1. PICK p \in f[n] : q = Behind(m)[p]
        BY <3>2, <2>2
      <4>2. p \in Nat \ {0} /\ p >= 1 + 2 * n /\ q # p
        BY <4>1, <3>2, <2>1
      <4>3. IsHeader(m, p) /\ m[p].len \in Nat /\ q = p + 2 + m[p].len
        BY <4>1, <4>2, BehindHeader
      <4> QED
        BY <4>2, <4>3
    <3> QED
      BY <3>1, <3>2
  <2> QED
    BY <2>4, <2>5
<1>3. 0 .. K \subseteq S
  <2> HIDE DEF S
  <2> QED
    BY <1>1, <1>2, CountUp
<1> QED
  BY <1>3

\* A scan never looks at an address that it can be kept out of.
LEMMA SeenLeast ==
    ASSUME NEW m, NEW K \in Nat, NEW f, Seen(m, K, f),
           NEW S, 1 \in S, \A p \in S : Behind(m)[p] \in S
    PROVE  f[K] \subseteq S
<1> DEFINE T == {n \in 0 .. K : f[n] \subseteq S}
<1>1. 0 \in T
  BY DEF Seen
<1>2. ASSUME NEW n \in 0 .. K - 1, n \in T PROVE n + 1 \in T
  <2>1. f[n + 1] = UNION {{p, Behind(m)[p]} : p \in f[n]}
    BY Zenon DEF Seen, SeenNext
  <2> QED
    BY <2>1, <1>2
<1>3. 0 .. K \subseteq T
  <2> HIDE DEF T
  <2> QED
    BY <1>1, <1>2, CountUp
<1> QED
  BY <1>3

\* The addresses are numbers from 1 on, with each the next one is an address.
LEMMA AddressesClosed ==
    ASSUME NEW m \in Memory
    PROVE  /\ Addresses(m) \subseteq Nat \ {0} /\ 1 \in Addresses(m)
           /\ \A p \in Addresses(m) : Behind(m)[p] \in Addresses(m)
<1>1. PICK f : Seen(m, Steps, f) /\ Addresses(m) = f[Steps]
  BY AddressesSeen
<1>2. Steps \in Nat /\ 1 + 2 * Steps >= EEPROM_SIZE
  BY SizeAssumption DEF Steps
<1>3. /\ f[Steps] \subseteq Nat \ {0} /\ 1 \in f[Steps]
      /\ \A p \in f[Steps] : Behind(m)[p] \in f[Steps] \/ p >= 1 + 2 * Steps
  BY <1>1, <1>2, SeenBounds
<1>4. ASSUME NEW p \in f[Steps], p >= 1 + 2 * Steps PROVE Behind(m)[p] = p
  <2>1. p \in Nat \ {0} /\ ~IsHeader(m, p)
    BY <1>2, <1>3, <1>4, SizeAssumption DEF IsHeader
  <2> QED
    BY <2>1, BehindHeader
<1> QED
  BY <1>1, <1>3, <1>4

\* No other set with these two properties is smaller.
LEMMA AddressesLeast ==
    ASSUME NEW m \in Memory,
           NEW S, 1 \in S, \A p \in S \cap Addresses(m) : Behind(m)[p] \in S
    PROVE  Addresses(m) \subseteq S
<1> DEFINE T == S \cap Addresses(m)
<1>1. 1 \in T /\ \A p \in T : Behind(m)[p] \in T
  BY AddressesClosed
<1>2. PICK f : Seen(m, Steps, f) /\ Addresses(m) = f[Steps]
  BY AddressesSeen
<1>3. f[Steps] \subseteq T
  <2> HIDE DEF T
  <2> QED
    BY <1>1, <1>2, AddressesSeen, SeenLeast
<1> QED
  BY <1>2, <1>3

\* Every address but the last is that of an entry, and the next one lies behind
\* the whole entry.
LEMMA EntriesApart ==
    ASSUME NEW m \in Memory
    PROVE  \A p, q \in Addresses(m) : q < p => IsHeader(m, q) /\ Behind(m)[q] <= p
<1> DEFINE A == Addresses(m)
           Apart(p) == \A q \in A : q < p => IsHeader(m, q) /\ Behind(m)[q] <= p
           S == {p \in A : Apart(p)}
<1>1. A \subseteq Nat \ {0} /\ 1 \in A /\ \A p \in A : Behind(m)[p] \in A
  BY AddressesClosed
<1>2. 1 \in S
  BY <1>1
<1>3. ASSUME NEW p \in S PROVE Behind(m)[p] \in S
  <2>1. p \in A /\ p \in Nat \ {0} /\ Apart(p) /\ Behind(m)[p] \in A
    BY <1>1
  <2>2. CASE ~IsHeader(m, p)
    BY <2>1, <2>2, BehindHeader
  <2>3. CASE IsHeader(m, p)
    <3> DEFINE b == Behind(m)[p]
               T == {q \in Nat : q <= p \/ q >= b}
    <3>1. b \in Nat /\ b > p
      BY <2>1, <2>3, BehindHeader
    <3>2. A \subseteq T
      <4>1. 1 \in T
        BY <2>1
      <4>2. ASSUME NEW q \in T \cap A PROVE Behind(m)[q] \in T
        <5>1. q \in Nat \ {0} /\ q \in A /\ Behind(m)[q] \in Nat /\ Behind(m)[q] >= q
          BY <1>1, BehindHeader
        <5>2. CASE q < p
          BY <5>1, <5>2, <2>1
        <5>3. CASE q = p
          BY <5>1, <5>3
        <5>4. CASE q >= b
          BY <5>1, <5>4, <3>1
        <5> QED
          BY <5>1, <5>2, <5>3, <5>4, <2>1
      <4> HIDE DEF T
      <4> QED
        BY <4>1, <4>2, AddressesLeast
    <3>3. ASSUME NEW q \in A, q < b PROVE IsHeader(m, q) /\ Behind(m)[q] <= b
      <4>1. q \in Nat \ {0} /\ q <= p
        BY <3>1, <3>2, <3>3, <1>1
      <4>2. CASE q = p
        BY <4>2, <2>3, <3>1
      <4>3. CASE q < p
        <5>1. IsHeader(m, q) /\ Behind(m)[q] <= p /\ Behind(m)[q] \in Nat
          BY <4>1, <4>3, <2>1, BehindHeader
        <5> QED
          BY <5>1, <3>1, <2>1
      <4> QED
        BY <4>1, <4>2, <4>3, <2>1
    <3> QED
      BY <2>1, <3>3
  <2> QED
    BY <2>2, <2>3
<1>4. A \subseteq S
  <2> HIDE DEF S
  <2>1. \A p \in S \cap Addresses(m) : Behind(m)[p] \in S
    BY <1>3
  <2> QED
    BY <1>2, <2>1, AddressesLeast
<1> QED
  BY <1>4

\* A scan that is not misled ends behind the last entry.
LEMMA EndLast ==
    ASSUME NEW m \in Memory
    PROVE  /\ End(m) \in Addresses(m) /\ ~IsHeader(m, End(m))
           /\ \A p \in Addresses(m) : p <= End(m)
<1> DEFINE A == Addresses(m)
<1>1. A \subseteq Nat \ {0} /\ 1 \in A /\ \A p \in A : Behind(m)[p] \in A
  BY AddressesClosed
<1>2. PICK e \in A : ~IsHeader(m, e)
  <2> SUFFICES ASSUME \A p \in A : IsHeader(m, p) PROVE FALSE
    OBVIOUS
  <2> DEFINE T == {EEPROM_SIZE - p : p \in A}
  <2>1. \A p \in A : p \in Nat \ {0} /\ p <= EEPROM_SIZE /\ Behind(m)[p] > p
    <3>1. ASSUME NEW p \in A PROVE p \in Nat \ {0} /\ p <= EEPROM_SIZE /\ Behind(m)[p] > p
      <4>1. p \in Nat \ {0} /\ IsHeader(m, p)
        BY <1>1
      <4>2. p \in Cell /\ m[p].len \in Nat /\ Behind(m)[p] = p + 2 + m[p].len
        BY <4>1, BehindHeader
      <4> QED
        BY <4>1, <4>2, SizeAssumption DEF Cell
    <3> QED
      BY <3>1
  <2>2. T \subseteq Nat /\ T # {}
    BY <2>1, <1>1, SizeAssumption
  <2>3. PICK n \in T : \A o \in T : n <= o
    <3> HIDE DEF T
    <3> QED
      BY <2>2, LeastNatural
  <2>4. PICK p \in A : n = EEPROM_SIZE - p
    BY <2>3
  <2>5. Behind(m)[p] \in A /\ EEPROM_SIZE - Behind(m)[p] \in T
    BY <1>1
  <2>6. p \in Nat /\ Behind(m)[p] \in Nat /\ Behind(m)[p] > p
    BY <2>1, <1>1
  <2>7. n <= EEPROM_SIZE - Behind(m)[p]
    <3> HIDE DEF T
    <3> QED
      BY <2>3, <2>5
  <2> HIDE DEF A, T
  <2> QED
    BY <2>4, <2>6, <2>7, SizeAssumption
<1>3. \A p \in A : p <= e
  BY <1>1, <1>2, EntriesApart
<1>4. Max(A) = e
  <2>1. \A p \in A : e >= p
    BY <1>1, <1>3
  <2>2. \A x \in A : (\A y \in A : x >= y) => x = e
    BY <1>1, <2>1
  <2> HIDE DEF A
  <2> QED
    BY <2>1, <2>2, Zenon DEF Max
<1> QED
  BY <1>2, <1>3, <1>4 DEF End

-----------------------------------------------------------------------------
(* What a write changes in the list of entries *)

\* m2 is m with x written to c.
Written(m, m2, c, x) == m2 \in Memory /\ m2[c] = x /\ \A p \in Cell : p # c => m2[p] = m[p]

\* An assignment to a cell is such a write.
LEMMA Writes ==
    ASSUME NEW m \in Memory, NEW c \in Cell, NEW x \in Content
    PROVE  Written(m, [m EXCEPT ![c] = x], c, x)
BY DEF Written, Memory

\* Behind the last entry nothing was ever written.
TailFree(m) == \A p \in Cell : p >= End(m) => m[p] = FREE

\* Memories whose headers agree along the scan of one have the same addresses.
LEMMA SameScan ==
    ASSUME NEW m \in Memory, NEW m2 \in Memory,
           \A p \in Addresses(m) : Behind(m2)[p] = Behind(m)[p]
    PROVE  Addresses(m2) = Addresses(m) /\ End(m2) = End(m)
<1>1. 1 \in Addresses(m) /\ 1 \in Addresses(m2)
  BY AddressesClosed
<1>2. Addresses(m2) \subseteq Addresses(m)
  <2>1. \A p \in Addresses(m) \cap Addresses(m2) : Behind(m2)[p] \in Addresses(m)
    BY AddressesClosed
  <2> QED
    BY <1>1, <2>1, AddressesLeast
<1>3. Addresses(m) \subseteq Addresses(m2)
  <2>1. \A p \in Addresses(m2) \cap Addresses(m) : Behind(m)[p] \in Addresses(m2)
    BY AddressesClosed
  <2> QED
    BY <1>1, <2>1, AddressesLeast
<1> QED
  BY <1>2, <1>3 DEF End

\* Which entries a key has, and what it reads as, depends only on its entries.
LEMMA SameStored ==
    ASSUME NEW m \in Memory, NEW m2 \in Memory, NEW k \in Key,
           EntriesOf(m2, k) = EntriesOf(m, k),
           \A p \in EntriesOf(m, k) : m2[p] = m[p] /\
               \A i \in Nat \ {0} : i <= m[p].len /\ p + 1 + i <= EEPROM_SIZE
                                   => m2[p + 1 + i] = m[p + 1 + i]
    PROVE  Stored(m2, k) = Stored(m, k)
<1> DEFINE E == EntriesOf(m, k)
           p == Min(E)
<1>1. CASE E = {}
  BY <1>1 DEF Stored
<1>2. CASE E # {}
  <2>1. E \subseteq Nat \ {0}
    BY AddressesClosed DEF EntriesOf
  <2>2. p \in E /\ p \in Nat
    <3>1. \E n \in E : \A o \in E : n <= o
      BY <1>2, <2>1, LeastNatural
    <3>2. Min(E) \in E
      <4> HIDE DEF E
      <4> QED
        BY <3>1, Zenon DEF Min
    <3> QED
      BY <3>2, <2>1
  <2>3. Stored(m, k) = ValueAt(m)[p] /\ Stored(m2, k) = ValueAt(m2)[p]
    BY <1>2 DEF Stored, EntryAddr
  <2> HIDE DEF p
  <2> DEFINE Reads(n) == {v \in Value : /\ n[p].len = LengthOf[v]
                                        /\ p + 1 + LengthOf[v] <= EEPROM_SIZE
                                        /\ \A i \in 1 .. LengthOf[v] : n[p + 1 + i] = Data(v, i)}
  <2>4. Reads(m) = Reads(m2)
    <3>1. m2[p] = m[p]
      BY <2>2
    <3>2. ASSUME NEW v \in Value, m[p].len = LengthOf[v], p + 1 + LengthOf[v] <= EEPROM_SIZE
          PROVE  \A i \in 1 .. LengthOf[v] : m2[p + 1 + i] = m[p + 1 + i]
      <4>1. LengthOf[v] \in Nat
        BY ValueAssumption
      <4>2. ASSUME NEW i \in 1 .. LengthOf[v]
            PROVE  i \in Nat \ {0} /\ i <= m[p].len /\ p + 1 + i <= EEPROM_SIZE
        BY <4>1, <3>2, <2>2, SizeAssumption
      <4> QED
        BY <4>2, <2>2
    <3> QED
      BY <3>1, <3>2
  <2>5. \A n : ValueAt(n)[p] = IF Reads(n) = {} THEN Corrupt ELSE CHOOSE v \in Reads(n) : TRUE
    BY <2>2 DEF ValueAt
  <2> HIDE DEF Reads
  <2> QED
    BY <2>3, <2>4, <2>5
<1> QED
  BY <1>1, <1>2

\* A write within an entry, behind its header, leaves the list of entries as it is,
\* and every key that the entry is not of.
LEMMA WithinEntry ==
    ASSUME NEW m \in Memory, NEW a \in Addresses(m), IsHeader(m, a),
           NEW c \in Cell, a < c, c < Behind(m)[a], NEW x, NEW m2, Written(m, m2, c, x)
    PROVE  /\ Addresses(m2) = Addresses(m) /\ End(m2) = End(m)
           /\ TailFree(m) => TailFree(m2)
           /\ \A p \in Addresses(m) : IsHeader(m2, p) <=> IsHeader(m, p)
           /\ \A p \in Addresses(m), k \in Key : p # a => (Matches(m2, p, k) <=> Matches(m, p, k))
           /\ \A k \in Key : ~Matches(m, a, k) /\ ~Matches(m2, a, k)
                            => EntriesOf(m2, k) = EntriesOf(m, k) /\ Stored(m2, k) = Stored(m, k)
<1> DEFINE A == Addresses(m)
<1>0. A \subseteq Nat \ {0} /\ a \in Nat \ {0} /\ c \in Nat
  BY AddressesClosed DEF Cell
<1>1. m2 \in Memory
  BY DEF Written
<1>2. \A p \in Cell : p # c => m2[p] = m[p]
  BY DEF Written
<1>3. ASSUME NEW p \in A, p # a
      PROVE  /\ p # c
             /\ IsHeader(m, p) => /\ p + 1 # c
                                  /\ \A i \in Nat \ {0} : i <= m[p].len => p + 1 + i # c
  <2>1. p \in Nat \ {0} /\ Behind(m)[a] \in Nat
    BY <1>0, BehindHeader
  <2>2. CASE p < a
    <3>1. IsHeader(m, p) /\ Behind(m)[p] <= a
      BY <2>2, EntriesApart
    <3>2. m[p].len \in Nat /\ Behind(m)[p] = p + 2 + m[p].len
      BY <2>1, <3>1, BehindHeader
    <3> QED
      BY <1>0, <2>1, <2>2, <3>1, <3>2
  <2>3. CASE a < p
    <3>1. Behind(m)[a] <= p
      BY <2>3, EntriesApart
    <3> QED
      BY <1>0, <2>1, <2>3, <3>1
  <2> QED
    BY <1>0, <2>1, <2>2, <2>3, <1>3
<1>4. ASSUME NEW p \in A PROVE p # c /\ (p \in Cell => m2[p] = m[p])
  BY <1>0, <1>2, <1>3
<1>5. ASSUME NEW p \in A
      PROVE  (IsHeader(m2, p) <=> IsHeader(m, p)) /\ Behind(m2)[p] = Behind(m)[p]
  <2>1. p \in Nat \ {0}
    BY <1>0
  <2>2. p < EEPROM_SIZE => m2[p] = m[p]
    BY <2>1, <1>4, SizeAssumption DEF Cell
  <2>3. IsHeader(m2, p) <=> IsHeader(m, p)
    BY <2>2 DEF IsHeader
  <2> QED
    BY <2>1, <2>2, <2>3 DEF Behind, IsHeader
<1>6. Addresses(m2) = A /\ End(m2) = End(m)
  BY <1>1, <1>5, SameScan
<1>7. ASSUME TailFree(m) PROVE TailFree(m2)
  <2>1. Behind(m)[a] \in A /\ Behind(m)[a] <= End(m) /\ End(m) \in Nat /\ Behind(m)[a] \in Nat
    BY AddressesClosed, EndLast, <1>0
  <2>2. \A p \in Cell : p >= End(m) => p # c
    BY <2>1, <1>0 DEF Cell
  <2> QED
    BY <2>2, <1>2, <1>6, <1>7 DEF TailFree
<1>8. ASSUME NEW p \in A, NEW k \in Key, p # a PROVE Matches(m2, p, k) <=> Matches(m, p, k)
  <2>1. p \in Nat \ {0}
    BY <1>0
  <2>2. CASE IsHeader(m, p)
    <3>1. p + 1 \in Cell /\ p + 1 # c
      BY <2>1, <2>2, <1>3, <1>8, SizeAssumption DEF IsHeader, Cell
    <3>2. m2[p + 1] = m[p + 1]
      BY <3>1, <1>2
    <3> QED
      BY <3>2, <1>5 DEF Matches
  <2> QED
    BY <2>2, <1>5 DEF Matches
<1>9. ASSUME NEW k \in Key, ~Matches(m, a, k), ~Matches(m2, a, k)
      PROVE  EntriesOf(m2, k) = EntriesOf(m, k) /\ Stored(m2, k) = Stored(m, k)
  <2>1. EntriesOf(m2, k) = EntriesOf(m, k)
    BY <1>6, <1>8, <1>9 DEF EntriesOf
  <2>2. ASSUME NEW p \in EntriesOf(m, k)
        PROVE  m2[p] = m[p] /\ \A i \in Nat \ {0} : i <= m[p].len /\ p + 1 + i <= EEPROM_SIZE
                                   => m2[p + 1 + i] = m[p + 1 + i]
    <3>1. p \in A /\ p # a /\ IsHeader(m, p) /\ p \in Nat \ {0}
      BY <1>0, <1>9 DEF EntriesOf, Matches
    <3>2. p \in Cell /\ m[p].len \in Nat
      BY <3>1, BehindHeader
    <3>3. m2[p] = m[p]
      BY <3>1, <3>2, <1>4
    <3>4. ASSUME NEW i \in Nat \ {0}, i <= m[p].len, p + 1 + i <= EEPROM_SIZE
          PROVE  m2[p + 1 + i] = m[p + 1 + i]
      <4>1. p + 1 + i # c
        BY <3>1, <3>4, <1>3
      <4>2. p + 1 + i \in Cell
        BY <3>1, <3>4, SizeAssumption DEF Cell
      <4> QED
        BY <4>1, <4>2, <1>2
    <3> QED
      BY <3>3, <3>4
  <2> QED
    BY <1>1, <2>1, <2>2, SameStored
<1> QED
  BY <1>1, <1>5, <1>6, <1>7, <1>8, <1>9

\* A header written behind the last entry adds one of no key.
LEMMA AddEntry ==
    ASSUME NEW m \in Memory, TailFree(m), End(m) < EEPROM_SIZE, NEW len \in Nat,
           NEW m2, Written(m, m2, End(m), Header(len))
    PROVE  /\ TailFree(m2)
           /\ End(m) \in Cell /\ End(m) \in Addresses(m2)
           /\ IsHeader(m2, End(m)) /\ m2[End(m)] = Header(len)
           /\ \A p \in Cell : p > End(m) => m2[p] = FREE
           /\ \A k \in Key : EntriesOf(m2, k) = EntriesOf(m, k) /\ Stored(m2, k) = Stored(m, k)
<1> DEFINE A == Addresses(m)
           e == End(m)
           b == e + 2 + len
<1>0. /\ A \subseteq Nat \ {0} /\ e \in A /\ e \in Nat \ {0} /\ ~IsHeader(m, e)
      /\ \A p \in A : p <= e
  BY AddressesClosed, EndLast
<1>1. e \in Cell /\ b \in Nat \ {0} /\ b > e
  BY <1>0, SizeAssumption DEF Cell
<1>2. m2 \in Memory
  BY DEF Written
<1>3. m2[e] = Header(len) /\ \A p \in Cell : p # e => m2[p] = m[p]
  BY DEF Written
<1>4. \A p \in Cell : p > e => m2[p] = FREE
  BY <1>0, <1>3 DEF TailFree, Cell
<1>5. IsHeader(m2, e) /\ Behind(m2)[e] = b
  <2>1. IsHeader(m2, e)
    BY <1>3, Cells DEF IsHeader
  <2>2. m2[e].len = len
    BY <1>3, Cells
  <2>3. Behind(m2)[e] = e + 2 + m2[e].len
    BY <2>1, <1>0, <1>2, BehindHeader
  <2> QED
    BY <2>1, <2>2, <2>3
<1>6. ASSUME NEW p \in A, p # e
      PROVE  /\ p < e /\ IsHeader(m, p) /\ IsHeader(m2, p) /\ p \in Cell /\ m2[p] = m[p]
             /\ Behind(m2)[p] = Behind(m)[p] /\ p + 2 + m[p].len <= e /\ m[p].len \in Nat
  <2>1. p \in Nat \ {0} /\ p < e
    BY <1>0, <1>6
  <2>2. IsHeader(m, p) /\ Behind(m)[p] <= e
    BY <1>0, <2>1, EntriesApart
  <2>3. p \in Cell /\ m[p].len \in Nat /\ Behind(m)[p] = p + 2 + m[p].len
    BY <2>1, <2>2, BehindHeader
  <2>4. m2[p] = m[p]
    BY <2>3, <1>3, <1>6
  <2>5. IsHeader(m2, p)
    BY <2>2, <2>4 DEF IsHeader
  <2>6. Behind(m2)[p] = Behind(m)[p]
    BY <2>1, <2>2, <2>4, <2>5 DEF Behind
  <2> QED
    BY <2>1, <2>2, <2>3, <2>4, <2>5, <2>6
<1>7. ~IsHeader(m2, b) /\ Behind(m2)[b] = b
  <2>1. ~IsHeader(m2, b)
    BY <1>1, <1>4, Cells, SizeAssumption DEF IsHeader, Cell
  <2> QED
    BY <2>1, <1>1, <1>2, BehindHeader
<1>8. Addresses(m2) = A \cup {b}
  <2>1. Addresses(m2) \subseteq A \cup {b}
    <3>1. ASSUME NEW p \in A \cup {b} PROVE Behind(m2)[p] \in A \cup {b}
      <4>1. CASE p = e
        BY <4>1, <1>5
      <4>2. CASE p \in A /\ p # e
        BY <4>2, <1>6, AddressesClosed
      <4>3. CASE p = b
        BY <4>3, <1>7
      <4> QED
        BY <4>1, <4>2, <4>3
    <3>2. 1 \in A \cup {b}
      BY AddressesClosed
    <3> HIDE DEF A, b
    <3> QED
      BY <3>1, <3>2, <1>2, AddressesLeast
  <2>2. A \subseteq Addresses(m2)
    <3>1. ASSUME NEW p \in Addresses(m2) \cap A PROVE Behind(m)[p] \in Addresses(m2)
      <4>1. CASE p = e
        BY <4>1, <1>0, BehindHeader
      <4>2. CASE p # e
        BY <4>2, <1>2, <1>6, AddressesClosed
      <4> QED
        BY <4>1, <4>2
    <3>2. 1 \in Addresses(m2)
      BY <1>2, AddressesClosed
    <3> QED
      BY <3>1, <3>2, AddressesLeast
  <2>3. b \in Addresses(m2)
    BY <1>0, <1>2, <1>5, <2>2, AddressesClosed
  <2> QED
    BY <2>1, <2>2, <2>3
<1>9. End(m2) = b
  <2>1. End(m2) \in Addresses(m2) /\ End(m2) >= b
    BY <1>2, <1>8, EndLast
  <2>2. \A p \in A : p < b
    BY <1>0, <1>1
  <2> DEFINE last == End(m2)
  <2>3. last \in Nat
    BY <2>1, <1>0, <1>1, <1>8
  <2>4. ~(last \in A)
    <3>1. ASSUME last \in A PROVE last < b
      BY <2>2, <3>1
    <3>2. last >= b /\ b \in Nat
      BY <2>1, <1>1
    <3> HIDE DEF A, last, b, e
    <3> QED
      BY <3>1, <3>2, <2>3
  <2> HIDE DEF A, b, e
  <2> QED
    BY <2>1, <2>4, <1>8
<1>10. TailFree(m2)
  BY <1>1, <1>4, <1>9, <1>0 DEF TailFree, Cell
<1>11. ASSUME NEW k \in Key
       PROVE  EntriesOf(m2, k) = EntriesOf(m, k) /\ Stored(m2, k) = Stored(m, k)
  <2>1. ~Matches(m2, e, k)
    <3>1. e + 1 \in Cell
      BY <1>0, SizeAssumption DEF Cell
    <3>2. m2[e + 1] = FREE
      BY <1>0, <1>4, <3>1
    <3> QED
      BY <3>2, Cells DEF Matches
  <2>2. ASSUME NEW p \in A, p # e PROVE Matches(m2, p, k) <=> Matches(m, p, k)
    <3>1. p + 1 \in Cell /\ p + 1 # e /\ IsHeader(m, p) /\ IsHeader(m2, p)
      <4>1. p \in Nat \ {0} /\ IsHeader(m, p) /\ IsHeader(m2, p) /\ p + 2 + m[p].len <= e /\ m[p].len \in Nat
        BY <1>0, <1>6, <2>2
      <4>2. e <= EEPROM_SIZE /\ e \in Nat
        BY <1>0, <1>1 DEF Cell
      <4> HIDE DEF e, A
      <4>3. p + 1 \in Nat /\ p + 1 >= 1 /\ p + 1 <= EEPROM_SIZE /\ p + 1 # e
        BY <4>1, <4>2, SizeAssumption
      <4> QED
        BY <4>1, <4>3, SizeAssumption DEF Cell
    <3> QED
      BY <3>1, <1>3 DEF Matches
  <2>3. ~Matches(m, e, k) /\ ~Matches(m2, b, k)
    BY <1>0, <1>7 DEF Matches
  <2>4. EntriesOf(m2, k) = EntriesOf(m, k)
    BY <1>8, <2>1, <2>2, <2>3 DEF EntriesOf
  <2>5. ASSUME NEW p \in EntriesOf(m, k)
        PROVE  m2[p] = m[p] /\ \A i \in Nat \ {0} : i <= m[p].len /\ p + 1 + i <= EEPROM_SIZE
                                   => m2[p + 1 + i] = m[p + 1 + i]
    <3>1. p \in A /\ p # e /\ p \in Nat \ {0}
      BY <1>0, <2>3 DEF EntriesOf
    <3>2. m2[p] = m[p] /\ p + 2 + m[p].len <= e /\ m[p].len \in Nat
      BY <3>1, <1>6
    <3>3. ASSUME NEW i \in Nat \ {0}, i <= m[p].len, p + 1 + i <= EEPROM_SIZE
          PROVE  p + 1 + i \in Cell /\ p + 1 + i # e
      BY <3>1, <3>2, <3>3, <1>0, SizeAssumption DEF Cell
    <3> QED
      BY <3>2, <3>3, <1>3
  <2> QED
    BY <1>2, <2>4, <2>5, SameStored
<1> QED
  BY <1>0, <1>1, <1>2, <1>3, <1>4, <1>5, <1>8, <1>10, <1>11

-----------------------------------------------------------------------------
(* What the writes of one entry change in what is stored *)

\* The header at a says the length of v, and v fits.
Entry(m, a, v) ==
    /\ a \in Addresses(m) /\ IsHeader(m, a) /\ m[a].len = LengthOf[v]
    /\ a + 1 + LengthOf[v] <= EEPROM_SIZE

\* A scan for k stops at a.
Own(m, a, k) == EntriesOf(m, k) # {} /\ a = Min(EntriesOf(m, k))

\* The first parts of the data at a, as many as n, are those of v.
Begun(m, a, v, n) == n \in 0 .. LengthOf[v] /\ \A i \in 1 .. n : m[a + 1 + i] = Data(v, i)

\* The least entry of a key is one of its entries.
LEMMA OwnEntry ==
    ASSUME NEW m \in Memory, NEW k \in Key, NEW a, Own(m, a, k)
    PROVE  /\ a \in Nat \ {0} /\ a \in Cell /\ a \in Addresses(m) /\ IsHeader(m, a)
           /\ Matches(m, a, k) /\ m[a + 1] = NameOf(k) /\ a + 1 \in Cell
           /\ Stored(m, k) = ValueAt(m)[a]
           /\ \A j \in Key \ {k} : ~Matches(m, a, j)
<1> DEFINE E == EntriesOf(m, k)
<1>1. E \subseteq Nat \ {0} /\ E # {} /\ a = Min(E)
  BY AddressesClosed DEF EntriesOf, Own
<1>2. a \in E
  <2>1. \E n \in E : \A o \in E : n <= o
    BY <1>1, LeastNatural
  <2> HIDE DEF E
  <2> QED
    BY <2>1, <1>1, Zenon DEF Min
<1>3. a \in Addresses(m) /\ Matches(m, a, k) /\ IsHeader(m, a) /\ a \in Nat \ {0}
      /\ m[a + 1] = NameOf(k)
  BY <1>1, <1>2 DEF EntriesOf, Matches
<1>4. a \in Cell /\ a + 1 \in Cell
  BY <1>3, SizeAssumption DEF IsHeader, Cell
<1>5. Stored(m, k) = ValueAt(m)[a]
  BY <1>1 DEF Stored, EntryAddr
<1>6. \A j \in Key \ {k} : ~Matches(m, a, j)
  BY <1>3, Cells DEF Matches
<1> QED
  BY <1>3, <1>4, <1>5, <1>6

\* What an entry reads as is one of the values whose length its header says and
\* whose parts it holds, if there is one.
LEMMA Reads ==
    ASSUME NEW m \in Memory, NEW a \in Nat \ {0}
    PROVE  /\ ValueAt(m)[a] \in Value \cup {Corrupt}
           /\ \A v \in Value : ValueAt(m)[a] = v =>
                  m[a].len = LengthOf[v] /\ \A i \in 1 .. LengthOf[v] : m[a + 1 + i] = Data(v, i)
           /\ \A v \in Value :
                  Entry(m, a, v) /\ (\A i \in 1 .. LengthOf[v] : m[a + 1 + i] = Data(v, i))
                  => ValueAt(m)[a] \in Value
<1> DEFINE vs == {v \in Value : /\ m[a].len = LengthOf[v]
                                /\ a + 1 + LengthOf[v] <= EEPROM_SIZE
                                /\ \A i \in 1 .. LengthOf[v] : m[a + 1 + i] = Data(v, i)}
<1>1. ValueAt(m)[a] = IF vs = {} THEN Corrupt ELSE CHOOSE v \in vs : TRUE
  BY DEF ValueAt
<1>2. vs # {} => ValueAt(m)[a] \in vs
  <2> HIDE DEF vs
  <2> QED
    BY <1>1
<1>3. \A v \in Value : Entry(m, a, v) /\ (\A i \in 1 .. LengthOf[v] : m[a + 1 + i] = Data(v, i))
                       => v \in vs
  BY DEF Entry
<1>4. Corrupt \notin Value /\ vs \subseteq Value
  BY ValueAssumption
<1>5. ValueAt(m)[a] \in Value => vs # {}
  <2> HIDE DEF vs
  <2> QED
    BY <1>1, <1>4
<1>6. ASSUME NEW v \in Value, ValueAt(m)[a] = v
      PROVE  m[a].len = LengthOf[v] /\ \A i \in 1 .. LengthOf[v] : m[a + 1 + i] = Data(v, i)
  BY <1>2, <1>5, <1>6
<1>7. ValueAt(m)[a] \in Value \cup {Corrupt}
  <2> HIDE DEF vs
  <2> QED
    BY <1>1, <1>2, <1>4
<1>8. ASSUME NEW v \in Value, Entry(m, a, v), \A i \in 1 .. LengthOf[v] : m[a + 1 + i] = Data(v, i)
      PROVE  ValueAt(m)[a] \in Value
  <2>1. v \in vs
    BY <1>3, <1>8
  <2> HIDE DEF vs
  <2> QED
    BY <2>1, <1>2, <1>4
<1> QED
  BY <1>6, <1>7, <1>8

\* An entry that holds a part of v, or whose header says the length of a value
\* without data, reads as v or as no value; with all parts of v it reads as v.
LEMMA ReadBack ==
    ASSUME NEW m \in Memory, NEW a \in Nat \ {0}, NEW v \in Value, NEW n \in Nat,
           Entry(m, a, v), Begun(m, a, v, n), n = 0 => LengthOf[v] = 0
    PROVE  ValueAt(m)[a] \in {v, Corrupt} /\ (n = LengthOf[v] => ValueAt(m)[a] = v)
<1>0. LengthOf[v] \in Nat /\ m[a].len = LengthOf[v]
  BY ValueAssumption DEF Entry
<1>1. ASSUME ValueAt(m)[a] # Corrupt PROVE ValueAt(m)[a] = v
  <2>1. PICK w \in Value : ValueAt(m)[a] = w
    BY <1>1, Reads
  <2>2. LengthOf[w] = LengthOf[v] /\ \A i \in 1 .. LengthOf[w] : m[a + 1 + i] = Data(w, i)
    BY <2>1, <1>0, Reads
  <2>3. CASE n = 0
    BY <2>1, <2>2, <2>3, ValueAssumption
  <2>4. CASE n # 0
    <3>1. 1 \in 1 .. n /\ 1 \in 1 .. LengthOf[w]
      BY <2>2, <2>4, <1>0 DEF Begun
    <3>2. m[a + 1 + 1] = Data(v, 1) /\ m[a + 1 + 1] = Data(w, 1)
      BY <3>1, <2>2 DEF Begun
    <3> QED
      BY <3>2, <2>1, Cells
  <2> QED
    BY <2>3, <2>4
<1>2. ASSUME n = LengthOf[v] PROVE ValueAt(m)[a] # Corrupt
  <2>1. ValueAt(m)[a] \in Value
    BY <1>2, Reads DEF Begun
  <2> QED
    BY <2>1, ValueAssumption
<1> QED
  BY <1>1, <1>2

\* The name written into an entry that has none is that of the key: the entry is
\* its only one then, and if it takes data, no value is read from it.
LEMMA NameWritten ==
    ASSUME NEW m \in Memory, NEW a \in Nat \ {0}, NEW k \in Key, NEW v \in Value,
           Entry(m, a, v), EntriesOf(m, k) = {},
           \A i \in 1 .. 1 + LengthOf[v] : m[a + i] = FREE,
           NEW m2, Written(m, m2, a + 1, NameOf(k))
    PROVE  /\ (TailFree(m) => TailFree(m2))
           /\ Entry(m2, a, v) /\ Own(m2, a, k)
           /\ \A j \in Key \ {k} : Stored(m2, j) = Stored(m, j)
           /\ Stored(m, k) = Missing
           /\ Stored(m2, k) \in {v, Corrupt}
<1>0. LengthOf[v] \in Nat
  BY ValueAssumption
<1>1. /\ a \in Addresses(m) /\ IsHeader(m, a) /\ m[a].len = LengthOf[v] /\ a \in Cell
      /\ Behind(m)[a] = a + 2 + LengthOf[v] /\ a + 1 \in Cell
  <2>1. a \in Addresses(m) /\ IsHeader(m, a) /\ m[a].len = LengthOf[v]
    BY DEF Entry
  <2>2. a \in Cell /\ Behind(m)[a] = a + 2 + LengthOf[v]
    BY <2>1, BehindHeader
  <2>3. a + 1 \in Cell
    BY <1>0, SizeAssumption DEF Entry, Cell
  <2> QED
    BY <2>1, <2>2, <2>3, Cells
<1>2. a < a + 1 /\ a + 1 < Behind(m)[a]
  BY <1>0, <1>1
<1>3. /\ m2 \in Memory /\ Addresses(m2) = Addresses(m) /\ (TailFree(m) => TailFree(m2))
      /\ \A p \in Addresses(m) : IsHeader(m2, p) <=> IsHeader(m, p)
      /\ \A p \in Addresses(m), j \in Key : p # a => (Matches(m2, p, j) <=> Matches(m, p, j))
      /\ \A j \in Key : ~Matches(m, a, j) /\ ~Matches(m2, a, j)
                       => EntriesOf(m2, j) = EntriesOf(m, j) /\ Stored(m2, j) = Stored(m, j)
  <2>1. m2 \in Memory
    BY DEF Written
  <2> QED
    BY <2>1, <1>1, <1>2, WithinEntry
<1>4. m2[a + 1] = NameOf(k) /\ \A p \in Cell : p # a + 1 => m2[p] = m[p]
  BY DEF Written
<1>5. Matches(m2, a, k) /\ \A j \in Key \ {k} : ~Matches(m2, a, j)
  BY <1>1, <1>3, <1>4, Cells DEF Matches
<1>6. \A j \in Key : ~Matches(m, a, j)
  <2>1. m[a + 1] = FREE
    BY <1>0
  <2> QED
    BY <2>1, Cells DEF Matches
<1>7. \A j \in Key \ {k} : Stored(m2, j) = Stored(m, j)
  BY <1>3, <1>5, <1>6
<1>8. EntriesOf(m2, k) = {a}
  BY <1>1, <1>3, <1>5 DEF EntriesOf
<1>9. Own(m2, a, k)
  <2>1. Min({a}) = a
    BY DEF Min
  <2> QED
    BY <2>1, <1>8 DEF Own
<1>10. Entry(m2, a, v)
  <2>1. m2[a] = m[a]
    BY <1>1, <1>4
  <2> QED
    BY <2>1, <1>1, <1>3 DEF Entry
<1>11. Stored(m2, k) \in {v, Corrupt}
  <2>1. Stored(m2, k) = ValueAt(m2)[a]
    BY <1>3, <1>9, OwnEntry
  <2>2. CASE LengthOf[v] = 0
    <3>1. Begun(m2, a, v, 0)
      BY <2>2 DEF Begun
    <3> QED
      BY <3>1, <2>1, <2>2, <1>3, <1>10, ReadBack
  <2>3. CASE LengthOf[v] # 0
    <3>1. ASSUME NEW w \in Value, ValueAt(m2)[a] = w PROVE FALSE
      <4>0. m2 \in Memory
        BY <1>3
      <4>1. m2[a].len = LengthOf[w] /\ \A i \in 1 .. LengthOf[w] : m2[a + 1 + i] = Data(w, i)
        BY <4>0, <3>1, Reads
      <4>2. LengthOf[w] = LengthOf[v] /\ 1 \in 1 .. LengthOf[w]
        BY <4>1, <1>0, <1>10, <2>3 DEF Entry
      <4>3. m2[a + 1 + 1] = Data(w, 1)
        BY <4>1, <4>2
      <4>4. a + 2 \in Cell /\ a + 2 # a + 1 /\ 2 \in 1 .. 1 + LengthOf[v]
        BY <1>0, <2>3, SizeAssumption DEF Entry, Cell
      <4>5. m2[a + 2] = FREE
        BY <4>4, <1>4
      <4> QED
        BY <4>3, <4>5, Cells
    <3> QED
      BY <3>1, <2>1, <1>3, Reads
  <2> QED
    BY <2>2, <2>3
<1>12. Stored(m, k) = Missing
  BY DEF Stored
<1> QED
  BY <1>3, <1>7, <1>9, <1>10, <1>11, <1>12

\* A part of the data is written into the entry of the key: of the others nothing
\* changes, and what is read is the new value or none, and none only if it takes
\* more than one part.
LEMMA DataWritten ==
    ASSUME NEW m \in Memory, NEW a \in Nat \ {0}, NEW k \in Key, NEW v \in Value, NEW n \in Nat,
           Entry(m, a, v), Own(m, a, k), Begun(m, a, v, n), n < LengthOf[v],
           NEW m2, Written(m, m2, a + 2 + n, Data(v, n + 1))
    PROVE  /\ (TailFree(m) => TailFree(m2))
           /\ Entry(m2, a, v) /\ Own(m2, a, k) /\ Begun(m2, a, v, n + 1)
           /\ \A j \in Key \ {k} : Stored(m2, j) = Stored(m, j)
           /\ Stored(m2, k) \in {v, Corrupt}
           /\ Stored(m, k) \in Whole => Stored(m2, k) = v
<1> DEFINE c == a + 2 + n
<1>0. LengthOf[v] \in Nat /\ n + 1 \in Nat
  BY ValueAssumption
<1>1. /\ a \in Addresses(m) /\ IsHeader(m, a) /\ m[a].len = LengthOf[v] /\ a \in Cell
      /\ Behind(m)[a] = a + 2 + LengthOf[v] /\ c \in Cell /\ Data(v, n + 1) \in Content
  <2>1. a \in Addresses(m) /\ IsHeader(m, a) /\ m[a].len = LengthOf[v]
    BY DEF Entry
  <2>2. a \in Cell /\ Behind(m)[a] = a + 2 + LengthOf[v]
    BY <2>1, BehindHeader
  <2>3. c \in Cell
    BY <1>0, SizeAssumption DEF Entry, Cell
  <2> QED
    BY <2>1, <2>2, <2>3, <1>0, Cells
<1>2. a < c /\ c < Behind(m)[a] /\ c # a /\ c # a + 1
  BY <1>0, <1>1
<1>3. /\ m2 \in Memory /\ Addresses(m2) = Addresses(m) /\ (TailFree(m) => TailFree(m2))
      /\ \A p \in Addresses(m) : IsHeader(m2, p) <=> IsHeader(m, p)
      /\ \A p \in Addresses(m), j \in Key : p # a => (Matches(m2, p, j) <=> Matches(m, p, j))
      /\ \A j \in Key : ~Matches(m, a, j) /\ ~Matches(m2, a, j)
                       => EntriesOf(m2, j) = EntriesOf(m, j) /\ Stored(m2, j) = Stored(m, j)
  <2>1. m2 \in Memory
    BY DEF Written
  <2> QED
    BY <2>1, <1>1, <1>2, WithinEntry
<1>4. m2[c] = Data(v, n + 1) /\ \A p \in Cell : p # c => m2[p] = m[p]
  BY DEF Written
<1>5. /\ Matches(m, a, k) /\ m[a + 1] = NameOf(k) /\ a + 1 \in Cell
      /\ Stored(m, k) = ValueAt(m)[a] /\ \A j \in Key \ {k} : ~Matches(m, a, j)
  BY OwnEntry
<1>6. \A j \in Key : Matches(m2, a, j) <=> Matches(m, a, j)
  <2>1. m2[a + 1] = m[a + 1]
    BY <1>2, <1>4, <1>5
  <2> QED
    BY <2>1, <1>1, <1>3 DEF Matches
<1>7. \A j \in Key \ {k} : Stored(m2, j) = Stored(m, j)
  BY <1>3, <1>5, <1>6
<1>8. EntriesOf(m2, k) = EntriesOf(m, k)
  BY <1>3, <1>6 DEF EntriesOf
<1>9. Own(m2, a, k)
  BY <1>8 DEF Own
<1>10. Entry(m2, a, v)
  <2>1. m2[a] = m[a]
    BY <1>1, <1>2, <1>4
  <2> QED
    BY <2>1, <1>1, <1>3 DEF Entry
<1>11. Begun(m2, a, v, n + 1)
  <2>1. ASSUME NEW i \in 1 .. n + 1 PROVE m2[a + 1 + i] = Data(v, i)
    <3>1. CASE i = n + 1
      <4>1. a + 1 + i = c
        BY <3>1
      <4> QED
        BY <4>1, <3>1, <1>4
    <3>2. CASE i # n + 1
      <4>1. i \in 1 .. n /\ a + 1 + i # c
        BY <3>2
      <4>2. a + 1 + i \in Cell
        BY <4>1, <1>0, SizeAssumption DEF Entry, Cell
      <4> QED
        BY <4>1, <4>2, <1>4 DEF Begun
    <3> QED
      BY <3>1, <3>2
  <2> QED
    BY <2>1, <1>0 DEF Begun
<1>12. Stored(m2, k) = ValueAt(m2)[a]
  BY <1>3, <1>9, OwnEntry
<1>13. Stored(m2, k) \in {v, Corrupt} /\ (n + 1 = LengthOf[v] => Stored(m2, k) = v)
  BY <1>0, <1>3, <1>10, <1>11, <1>12, ReadBack
<1>14. ASSUME Stored(m, k) \in Whole PROVE Stored(m2, k) = v
  <2>1. PICK w \in Value : Stored(m, k) = w /\ LengthOf[w] <= 1
    BY <1>14 DEF Whole
  <2>2. LengthOf[v] = LengthOf[w]
    BY <2>1, <1>1, <1>5, Reads
  <2> QED
    BY <2>1, <2>2, <1>0, <1>13
<1> QED
  BY <1>3, <1>7, <1>9, <1>10, <1>11, <1>13, <1>14

-----------------------------------------------------------------------------
(* The invariant *)

StorageTypeOK ==
    /\ mem \in Memory /\ ram \in [Key -> Value \cup {Corrupt}]
    /\ next \in 1 .. Len(Order) + 1
    /\ writing \in {"idle", "scan", "header", "name", "data"}
    /\ key \in Key /\ val \in Value /\ addr \in Nat \ {0} /\ done \in Nat
    /\ faults \in 0 .. MaxFaults /\ misled \in BOOLEAN /\ unsaved \subseteq Key

\* The scan has come to the entry of the key, or behind the last entry.
AtHeader ==
    writing = "header" => addr = EntryAddr(mem, key) /\ addr + 1 + LengthOf[val] <= EEPROM_SIZE

\* The entry that is written is that of the key, or it has no name yet and no data.
AtName ==
    writing = "name" =>
        /\ Entry(mem, addr, val)
        /\ \/ Own(mem, addr, key)
           \/ /\ EntriesOf(mem, key) = {}
              /\ \A i \in 1 .. 1 + LengthOf[val] : mem[addr + i] = FREE

AtData ==
    writing = "data" => Entry(mem, addr, val) /\ Own(mem, addr, key) /\ Begun(mem, addr, val, done)

Loaded == {Order[i] : i \in 1 .. next - 1}

\* A write stores the value in use; the settings that were loaded and are not
\* being written are stored, unless a write of them failed.
InUse ==
    /\ writing # "idle" => ram[key] = val
    /\ \A k \in Loaded \ unsaved : writing = "idle" \/ k # key => Stored(mem, k) = ram[k]

WellKept == TailFree(mem) /\ AtHeader /\ AtName /\ AtData /\ InUse

StorageInv == StorageTypeOK /\ (~misled => WellKept)

-----------------------------------------------------------------------------
(* Types *)

\* What a setting reads as, and where its scan comes to.
LEMMA StoredType ==
    ASSUME NEW m \in Memory, NEW k \in Key
    PROVE  /\ Stored(m, k) \in Value \cup {Corrupt, Missing}
           /\ EntryAddr(m, k) \in Addresses(m) /\ EntryAddr(m, k) \in Nat \ {0}
<1>1. CASE EntriesOf(m, k) = {}
  BY <1>1, EndLast, AddressesClosed DEF Stored, EntryAddr
<1>2. CASE EntriesOf(m, k) # {}
  <2>1. Own(m, Min(EntriesOf(m, k)), k)
    BY <1>2 DEF Own
  <2>2. EntryAddr(m, k) = Min(EntriesOf(m, k))
    BY <1>2 DEF EntryAddr
  <2>3. /\ EntryAddr(m, k) \in Addresses(m) /\ EntryAddr(m, k) \in Nat \ {0}
        /\ Stored(m, k) = ValueAt(m)[EntryAddr(m, k)]
    BY <2>1, <2>2, OwnEntry
  <2> QED
    BY <2>3, Reads
<1> QED
  BY <1>1, <1>2

\* An EEPROM never written holds no entry.
LEMMA FreshMemory ==
    ASSUME NEW m, m = [p \in Cell |-> FREE]
    PROVE  m \in Memory /\ TailFree(m) /\ \A k \in Key : Stored(m, k) = Missing
<1>1. m \in Memory
  BY Cells DEF Memory
<1>2. TailFree(m)
  BY DEF TailFree
<1>3. ASSUME NEW k \in Key PROVE Stored(m, k) = Missing
  <2>1. ASSUME NEW p \in Addresses(m) PROVE ~Matches(m, p, k)
    <3>1. p \in Nat \ {0}
      BY <1>1, AddressesClosed
    <3> QED
      BY <3>1, Cells, SizeAssumption DEF Matches, IsHeader, Cell
  <2> QED
    BY <2>1 DEF Stored, EntriesOf
<1> QED
  BY <1>1, <1>2, <1>3

\* The order names settings, at least one.
LEMMA OrderType == Len(Order) \in Nat /\ Len(Order) >= 1
                   /\ \A i \in 1 .. Len(Order) : Order[i] \in Key
<1>1. Len(Order) \in Nat /\ DOMAIN Order = 1 .. Len(Order) /\ \A i \in DOMAIN Order : Order[i] \in Key
  BY OrderAssumption
<1>2. DOMAIN Order # {}
  BY OrderAssumption
<1> QED
  BY <1>1, <1>2

\* The types hold at first.
LEMMA TypeInit == ASSUME StorageInit PROVE StorageTypeOK
<1>1. mem \in Memory
  BY FreshMemory DEF StorageInit
<1>2. Order[1] \in Key /\ Default[Order[1]] \in Value /\ 1 \in 1 .. Len(Order) + 1
  BY OrderType, ValueAssumption
<1>3. ram \in [Key -> Value \cup {Corrupt}] /\ faults \in 0 .. MaxFaults
  BY ValueAssumption, SizeAssumption DEF StorageInit
<1>5. misled \in BOOLEAN
  BY DEF StorageInit
<1>4. key \in Key /\ val \in Value /\ next \in 1 .. Len(Order) + 1
  BY <1>2 DEF StorageInit
<1>6. addr \in Nat \ {0} /\ done \in Nat /\ unsaved \subseteq Key
  BY DEF StorageInit
<1> QED
  BY <1>1, <1>3, <1>4, <1>5, <1>6 DEF StorageInit, StorageTypeOK

\* Every step keeps the types, misled or not.
LEMMA TypeNext == ASSUME StorageTypeOK, [StorageNext]_storageVars PROVE StorageTypeOK'
<1> USE DEF StorageTypeOK
<1>1. CASE Load
  <2> DEFINE k == Order[next]
  <2>1. k \in Key /\ next + 1 \in 1 .. Len(Order) + 1
    BY <1>1, OrderType DEF Load, Loading
  <2>2. Stored(mem, k) # Missing => Stored(mem, k) \in Value \cup {Corrupt}
    BY <2>1, StoredType
  <2>3. Default[k] \in Value
    BY <2>1, ValueAssumption
  <2> HIDE DEF k
  <2>4. CASE Stored(mem, k) = Missing
    BY <1>1, <2>1, <2>3, <2>4 DEF Load, StartWrite, k
  <2>5. CASE Stored(mem, k) # Missing
    BY <1>1, <2>1, <2>2, <2>5 DEF Load, k
  <2> QED
    BY <2>4, <2>5
<1>2. CASE Scan
  <2>1. \A p \in Addresses(mem) : p \in Nat \ {0}
    BY AddressesClosed
  <2>2. misled' \in BOOLEAN /\ faults' \in 0 .. MaxFaults /\ addr' \in Nat \ {0}
    BY <1>2, <2>1, SizeAssumption DEF Scan, Fault
  <2> QED
    BY <1>2, <2>2 DEF Scan, Fails
<1>3. CASE WriteHeader
  <2>1. LengthOf[val] \in Nat
    BY ValueAssumption
  <2>2. Header(LengthOf[val]) \in Content
    BY <2>1, Cells
  <2>3. mem' \in Memory
    BY <1>3, <2>2 DEF WriteHeader, Memory
  <2> QED
    BY <1>3, <2>3 DEF WriteHeader
<1>4. CASE WriteName
  <2>1. mem' \in Memory
    BY <1>4, Cells DEF WriteName, Memory
  <2> QED
    BY <1>4, <2>1 DEF WriteName
<1>5. CASE WriteData
  <2>1. Data(val, done + 1) \in Content
    BY Cells
  <2>2. mem' \in Memory
    BY <1>5, <2>1 DEF WriteData, Memory
  <2> QED
    BY <1>5, <2>2 DEF WriteData
<1>6. CASE WriteEnds
  BY <1>6 DEF WriteEnds
<1>7. CASE Restart
  <2>1. mem' \in Memory /\ misled' \in BOOLEAN
    <3>1. CASE CutHeader
      <4>1. PICK len \in BlankLength : mem' = [mem EXCEPT ![addr] = Header(len)]
        BY <3>1 DEF CutHeader
      <4>2. Header(len) \in Content
        BY SizeAssumption, Cells
      <4> QED
        BY <3>1, <4>1, <4>2 DEF CutHeader, Memory
    <3> QED
      BY <3>1, <1>7 DEF Restart
  <2>2. ram' \in [Key -> Value \cup {Corrupt}] /\ next' \in 1 .. Len(Order) + 1
    BY <1>7, ValueAssumption, OrderType DEF Restart
  <2>3. faults' \in 0 .. MaxFaults
    BY <1>7, SizeAssumption DEF Restart, Fault
  <2> QED
    BY <1>7, <2>1, <2>2, <2>3 DEF Restart
<1>8. CASE \E k \in Key, v \in Value : Set(k, v)
  BY <1>8 DEF Set, StartWrite
<1>9. CASE \E at \in {"header", "name", "data"} : ~Loading /\ WriteFails(at)
  <2>1. faults' \in 0 .. MaxFaults
    BY <1>9, SizeAssumption DEF WriteFails, Fault
  <2> QED
    BY <1>9, <2>1 DEF WriteFails, Fails
<1>10. CASE UNCHANGED storageVars
  BY <1>10 DEF storageVars
<1> QED
  BY <1>1, <1>2, <1>3, <1>4, <1>5, <1>6, <1>7, <1>8, <1>9, <1>10 DEF StorageNext

-----------------------------------------------------------------------------
(* What a step does to what is stored, and that it keeps the invariant *)

Same == \A k \in Key : Stored(mem', k) = Stored(mem, k)

\* A step of a write stores the value, or leaves none if it takes several parts.
Writing ==
    /\ writing \in {"name", "data"} /\ ram' = ram /\ ram[key] = val
    /\ \A k \in Key \ {key} : Stored(mem', k) = Stored(mem, k)
    /\ Stored(mem', key) \in {val, Corrupt}
    /\ Stored(mem, key) \in Whole => Stored(mem', key) = val

\* A header is written where the scan of the key has come to: over that of the
\* key, which says the same length, or behind the last entry.
LEMMA HeaderWritten ==
    ASSUME StorageTypeOK, WellKept, writing = "header", NEW len \in Nat,
           mem' = [mem EXCEPT ![addr] = Header(len)],
           mem[addr].kind = "header" => mem[addr] = Header(len)
    PROVE  /\ TailFree(mem)' /\ Same
           /\ LengthOf[val] = len => Entry(mem', addr, val) /\
                \/ Own(mem', addr, key)
                \/ /\ EntriesOf(mem', key) = {}
                   /\ \A i \in 1 .. 1 + LengthOf[val] : mem'[addr + i] = FREE
<1>1. /\ mem \in Memory /\ key \in Key /\ val \in Value /\ LengthOf[val] \in Nat /\ TailFree(mem)
      /\ addr = EntryAddr(mem, key) /\ addr + 1 + LengthOf[val] <= EEPROM_SIZE
  BY ValueAssumption DEF StorageTypeOK, WellKept, AtHeader
<1>2. CASE EntriesOf(mem, key) # {}
  <2>1. Own(mem, addr, key)
    BY <1>1, <1>2 DEF EntryAddr, Own
  <2>2. addr \in Cell /\ addr \in Addresses(mem) /\ IsHeader(mem, addr)
    BY <1>1, <2>1, OwnEntry
  <2>3. mem' = mem /\ mem[addr] = Header(len)
    BY <1>1, <2>2 DEF IsHeader, Memory
  <2>4. mem[addr].len = len
    BY <2>3, Cells
  <2> QED
    BY <1>1, <2>1, <2>2, <2>3, <2>4 DEF Entry, Same
<1>3. CASE EntriesOf(mem, key) = {}
  <2>1. addr = End(mem) /\ addr < EEPROM_SIZE
    BY <1>1, <1>3, SizeAssumption DEF EntryAddr, StorageTypeOK
  <2>2. addr \in Cell
    BY <2>1, SizeAssumption DEF StorageTypeOK, Cell
  <2>3. Written(mem, mem', addr, Header(len))
    BY <1>1, <2>2, Cells, Writes
  <2>4. /\ TailFree(mem') /\ addr \in Addresses(mem') /\ IsHeader(mem', addr)
        /\ mem'[addr] = Header(len)
        /\ \A p \in Cell : p > addr => mem'[p] = FREE
        /\ \A k \in Key : EntriesOf(mem', k) = EntriesOf(mem, k) /\ Stored(mem', k) = Stored(mem, k)
    <3> DEFINE n == mem'
    <3>1. Written(mem, n, End(mem), Header(len)) /\ End(mem) < EEPROM_SIZE
      BY <2>1, <2>3
    <3> HIDE DEF n
    <3>2. /\ TailFree(n) /\ End(mem) \in Addresses(n) /\ IsHeader(n, End(mem))
          /\ n[End(mem)] = Header(len)
          /\ \A p \in Cell : p > End(mem) => n[p] = FREE
          /\ \A k \in Key : EntriesOf(n, k) = EntriesOf(mem, k) /\ Stored(n, k) = Stored(mem, k)
      BY <1>1, <3>1, AddEntry
    <3> QED
      BY <2>1, <3>2 DEF n
  <2>5. ASSUME LengthOf[val] = len PROVE Entry(mem', addr, val)
    BY <1>1, <2>4, <2>5, Cells DEF Entry
  <2>6. ASSUME NEW i \in 1 .. 1 + LengthOf[val] PROVE mem'[addr + i] = FREE
    <3>1. addr + i \in Cell /\ addr + i > addr
      BY <1>1, SizeAssumption DEF StorageTypeOK, Cell
    <3> QED
      BY <3>1, <2>4
  <2> QED
    BY <1>1, <1>3, <2>4, <2>5, <2>6 DEF Same
<1> QED
  BY <1>2, <1>3

\* Only settings are loaded.
LEMMA LoadedKeys == ASSUME StorageTypeOK PROVE Loaded \subseteq Key
BY OrderType DEF Loaded, StorageTypeOK

\* The header of a new entry, or the one that was there.
LEMMA StepHeader ==
    ASSUME StorageTypeOK, WellKept, WriteHeader, ~misled'
    PROVE  WellKept' /\ Same
<1>1. /\ writing = "header" /\ writing' = "name" /\ mem' = [mem EXCEPT ![addr] = Header(LengthOf[val])]
      /\ UNCHANGED <<ram, next, key, val, addr, done, faults, unsaved>>
      /\ mem[addr].kind = "header" => mem[addr].len = LengthOf[val]
  BY DEF WriteHeader
<1>2. LengthOf[val] \in Nat
  BY ValueAssumption DEF StorageTypeOK
<1>3. mem[addr].kind = "header" => mem[addr] = Header(LengthOf[val])
  <2>1. addr \in Cell
    BY <1>1, <1>2, SizeAssumption DEF StorageTypeOK, WellKept, AtHeader, Cell
  <2>2. mem[addr] \in Content
    BY <2>1 DEF StorageTypeOK, Memory
  <2> QED
    BY <2>2, <1>1, Cells
<1>4. /\ TailFree(mem)' /\ Same
      /\ Entry(mem', addr, val)
      /\ \/ Own(mem', addr, key)
         \/ /\ EntriesOf(mem', key) = {}
            /\ \A i \in 1 .. 1 + LengthOf[val] : mem'[addr + i] = FREE
  BY <1>1, <1>2, <1>3, HeaderWritten
<1>5. AtHeader' /\ AtName' /\ AtData'
  BY <1>1, <1>4 DEF AtHeader, AtName, AtData
<1>6. InUse'
  <2>1. Loaded' = Loaded /\ Loaded \subseteq Key
    BY <1>1, LoadedKeys DEF Loaded
  <2> QED
    BY <1>1, <1>4, <2>1 DEF InUse, WellKept, Same
<1> QED
  BY <1>4, <1>5, <1>6 DEF WellKept

\* Namespace and key of the entry.
LEMMA StepName ==
    ASSUME StorageTypeOK, WellKept, WriteName
    PROVE  WellKept' /\ (Same \/ Writing)
<1>1. /\ writing = "name" /\ writing' = "data" /\ done' = 0
      /\ mem' = [mem EXCEPT ![addr + 1] = NameOf(key)]
      /\ UNCHANGED <<ram, next, key, val, addr, faults, misled, unsaved>>
  BY DEF WriteName
<1>2. /\ mem \in Memory /\ key \in Key /\ val \in Value /\ LengthOf[val] \in Nat /\ TailFree(mem)
      /\ addr \in Nat \ {0} /\ Entry(mem, addr, val) /\ ram[key] = val
      /\ addr + 1 \in Cell
  <2>1. /\ mem \in Memory /\ key \in Key /\ val \in Value /\ LengthOf[val] \in Nat /\ TailFree(mem)
        /\ addr \in Nat \ {0} /\ Entry(mem, addr, val) /\ ram[key] = val
    BY <1>1, ValueAssumption DEF StorageTypeOK, WellKept, AtName, InUse
  <2> QED
    BY <2>1, SizeAssumption DEF Entry, Cell
<1>3. /\ TailFree(mem') /\ Entry(mem', addr, val) /\ Own(mem', addr, key)
      /\ \A k \in Key \ {key} : Stored(mem', k) = Stored(mem, k)
      /\ Same \/ Writing
  <2>1. CASE Own(mem, addr, key)
    <3>1. mem' = mem
      BY <1>1, <1>2, <2>1, OwnEntry DEF Memory
    <3> QED
      BY <3>1, <2>1, <1>2 DEF Same
  <2>2. CASE ~Own(mem, addr, key)
    <3>1. EntriesOf(mem, key) = {} /\ \A i \in 1 .. 1 + LengthOf[val] : mem[addr + i] = FREE
      BY <2>2, <1>1 DEF WellKept, AtName
    <3>2. Written(mem, mem', addr + 1, NameOf(key))
      BY <1>1, <1>2, Cells, Writes
    <3>3. /\ TailFree(mem') /\ Entry(mem', addr, val) /\ Own(mem', addr, key)
          /\ \A k \in Key \ {key} : Stored(mem', k) = Stored(mem, k)
          /\ Stored(mem, key) = Missing
          /\ Stored(mem', key) \in {val, Corrupt}
      <4> DEFINE n == mem'
      <4>1. Written(mem, n, addr + 1, NameOf(key))
        BY <3>2
      <4> HIDE DEF n
      <4>2. /\ TailFree(n) /\ Entry(n, addr, val) /\ Own(n, addr, key)
            /\ \A k \in Key \ {key} : Stored(n, k) = Stored(mem, k)
            /\ Stored(mem, key) = Missing
            /\ Stored(n, key) \in {val, Corrupt}
        BY <1>2, <3>1, <4>1, NameWritten
      <4> QED
        BY <4>2 DEF n
    <3>4. Missing \notin Whole
      BY ValueAssumption DEF Whole
    <3> QED
      BY <1>1, <1>2, <3>3, <3>4 DEF Writing
  <2> QED
    BY <2>1, <2>2
<1>4. AtHeader' /\ AtName' /\ AtData'
  <2>1. Begun(mem', addr, val, 0)
    BY <1>2 DEF Begun
  <2> QED
    BY <1>1, <1>3, <2>1 DEF AtHeader, AtName, AtData
<1>5. InUse'
  <2>1. Loaded' = Loaded /\ Loaded \subseteq Key
    BY <1>1, LoadedKeys DEF Loaded
  <2> QED
    BY <1>1, <1>3, <2>1 DEF InUse, WellKept
<1> QED
  BY <1>3, <1>4, <1>5 DEF WellKept

\* A part of the data.
LEMMA StepData ==
    ASSUME StorageTypeOK, WellKept, WriteData
    PROVE  WellKept' /\ Writing
<1>1. /\ writing = "data" /\ done < LengthOf[val] /\ done' = done + 1
      /\ mem' = [mem EXCEPT ![addr + 2 + done] = Data(val, done + 1)]
      /\ UNCHANGED <<ram, next, writing, key, val, addr, faults, misled, unsaved>>
  BY DEF WriteData
<1>2. /\ mem \in Memory /\ key \in Key /\ val \in Value /\ LengthOf[val] \in Nat /\ TailFree(mem)
      /\ addr \in Nat \ {0} /\ done \in Nat /\ ram[key] = val
      /\ Entry(mem, addr, val) /\ Own(mem, addr, key) /\ Begun(mem, addr, val, done)
  BY <1>1, ValueAssumption DEF StorageTypeOK, WellKept, AtData, InUse
<1>3. Written(mem, mem', addr + 2 + done, Data(val, done + 1))
  <2>1. addr + 2 + done \in Cell
    BY <1>1, <1>2, SizeAssumption DEF Entry, Cell
  <2>2. Data(val, done + 1) \in Content
    BY <1>2, Cells
  <2> QED
    BY <1>1, <1>2, <2>1, <2>2, Writes
<1>4. /\ TailFree(mem') /\ Entry(mem', addr, val) /\ Own(mem', addr, key)
      /\ Begun(mem', addr, val, done + 1)
      /\ \A k \in Key \ {key} : Stored(mem', k) = Stored(mem, k)
      /\ Stored(mem', key) \in {val, Corrupt}
      /\ Stored(mem, key) \in Whole => Stored(mem', key) = val
  <2> DEFINE n == mem'
  <2>1. Written(mem, n, addr + 2 + done, Data(val, done + 1))
    BY <1>3
  <2> HIDE DEF n
  <2>2. /\ TailFree(n) /\ Entry(n, addr, val) /\ Own(n, addr, key)
        /\ Begun(n, addr, val, done + 1)
        /\ \A k \in Key \ {key} : Stored(n, k) = Stored(mem, k)
        /\ Stored(n, key) \in {val, Corrupt}
        /\ Stored(mem, key) \in Whole => Stored(n, key) = val
    BY <1>1, <1>2, <2>1, DataWritten
  <2> QED
    BY <2>2 DEF n
<1>5. AtHeader' /\ AtName' /\ AtData'
  BY <1>1, <1>4 DEF AtHeader, AtName, AtData
<1>6. InUse'
  <2>1. Loaded' = Loaded /\ Loaded \subseteq Key
    BY <1>1, LoadedKeys DEF Loaded
  <2> QED
    BY <1>1, <1>4, <2>1 DEF InUse, WellKept
<1> QED
  BY <1>1, <1>2, <1>4, <1>5, <1>6 DEF WellKept, Writing

\* The write ends, and the value in use is stored.
LEMMA StepEnds ==
    ASSUME StorageTypeOK, WellKept, WriteEnds
    PROVE  WellKept' /\ Same
<1>1. /\ writing = "data" /\ done = LengthOf[val] /\ writing' = "idle" /\ unsaved' = unsaved \ {key}
      /\ UNCHANGED <<mem, ram, next, key, val, addr, done, faults, misled>>
  BY DEF WriteEnds
<1>2. Stored(mem, key) = ram[key]
  <2>1. /\ mem \in Memory /\ key \in Key /\ val \in Value /\ addr \in Nat \ {0} /\ done \in Nat
        /\ ram[key] = val
        /\ Entry(mem, addr, val) /\ Own(mem, addr, key) /\ Begun(mem, addr, val, done)
    BY <1>1 DEF StorageTypeOK, WellKept, AtData, InUse
  <2>2. ValueAt(mem)[addr] = val
    BY <1>1, <2>1, ReadBack
  <2> QED
    BY <2>1, <2>2, OwnEntry
<1>3. InUse'
  <2>1. Loaded' = Loaded
    BY <1>1 DEF Loaded
  <2> QED
    BY <1>1, <1>2, <2>1 DEF InUse, WellKept
<1> QED
  BY <1>1, <1>3 DEF WellKept, Same, AtHeader, AtName, AtData, TailFree

\* A restart, possibly in the middle of a header.
LEMMA StepRestart ==
    ASSUME StorageTypeOK, WellKept, Restart, ~misled'
    PROVE  WellKept' /\ Same
<1>1. TailFree(mem)' /\ Same
  <2>1. CASE CutHeader
    <3>1. PICK len \in BlankLength : mem' = [mem EXCEPT ![addr] = Header(len)]
      BY <2>1 DEF CutHeader
    <3>2. writing = "header" /\ mem[addr].kind # "header" /\ len \in Nat
      BY <2>1, SizeAssumption DEF CutHeader
    <3> QED
      BY <3>1, <3>2, HeaderWritten
  <2>2. CASE UNCHANGED <<mem, misled>>
    BY <2>2 DEF Same, WellKept, TailFree
  <2> QED
    BY <2>1, <2>2 DEF Restart
<1>2. Loaded' = {}
  BY DEF Loaded, Restart
<1> QED
  BY <1>1, <1>2 DEF Restart, WellKept, AtHeader, AtName, AtData, InUse

\* The steps that leave the EEPROM alone.
LEMMA StepIdle ==
    ASSUME StorageTypeOK, WellKept, ~misled',
           Load \/ Scan \/ (\E k \in Key, v \in Value : Set(k, v))
           \/ (\E at \in {"header", "name", "data"} : WriteFails(at)) \/ UNCHANGED storageVars
    PROVE  WellKept' /\ Same
<1>1. mem' = mem /\ Same /\ TailFree(mem)'
  BY DEF Load, Scan, Set, WriteFails, storageVars, Same, WellKept, TailFree
<1>2. CASE Load
  <2> DEFINE k == Order[next]
  <2>1. k \in Key /\ Loaded' = Loaded \cup {k}
    <3>1. next \in 1 .. Len(Order) /\ next' = next + 1
      BY <1>2, OrderType DEF Load, Loading, StorageTypeOK
    <3>2. 1 .. next' - 1 = (1 .. next - 1) \cup {next}
      BY <3>1, OrderType
    <3> QED
      BY <3>1, <3>2, OrderType DEF Loaded
  <2>2. Default[k] \in Value /\ Loaded \subseteq Key /\ ram \in [Key -> Value \cup {Corrupt}]
    BY <2>1, LoadedKeys, ValueAssumption DEF StorageTypeOK
  <2> HIDE DEF k
  <2>3. CASE Stored(mem, k) = Missing
    BY <1>1, <1>2, <2>1, <2>2, <2>3
       DEF Load, StartWrite, k, WellKept, InUse, AtHeader, AtName, AtData
  <2>4. CASE Stored(mem, k) # Missing
    BY <1>1, <1>2, <2>1, <2>2, <2>4
       DEF Load, k, WellKept, InUse, AtHeader, AtName, AtData
  <2> QED
    BY <2>3, <2>4
<1>3. CASE Scan
  <2>1. Loaded' = Loaded
    BY <1>3 DEF Scan, Loaded
  <2>2. PICK p \in Addresses(mem) :
           /\ addr' = p /\ misled' = (misled \/ p # EntryAddr(mem, key))
           /\ IF p + EntrySize(LengthOf[val]) > EEPROM_SIZE + 1
              THEN Fails
              ELSE writing' = "header" /\ UNCHANGED unsaved
    BY <1>3 DEF Scan
  <2>3. p = EntryAddr(mem, key) /\ p \in Nat /\ LengthOf[val] \in Nat
    BY <2>2, AddressesClosed, ValueAssumption DEF StorageTypeOK
  <2>4. UNCHANGED <<mem, ram, next, key, val, done>> /\ writing = "scan"
    BY <1>3 DEF Scan
  <2>5. CASE p + EntrySize(LengthOf[val]) > EEPROM_SIZE + 1
    BY <1>1, <2>1, <2>2, <2>4, <2>5 DEF Fails, WellKept, InUse, AtHeader, AtName, AtData
  <2>6. CASE ~(p + EntrySize(LengthOf[val]) > EEPROM_SIZE + 1)
    <3>1. AtHeader'
      BY <2>2, <2>3, <2>4, <2>6, SizeAssumption DEF EntrySize, AtHeader
    <3> QED
      BY <1>1, <2>1, <2>2, <2>4, <2>6, <3>1 DEF WellKept, InUse, AtName, AtData
  <2> QED
    BY <2>5, <2>6
<1>4. CASE \E k \in Key, v \in Value : Set(k, v)
  <2>1. Loaded' = Loaded /\ Loaded \subseteq Key
    BY <1>4, LoadedKeys DEF Set, Loaded
  <2> QED
    BY <1>1, <1>4, <2>1 DEF Set, StartWrite, StorageTypeOK, WellKept, InUse, AtHeader, AtName, AtData
<1>5. CASE \E at \in {"header", "name", "data"} : WriteFails(at)
  <2>1. Loaded' = Loaded
    BY <1>5 DEF WriteFails, Loaded
  <2> QED
    BY <1>1, <1>5, <2>1 DEF WriteFails, Fails, WellKept, InUse, AtHeader, AtName, AtData
<1>6. CASE UNCHANGED storageVars
  <2>1. /\ UNCHANGED <<mem, ram, next, writing, key, val, addr, done, unsaved>>
        /\ Loaded' = Loaded
    BY <1>6 DEF storageVars, Loaded
  <2> QED
    BY <1>1, <2>1 DEF WellKept, InUse, AtHeader, AtName, AtData
<1> QED
  BY <1>2, <1>3, <1>4, <1>5, <1>6

\* Until a scan was misled a step keeps the invariant, and changes of what is
\* stored nothing but the setting that is written.
LEMMA StoredStep ==
    ASSUME StorageInv, [StorageNext]_storageVars, ~misled'
    PROVE  StorageTypeOK /\ WellKept /\ WellKept' /\ (Same \/ Writing)
<1>1. ~misled
  BY DEF StorageInv, StorageTypeOK, StorageNext, storageVars, Load, Scan, WriteHeader, WriteName,
         WriteData, WriteEnds, Restart, CutHeader, Set, WriteFails
<1>2. StorageTypeOK /\ WellKept
  BY <1>1 DEF StorageInv
<1> QED
  BY <1>2, StepIdle, StepHeader, StepName, StepData, StepEnds, StepRestart DEF StorageNext

\* The invariant holds at first.
LEMMA InvInit == ASSUME StorageInit PROVE StorageInv
<1>1. Loaded = {}
  BY DEF Loaded, StorageInit
<1> QED
  BY <1>1, TypeInit, FreshMemory
     DEF StorageInit, StorageInv, WellKept, AtHeader, AtName, AtData, InUse

\* Every step keeps it.
LEMMA InvNext == ASSUME StorageInv, [StorageNext]_storageVars PROVE StorageInv'
<1>1. StorageTypeOK'
  BY TypeNext DEF StorageInv
<1> QED
  BY <1>1, StoredStep DEF StorageInv

\* The types hold, and until a scan was misled nothing was written behind the last
\* entry and the one being written is that which a scan for its key stops at, or
\* has no name and no data yet (storage.c:108-195).
THEOREM StorageInvariant == StorageSpec => []StorageInv
<1> QED
  BY InvInit, InvNext, PTL DEF StorageSpec

-----------------------------------------------------------------------------
(* The properties *)

\* Between writes the EEPROM holds the settings in use (storage.c:116, 172).
THEOREM SettingsAreStored == StorageSpec => []SettingsStored
<1>1. ASSUME StorageInv PROVE SettingsStored
  <2> SUFFICES ASSUME writing = "idle", ~Loading, ~misled, NEW k \in Key \ unsaved
               PROVE  Stored(mem, k) = ram[k]
    BY DEF SettingsStored
  <2>1. k \in Loaded
    <3>1. next = Len(Order) + 1
      BY <1>1, OrderType DEF StorageInv, StorageTypeOK, Loading
    <3>2. PICK i \in DOMAIN Order : Order[i] = k
      BY OrderAssumption
    <3>3. i \in 1 .. next - 1
      BY <3>1, <3>2, OrderAssumption
    <3> QED
      BY <3>2, <3>3 DEF Loaded
  <2> QED
    BY <1>1, <2>1 DEF StorageInv, WellKept, InUse
<1> QED
  BY <1>1, StorageInvariant, PTL

\* Writing one setting leaves what is stored of every other as it is.
THEOREM NeighboursAreKept == StorageSpec => NeighboursKept
<1>1. ASSUME StorageInv, [StorageNext]_storageVars
      PROVE  [~misled' => \A k \in Key \ {key} : Stored(mem', k) = Stored(mem, k)]_storageVars
  BY <1>1, StoredStep DEF Same, Writing
<1> QED
  BY <1>1, StorageInvariant, PTL DEF StorageSpec, NeighboursKept

\* What the entries read as.
Readings(m) == [k \in Key |-> Stored(m, k)]

\* Every step is one of the table of settings, or none to it.
LEMMA SettingsStep ==
    ASSUME StorageInv, [StorageNext]_storageVars
    PROVE  [Settings!Next]_(Settings!settingsVars)
<1>1. CASE misled'
  BY <1>1 DEF Settings!Next
<1>2. CASE ~misled'
  <2>1. /\ StorageTypeOK /\ (Same \/ Writing) /\ ~misled
        /\ mem \in Memory /\ key \in Key /\ val \in Value
    <3>1. ~misled
      BY <1>2 DEF StorageInv, StorageTypeOK, StorageNext, storageVars, Load, Scan, WriteHeader,
             WriteName, WriteData, WriteEnds, Restart, CutHeader, Set, WriteFails
    <3> QED
      BY <1>2, <3>1, StoredStep DEF StorageTypeOK
  <2>2. ASSUME Same PROVE Readings(mem') = Readings(mem)
    BY <2>2 DEF Same, Readings
  <2>3. CASE Load
    <3> DEFINE k == Order[next]
    <3>1. k \in Key /\ Same
      BY <2>1, <2>3, OrderType DEF Load, Loading, Same, StorageTypeOK
    <3> HIDE DEF k
    <3>2. Readings(mem)[k] = Stored(mem, k)
      BY <3>1 DEF Readings
    <3>3. ram' = [ram EXCEPT ![k] = IF Readings(mem)[k] = Missing THEN Default[k] ELSE Readings(mem)[k]]
      BY <2>3, <3>2 DEF Load, k
    <3>4. Settings!Take(k)
      BY <2>2, <3>1, <3>3 DEF Settings!Take, Readings
    <3> QED
      BY <1>2, <3>1, <3>4 DEF Settings!Next
  <2>4. CASE \E k \in Key, v \in Value : Set(k, v)
    <3>1. PICK k \in Key, v \in Value : Set(k, v)
      BY <2>4
    <3>2. Same
      BY <3>1 DEF Set, Same
    <3>3. Settings!Use(k, v)
      BY <2>2, <3>1, <3>2 DEF Set, Settings!Use, Readings
    <3> QED
      BY <1>2, <3>3 DEF Settings!Next
  <2>5. CASE Restart
    <3>1. Same
      BY <1>2, <2>1, <2>5, StepRestart, StoredStep
    <3>2. Settings!Restart
      BY <2>2, <2>5, <3>1 DEF Restart, Settings!Restart, Readings
    <3> QED
      BY <1>2, <3>2 DEF Settings!Next
  <2>6. CASE Same /\ ram' = ram
    <3>0. misled' \in BOOLEAN
      <4>1. StorageTypeOK'
        BY TypeNext DEF StorageInv
      <4> QED
        BY <4>1 DEF StorageTypeOK
    <3>2. misled' = misled
      BY <3>0, <1>2, <2>1 DEF StorageTypeOK
    <3>1. UNCHANGED Settings!settingsVars
      BY <2>2, <2>6, <3>2 DEF Settings!settingsVars, Readings
    <3> QED
      BY <3>1
  <2>7. CASE Writing
    <3>1. ram' = ram /\ ram[key] \in Value
      BY <2>1, <2>7 DEF Writing
    <3>2. Readings(mem') = [Readings(mem) EXCEPT ![key] = Stored(mem', key)]
      BY <2>1, <2>7 DEF Writing, Readings
    <3>3. CASE Stored(mem', key) = val
      <4>1. Settings!Store(key)
        BY <2>7, <3>1, <3>2, <3>3 DEF Writing, Readings, Settings!Store
      <4> QED
        BY <1>2, <2>1, <4>1 DEF Settings!Next
    <3>4. CASE Stored(mem', key) # val
      <4>1. Stored(mem', key) = Corrupt /\ Readings(mem)[key] \notin Whole
        BY <2>1, <2>7, <3>4 DEF Writing, Readings
      <4>2. Settings!Begin(key)
        BY <3>1, <3>2, <4>1 DEF Readings, Settings!Begin
      <4> QED
        BY <1>2, <2>1, <4>2 DEF Settings!Next
    <3> QED
      BY <3>3, <3>4
  <2>8. CASE (\E at \in {"header", "name", "data"} : WriteFails(at)) \/ UNCHANGED storageVars
    <3>1. Same /\ ram' = ram
      BY <2>8 DEF WriteFails, storageVars, Same
    <3> QED
      BY <2>6, <3>1
  <2>9. CASE Scan \/ WriteHeader \/ WriteName \/ WriteData \/ WriteEnds
    <3>1. ram' = ram
      BY <2>9 DEF Scan, WriteHeader, WriteName, WriteData, WriteEnds
    <3> QED
      BY <2>1, <2>6, <2>7, <3>1
  <2> QED
    BY <2>3, <2>4, <2>5, <2>8, <2>9 DEF StorageNext
<1> QED
  BY <1>1, <1>2

\* The table of settings is kept in the array of bytes.
THEOREM SettingsAreKept == StorageSpec => KeepsSettings
<1>1. ASSUME StorageInit PROVE Settings!Init
  <2>1. \A k \in Key : Stored(mem, k) = Missing
    BY <1>1, FreshMemory DEF StorageInit
  <2> QED
    BY <1>1, <2>1 DEF StorageInit, Settings!Init
<1> QED
  BY <1>1, SettingsStep, StorageInvariant, PTL DEF StorageSpec, KeepsSettings, Settings!Spec

-----------------------------------------------------------------------------
(* The bus coordinator, for any set of tasks *)

InRound == {"low", "pull", "high", "lift", "start", "wait"}

\* TypeOK alone is not inductive: a round that ends takes one from the rounds
\* left, of which there is one as long as an operation is in a round.
RoundsLeft == \A t \in Task : pc[t] \in InRound => rounds[t] > 0

\* A round leaves the types alone, and one more round where it goes on.
LEMMA RoundEnds ==
    ASSUME TypeOK, RoundsLeft, NEW t \in Task, pc[t] \in InRound,
           NEW again \in InRound, NextRound(t, again)
    PROVE  /\ pc' \in [Task -> InRound \cup {"idle", "test", "acquire", "release", "raise", "clear"}]
           /\ rounds' \in [Task -> 0 .. MAX_ROUNDS]
           /\ RoundsLeft'
BY RoundsAssumption DEF TypeOK, RoundsLeft, NextRound, Goto, InRound

\* Types and rounds hold together.
LEMMA TypesAndRounds == Spec => [](TypeOK /\ RoundsLeft)
<1>1. Init => TypeOK /\ RoundsLeft
  <2> SUFFICES ASSUME Init PROVE TypeOK /\ RoundsLeft
    OBVIOUS
  <2>1. current_device \in Device \cup {NONE} /\ selected \subseteq Device
    BY DEF Init
  <2>2. operation \in [Task -> Operation] /\ rounds \in [Task -> 0 .. MAX_ROUNDS]
    BY RoundsAssumption DEF Init, Operation, Device
  <2> QED
    BY <2>1, <2>2 DEF Init, TypeOK, RoundsLeft, InRound
<1>2. TypeOK /\ RoundsLeft /\ [Next]_vars => TypeOK' /\ RoundsLeft'
  <2> SUFFICES ASSUME TypeOK, RoundsLeft, [Next]_vars PROVE TypeOK' /\ RoundsLeft'
    OBVIOUS
  <2>1. ASSUME NEW t \in Task, Begin(t) PROVE TypeOK' /\ RoundsLeft'
    BY <2>1, RoundsAssumption DEF Begin, Goto, TypeOK, RoundsLeft, InRound
  <2>2. ASSUME NEW t \in Task, AcquireTest(t) PROVE TypeOK' /\ RoundsLeft'
    BY <2>2 DEF AcquireTest, Goto, TypeOK, RoundsLeft, InRound
  <2>3. ASSUME NEW t \in Task, AcquireSet(t) PROVE TypeOK' /\ RoundsLeft'
    <3>1. current_device' \in Device
      BY <2>3 DEF AcquireSet, DeviceOf, Device
    <3> QED
      BY <2>3, <3>1 DEF AcquireSet, Goto, TypeOK, RoundsLeft, InRound
  <2>4. ASSUME NEW t \in Task, ReleaseTest(t) \/ ReleaseRaise(t) \/ ReleaseClear(t)
        PROVE  TypeOK' /\ RoundsLeft'
    <3> USE DEF Goto, TypeOK, RoundsLeft, InRound
    <3>1. CASE ReleaseTest(t)
      BY <3>1 DEF ReleaseTest
    <3>2. CASE ReleaseRaise(t)
      BY <3>2 DEF ReleaseRaise
    <3>3. CASE ReleaseClear(t)
      BY <3>3 DEF ReleaseClear
    <3> QED
      BY <2>4, <3>1, <3>2, <3>3
  <2>5. ASSUME NEW t \in Task, LowTest(t) \/ LowPull(t) PROVE TypeOK' /\ RoundsLeft'
    <3> USE DEF Goto, TypeOK, RoundsLeft, InRound
    <3>1. CASE LowTest(t)
      BY <3>1 DEF LowTest
    <3>2. CASE LowPull(t)
      BY <3>2 DEF LowPull, Device
    <3> QED
      BY <2>5, <3>1, <3>2
  <2>6. ASSUME NEW t \in Task, HighTest(t) \/ HighLift(t) PROVE TypeOK' /\ RoundsLeft'
    <3>1. CASE HighTest(t) /\ current_device = EEPROM
      BY <3>1 DEF HighTest, Goto, TypeOK, RoundsLeft, InRound
    <3>2. CASE HighTest(t) /\ current_device # EEPROM
      BY <3>2, RoundEnds DEF HighTest, TypeOK, InRound
    <3>3. CASE HighLift(t)
      BY <3>3, RoundEnds DEF HighLift, TypeOK, InRound
    <3> QED
      BY <2>6, <3>1, <3>2, <3>3
  <2>7. ASSUME NEW t \in Task, FlashStart(t) PROVE TypeOK' /\ RoundsLeft'
    <3>1. selected' \subseteq Device /\ busy' \in BOOLEAN
      BY <2>7 DEF FlashStart, TypeOK, Device
    <3> QED
      BY <2>7, <3>1 DEF FlashStart, Goto, TypeOK, RoundsLeft, InRound
  <2>8. ASSUME NEW t \in Task, FlashWait(t) PROVE TypeOK' /\ RoundsLeft'
    BY <2>8, RoundEnds DEF FlashWait, TypeOK, InRound
  <2>9. ASSUME NEW t \in Task, FlashFails(t) PROVE TypeOK' /\ RoundsLeft'
    BY <2>9 DEF FlashFails, Goto, TypeOK, RoundsLeft, InRound
  <2>10. CASE DriverPoll \/ DriverDone
    BY <2>10 DEF DriverPoll, DriverDone, Device, TypeOK, RoundsLeft
  <2>11. CASE UNCHANGED vars
    BY <2>11 DEF vars, TypeOK, RoundsLeft
  <2> QED
    BY <2>1, <2>2, <2>3, <2>4, <2>5, <2>6, <2>7, <2>8, <2>9, <2>10, <2>11 DEF Next, Continue
<1> QED
  BY <1>1, <1>2, PTL DEF Spec

\* Every variable of the coordinator and of the operations stays of its kind
\* (spi_coordinator.c, flash.c, eeprom.c).
THEOREM TypeCorrect == Spec => []TypeOK
BY TypesAndRounds, PTL

\* A step that leaves the coordinator's variable alone, and after which a task
\* that held the bus holds it, loses nothing.
LEMMA StillHeld ==
    ASSUME TypeOK, NeverLost, current_device' = current_device,
           NEW t \in Task, NEW place, Goto(t, place), Holding(t) => Holding(t)'
    PROVE  NeverLost'
<1> SUFFICES ASSUME current_device' # NONE PROVE \E u \in Task : Holding(u)'
  BY DEF NeverLost, Holding
<1>1. PICK u \in Task : Holding(u)
  BY DEF NeverLost
<1>2. CASE u = t
  BY <1>1, <1>2
<1>3. CASE u # t
  BY <1>1, <1>3 DEF TypeOK, Goto, Holding
<1> QED
  BY <1>2, <1>3

\* However the acquires and releases of any tasks interleave, a bus that is taken
\* is taken by an operation that will release it (spi_coordinator.c:31-56).
THEOREM BusNeverLost == Spec => []NeverLost
<1>1. Init => NeverLost
  BY DEF Init, NeverLost
<1>2. TypeOK /\ NeverLost /\ [Next]_vars => NeverLost'
  <2> SUFFICES ASSUME TypeOK, NeverLost, [Next]_vars PROVE NeverLost'
    OBVIOUS
  <2> USE DEF TypeOK, Goto, Holding
  <2>1. ASSUME NEW t \in Task, Begin(t) \/ AcquireTest(t) PROVE NeverLost'
    BY <2>1, StillHeld DEF Begin, AcquireTest
  <2>2. ASSUME NEW t \in Task, AcquireSet(t) PROVE NeverLost'
    BY <2>2 DEF AcquireSet, NeverLost
  <2>3. ASSUME NEW t \in Task, ReleaseTest(t) PROVE NeverLost'
    BY <2>3 DEF ReleaseTest, NeverLost
  <2>4. ASSUME NEW t \in Task, ReleaseRaise(t) PROVE NeverLost'
    BY <2>4, StillHeld DEF ReleaseRaise
  <2>5. ASSUME NEW t \in Task, ReleaseClear(t) PROVE NeverLost'
    BY <2>5 DEF ReleaseClear, NeverLost
  <2>6. ASSUME NEW t \in Task, LowTest(t) \/ LowPull(t) PROVE NeverLost'
    BY <2>6, StillHeld DEF LowTest, LowPull
  <2>7. ASSUME NEW t \in Task, HighTest(t) \/ HighLift(t) PROVE NeverLost'
    BY <2>7, StillHeld DEF HighTest, HighLift, NextRound
  <2>8. ASSUME NEW t \in Task, FlashStart(t) PROVE NeverLost'
    BY <2>8, StillHeld DEF FlashStart
  <2>9. ASSUME NEW t \in Task, FlashWait(t) \/ FlashFails(t) PROVE NeverLost'
    BY <2>9, StillHeld DEF FlashWait, FlashFails, NextRound
  <2>10. CASE DriverPoll \/ DriverDone \/ UNCHANGED vars
    BY <2>10 DEF DriverPoll, DriverDone, vars, NeverLost
  <2> QED
    BY <2>1, <2>2, <2>3, <2>4, <2>5, <2>6, <2>7, <2>8, <2>9, <2>10 DEF Next, Continue
<1> QED
  BY <1>1, <1>2, TypeCorrect, PTL DEF Spec

-----------------------------------------------------------------------------
\* As long as nobody took the bus from another or left the flash at work, one task
\* holds it, and only what that task does selects a chip.
OneHolder ==
    ~disputed =>
        /\ \A t, u \in Task : Holding(t) /\ Holding(u) => t = u
        /\ \A t \in Task : Holding(t) => current_device = DeviceOf(operation[t])
        /\ \A t \in Task : pc[t] \in {"low", "pull", "high", "lift"} => operation[t] = EEPROM
        /\ busy => \E t \in Task : pc[t] = "wait"
        /\ EEPROM \in selected => \E t \in Task : pc[t] \in {"high", "lift"}
        /\ FLASH \in selected => busy

\* Every step keeps the bus with one holder, or disputed.
LEMMA HolderStep == TypeOK /\ RoundsLeft /\ OneHolder /\ [Next]_vars => OneHolder'
<1> SUFFICES ASSUME TypeOK, RoundsLeft, OneHolder, [Next]_vars, ~disputed' PROVE OneHolder'
  BY DEF OneHolder
<1> USE NoneAssumption DEF TypeOK, OneHolder, Goto, Holding, NextRound, FLASH, EEPROM, Device, DeviceOf
<1>1. ASSUME NEW t \in Task, Begin(t) \/ AcquireTest(t) PROVE OneHolder'
  BY <1>1 DEF Begin, AcquireTest
<1>2. ASSUME NEW t \in Task, AcquireSet(t) PROVE OneHolder'
  <2>1. ~disputed /\ current_device = NONE
    BY <1>2 DEF AcquireSet
  <2>2. \A u \in Task : ~Holding(u)
    BY <2>1
  <2>3. ~busy /\ selected = {}
    BY <2>1, <2>2
  <2>4. \A u \in Task \ {t} : pc'[u] = pc[u]
    BY <1>2 DEF AcquireSet
  <2>5. \A u \in Task : Holding(u)' => u = t
    BY <2>2, <2>4
  <2>6. current_device' = DeviceOf(operation[t]) /\ UNCHANGED <<operation, busy, selected>>
    BY <1>2 DEF AcquireSet
  <2>7. pc'[t] \in {"low", "pull", "high", "lift"} => operation[t] = EEPROM
    BY <1>2 DEF AcquireSet
  <2> QED
    BY <2>3, <2>5, <2>6, <2>7
<1>3. ASSUME NEW t \in Task, ReleaseTest(t) \/ ReleaseRaise(t) \/ ReleaseClear(t) PROVE OneHolder'
  <2>1. CASE ReleaseTest(t)
    BY <2>1 DEF ReleaseTest
  <2>2. CASE ReleaseRaise(t)
    BY <2>2 DEF ReleaseRaise
  <2>3. CASE ReleaseClear(t)
    BY <2>3 DEF ReleaseClear
  <2> QED
    BY <1>3, <2>1, <2>2, <2>3
<1>4. ASSUME NEW t \in Task, LowTest(t) \/ LowPull(t) PROVE OneHolder'
  BY <1>4 DEF LowTest, LowPull
<1>5. ASSUME NEW t \in Task, HighTest(t) \/ HighLift(t) PROVE OneHolder'
  BY <1>5 DEF HighTest, HighLift
<1>6. ASSUME NEW t \in Task, FlashStart(t) \/ FlashWait(t) \/ FlashFails(t) PROVE OneHolder'
  BY <1>6 DEF FlashStart, FlashWait, FlashFails
<1>7. CASE DriverPoll \/ DriverDone \/ UNCHANGED vars
  BY <1>7 DEF DriverPoll, DriverDone, vars
<1> QED
  BY <1>1, <1>2, <1>3, <1>4, <1>5, <1>6, <1>7 DEF Next, Continue

\* For any number of tasks and rounds: unless two acquires raced or an erase was
\* given up, the chip selects of flash and EEPROM (spi_coordinator.c:46-91) exclude
\* each other, and both are high when nobody uses the bus.
THEOREM OneAtATime == Spec => []OneChipSelected
<1>1. Init => OneHolder
  BY DEF Init, OneHolder, Holding
<1>2. TypeOK /\ OneHolder => OneChipSelected
  BY DEF TypeOK, OneHolder, OneChipSelected, Holding, Device, FLASH, EEPROM
<1> QED
  BY <1>1, <1>2, HolderStep, TypesAndRounds, PTL DEF Spec
=============================================================================
