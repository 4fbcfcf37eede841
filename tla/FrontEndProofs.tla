--------------------------- MODULE FrontEndProofs ---------------------------
(***************************************************************************)
(* Theorems about FrontEnd.tla, for every width, every size of its rings   *)
(* that the assumption allows, and every program.                          *)
(*                                                                         *)
(* The inductive invariant has two layers.  RingsInv says where in its     *)
(* ring each thing in flight lies, and nothing about what it is.  PathInv  *)
(* is about two sequences, the instructions in flight and the entries of   *)
(* the debug buffer, each from its head: no modulus occurs in it.          *)
(***************************************************************************)
EXTENDS FrontEnd, FiniteSetTheorems, SequenceTheorems, TLAPS

-----------------------------------------------------------------------------
(* What the rings hold, by number from their heads.                        *)

Place(n, head, k) == (head + k) % n
IndexIn(p, k) == Place(PaySize, p.head, 2 * (k - 1))
InsnIn(p, k) == p.buf[IndexIn(p, k)]
EntryIn(d, k) == d.buf[Place(DebugSize, d.head, k - 1)]
QueuedIn(f, k) == f.q[Place(FQSize, f.head, k - 1)]

Indexes == 0..PaySize-1
PayRings == [buf : [Indexes -> Insn], head : Indexes, tail : Indexes, length : 0..PaySize]
DBRings == [buf : [0..DebugSize-1 -> Actual], head : 0..DebugSize-1,
            tail : 0..DebugSize-1, length : 0..DebugSize]
FQRings == [q : [0..FQSize-1 -> Indexes], head : 0..FQSize-1, tail : 0..FQSize-1,
            length : 0..FQSize]

\* How many instructions are in flight, and behind how many the Fetch Queue
\* and DECODE start.
InFlightCount == Len(window) + Len(rename2) + fq.length + Len(decode)
BeforeFQ == Len(window) + Len(rename2)
BeforeDecode == BeforeFQ + fq.length

ControlOK ==
  /\ code \in Programs /\ pc \in PCs /\ isaPC \in PCs
  /\ stalls \in SUBSET {"exception", "amo", "csr"} /\ fetching \in BOOLEAN
  /\ decode \in Seq(Indexes) /\ Len(decode) <= FetchWidth
  /\ rename2 \in Seq(Indexes) /\ Len(rename2) \in {0, DispatchWidth}
  /\ window \in Seq(Slot) /\ Len(window) <= ActiveSize
  /\ fetching => Len(decode) \in 1..FetchWidth-1

PayOK ==
  /\ pay \in PayRings
  /\ pay.tail = Place(PaySize, pay.head, pay.length)
  /\ pay.length = 2 * InFlightCount
  /\ \A k \in 1..Len(window) : window[k].index = IndexIn(pay, k)
  /\ \A k \in 1..Len(rename2) : rename2[k] = IndexIn(pay, Len(window) + k)
  /\ \A k \in 1..fq.length : QueuedIn(fq, k) = IndexIn(pay, BeforeFQ + k)
  /\ \A k \in 1..Len(decode) : decode[k] = IndexIn(pay, BeforeDecode + k)

FQOK == fq \in FQRings /\ fq.tail = Place(FQSize, fq.head, fq.length)

RingOfDB(d) ==
  d \in DBRings /\ Place(DebugSize, d.tail, 1) = Place(DebugSize, d.head, d.length)

\* The functional simulator keeps ahead: the buffer is full but for one entry,
\* or nothing has been fetched yet.
DBOK ==
  /\ RingOfDB(db)
  /\ db.length >= DebugSize - 1 \/ (pay = EmptyPay /\ db.head = 0)

RingsInv == ControlOK /\ PayOK /\ FQOK /\ DBOK

-----------------------------------------------------------------------------
(* The path in flight against the path of the program.                     *)

PathFn == [k \in 1..InFlightCount |-> InsnIn(pay, k)]
OracleOf(d) == [k \in 1..d.length |-> EntryIn(d, k)]

\* m entries of the program, of which the last leads to q.
Program(m, E, q) ==
  \A k \in 1..m :
    /\ E[k].next \in ArchNext(E[k].pc)
    /\ E[k].exception = Traps(E[k].pc, E[k].next)
    /\ E[k].next = IF k = m THEN q ELSE E[k + 1].pc

\* n instructions, each where the one before it leads, the last to q.
Linked(n, P, q) ==
  \A k \in 1..n : P[k].c_next = IF k = n THEN q ELSE P[k + 1].pc

\* The first one is the next of the program.
Starts(n, P, q, first) == first = IF n = 0 THEN q ELSE P[1].pc

KindsOK(n, P) ==
  \A k \in 1..n :
    /\ P[k].kind \in {NopKind, code[P[k].pc]}
    /\ P[k].kind \notin BranchKinds => P[k].c_next = IncrementPC(P[k].pc)
    /\ P[k].kind # NopKind => (P[k].fetch_exception <=> P[k].kind = "fault")

Serializing(insn) == StallOf(insn.kind) # {}

StallsOK(n, P, st) ==
  /\ \A k \in 1..n : P[k].kind = NopKind <=> \E s \in 1..k-1 : Serializing(P[s])
  /\ \A k \in 1..n : Serializing(P[k]) => st = StallOf(P[k].kind)
  /\ st # {} => \E k \in 1..n : Serializing(P[k])

OnThePath(k, P, E) == \A j \in 1..k : P[j].pc = E[j].pc

Matched(n, P, E, h) ==
  \A k \in 1..n :
    /\ P[k].good <=> OnThePath(k, P, E)
    /\ P[k].good => P[k].db_index = Place(DebugSize, h, k - 1)

\* What an instruction of the window has become.
Right(k, P, w) == P[k].good /\ \A j \in 1..k-1 : ~w[j].load_viol
ExecutedOK(k, P, E, w) ==
  /\ ~w[k].completed => P[k].c_next = P[k].next
  /\ P[k].kind = "load" =>
       /\ ~w[k].completed => ~w[k].exception
       /\ w[k].completed /\ Right(k, P, w) => (w[k].exception <=> E[k].exception)
  /\ P[k].kind # "load" =>
       (w[k].exception <=> P[k].kind = "syscall" \/ P[k].fetch_exception)
  /\ P[k].kind \in BranchKinds /\ w[k].completed /\ Right(k, P, w) =>
       P[k].c_next = E[k].next
  /\ w[k].load_viol => P[k].kind = "load" /\ ~w[k].exception /\ w[k].completed

WindowOK(n, P, E, w) ==
  /\ \A k \in 1..Len(w) : ExecutedOK(k, P, E, w)
  /\ \A k \in Len(w)+1..n : P[k].c_next = P[k].next

PathOK(n, P, w, q, st, m, E, h, last) ==
  /\ Program(m, E, last)
  /\ m = 0 => q = last
  /\ Linked(n, P, q)
  /\ m > 0 => Starts(n, P, q, E[1].pc)
  /\ KindsOK(n, P)
  /\ StallsOK(n, P, st)
  /\ Matched(n, P, E, h)
  /\ WindowOK(n, P, E, w)

PathInv ==
  PathOK(InFlightCount, PathFn, window, pc, stalls, db.length, OracleOf(db), db.head, isaPC)

FrontEndInv == RingsInv /\ PathInv

-----------------------------------------------------------------------------
(* Constants and arithmetic.                                               *)

LEMMA SizesOK ==
  /\ FetchWidth \in Nat \ {0} /\ DispatchWidth \in Nat \ {0} /\ FQSize \in Nat \ {0}
  /\ ActiveSize \in Nat \ {0} /\ PaySize \in Nat \ {0} /\ DebugSize \in Nat \ {0}
  /\ MaxInFlight \in Nat /\ 2 * MaxInFlight < PaySize /\ MaxInFlight < DebugSize
  /\ MaxInFlight = ActiveSize + DispatchWidth + FQSize + FetchWidth
<1>1. /\ FetchWidth \in Nat \ {0} /\ DispatchWidth \in Nat \ {0} /\ FQSize \in Nat \ {0}
      /\ ActiveSize \in Nat \ {0} /\ PaySize \in Nat \ {0} /\ DebugSize \in Nat \ {0}
  BY FrontEndAssumption
<1>2. PaySize > 2 * MaxInFlight /\ DebugSize > MaxInFlight
  BY FrontEndAssumption
<1>3. MaxInFlight = ActiveSize + DispatchWidth + FQSize + FetchWidth
  BY DEF MaxInFlight
<1>4. MaxInFlight \in Nat
  BY <1>1, <1>3
<1> QED
  BY <1>1, <1>2, <1>3, <1>4

LEMMA ModSmall == \A n \in Nat \ {0} : \A a \in 0..n-1 : a % n = a
OBVIOUS

LEMMA ModOnce == \A n \in Nat \ {0} : \A a \in n..n+n-1 : a % n = a - n
OBVIOUS

LEMMA PlaceIs ==
  ASSUME NEW n \in Nat \ {0}, NEW h \in 0..n-1, NEW k \in 0..n
  PROVE  /\ Place(n, h, k) = (IF h + k < n THEN h + k ELSE h + k - n)
         /\ Place(n, h, k) \in 0..n-1
<1> DEFINE a == h + k
<1>1. a \in 0..n+n-1
  OBVIOUS
<1> HIDE DEF a
<1>2. a % n = IF a < n THEN a ELSE a - n
  <2>1. CASE a < n
    BY <1>1, <2>1, ModSmall
  <2>2. CASE a >= n
    BY <1>1, <2>2, ModOnce
  <2> QED
    BY <1>1, <2>1, <2>2
<1>3. Place(n, h, k) = IF a < n THEN a ELSE a - n
  BY <1>2 DEF Place, a
<1> QED
  BY <1>3 DEF a

\* Two places less than the size of the ring apart are different.
LEMMA PlaceDistinct ==
  ASSUME NEW n \in Nat \ {0}, NEW h \in 0..n-1, NEW j \in 0..n-1, NEW k \in 0..n-1,
         Place(n, h, j) = Place(n, h, k)
  PROVE  j = k
<1> DEFINE x == Place(n, h, j)
           y == Place(n, h, k)
<1>1. j \in 0..n /\ k \in 0..n
  OBVIOUS
<1>2. x = IF h + j < n THEN h + j ELSE h + j - n
  BY <1>1, PlaceIs
<1>3. y = IF h + k < n THEN h + k ELSE h + k - n
  BY <1>1, PlaceIs
<1>4. x = y
  OBVIOUS
<1> HIDE DEF x, y
<1> QED
  BY <1>2, <1>3, <1>4

\* The place k after the place j after the head.
LEMMA PlaceThen ==
  ASSUME NEW n \in Nat \ {0}, NEW h \in 0..n-1, NEW j \in 0..n, NEW k \in 0..n, j + k <= n
  PROVE  Place(n, Place(n, h, j), k) = Place(n, h, j + k)
<1> DEFINE x == Place(n, h, j)
<1>1. x \in 0..n-1 /\ x = IF h + j < n THEN h + j ELSE h + j - n
  BY PlaceIs
<1> HIDE DEF x
<1>2. Place(n, x, k) = IF x + k < n THEN x + k ELSE x + k - n
  BY <1>1, PlaceIs
<1>3. j + k \in 0..n
  OBVIOUS
<1>4. Place(n, h, j + k) = IF h + (j + k) < n THEN h + (j + k) ELSE h + (j + k) - n
  BY <1>3, PlaceIs
<1>5. Place(n, x, k) = Place(n, h, j + k)
  BY <1>1, <1>2, <1>4
<1> QED
  BY <1>5 DEF x

\* Every place is some way behind the head.
LEMMA PlaceExists ==
  ASSUME NEW n \in Nat \ {0}, NEW h \in 0..n-1, NEW i \in 0..n-1
  PROVE  \E k \in 0..n-1 : i = Place(n, h, k)
<1> DEFINE k == IF i >= h THEN i - h ELSE n + i - h
<1>1. k \in 0..n-1
  OBVIOUS
<1>2. Place(n, h, k) = IF h + k < n THEN h + k ELSE h + k - n
  <2> HIDE DEF k
  <2> QED
    BY <1>1, PlaceIs
<1> QED
  BY <1>1, <1>2

\* How far a place is from the head, as rollback() computes it.
LEMMA PlaceDistance ==
  ASSUME NEW n \in Nat \ {0}, NEW h \in 0..n-1, NEW k \in 0..n-1
  PROVE  (n + Place(n, h, k) - h) % n = k
<1> DEFINE x == Place(n, h, k)
           y == n + x - h
<1>1. x \in 0..n-1 /\ x = IF h + k < n THEN h + k ELSE h + k - n
  BY PlaceIs
<1> HIDE DEF x
<1>2. y = k \/ y = n + k
  BY <1>1
<1> HIDE DEF y
<1>3. y % n = k
  <2>1. CASE y = k
    BY <2>1, ModSmall
  <2>2. CASE y = n + k
    <3>1. y \in n..n+n-1
      BY <2>2
    <3> QED
      BY <2>2, <3>1, ModOnce
  <2> QED
    BY <1>2, <2>1, <2>2
<1> QED
  BY <1>3 DEF x, y

\* The place before, as map_to_actual() computes it.
LEMMA PlaceBefore ==
  ASSUME NEW n \in Nat \ {0}, NEW h \in 0..n-1, NEW k \in 2..n-1
  PROVE  (Place(n, h, k) + n - 2) % n = Place(n, h, k - 2)
<1> DEFINE x == Place(n, h, k)
           z == Place(n, h, k - 2)
           y == x + n - 2
<1>1. x \in 0..n-1 /\ x = IF h + k < n THEN h + k ELSE h + k - n
  BY PlaceIs
<1>2. z \in 0..n-1 /\ z = IF h + (k - 2) < n THEN h + (k - 2) ELSE h + (k - 2) - n
  <2>1. k - 2 \in 0..n
    OBVIOUS
  <2> QED
    BY <2>1, PlaceIs
<1> HIDE DEF x, z
<1>3. y = z \/ y = n + z
  BY <1>1, <1>2
<1> HIDE DEF y
<1>4. y % n = z
  <2>1. CASE y = z
    BY <1>2, <2>1, ModSmall
  <2>2. CASE y = n + z
    <3>1. y \in n..n+n-1
      BY <1>2, <2>2
    <3>2. y % n = y - n
      BY <3>1, ModOnce
    <3> QED
      BY <1>2, <2>2, <3>2
  <2> QED
    BY <1>3, <2>1, <2>2
<1> QED
  BY <1>4 DEF x, y, z

\* The indices of the first instructions in flight.
LEMMA IndexType ==
  ASSUME NEW p, p.head \in Indexes, NEW k \in 1..MaxInFlight+1
  PROVE  IndexIn(p, k) \in Indexes
<1>1. 2 * (k - 1) \in 0..PaySize
  BY SizesOK
<1> QED
  BY <1>1, PlaceIs, SizesOK DEF IndexIn, Indexes

LEMMA IndexDistinct ==
  ASSUME NEW p, p.head \in Indexes, NEW j \in 1..MaxInFlight+1, NEW k \in 1..MaxInFlight+1,
         IndexIn(p, j) = IndexIn(p, k)
  PROVE  j = k
<1>1. 2 * (j - 1) \in 0..PaySize-1 /\ 2 * (k - 1) \in 0..PaySize-1
  BY SizesOK
<1>2. 2 * (j - 1) = 2 * (k - 1)
  BY <1>1, PlaceDistinct, SizesOK DEF IndexIn, Indexes
<1> QED
  BY <1>2

LEMMA EntryDistinct ==
  ASSUME NEW h \in 0..DebugSize-1, NEW j \in 1..DebugSize, NEW k \in 1..DebugSize,
         Place(DebugSize, h, j - 1) = Place(DebugSize, h, k - 1)
  PROVE  j = k
<1>1. j - 1 \in 0..DebugSize-1 /\ k - 1 \in 0..DebugSize-1
  BY SizesOK
<1>2. j - 1 = k - 1
  BY <1>1, PlaceDistinct, SizesOK
<1> QED
  BY <1>2

LEMMA IncrementType == \A p \in PCs : IncrementPC(p) \in PCs
<1>1. Cardinality(PCs) \in Nat /\ PCs = 0..Cardinality(PCs)-1 /\ Handler \in PCs
  BY FrontEndAssumption, FS_CardinalityType
<1> DEFINE n == Cardinality(PCs)
<1>2. n \in Nat \ {0} /\ PCs = 0..n-1
  BY <1>1
<1> HIDE DEF n
<1>3. \A p \in 0..n-1 : Place(n, p, 1) \in 0..n-1
  BY <1>2, PlaceIs
<1> QED
  BY <1>2, <1>3 DEF IncrementPC, Place, n

LEMMA KindOfCode == ASSUME code \in Programs, NEW p \in PCs PROVE code[p] \in Kinds
BY FrontEndAssumption

LEMMA ArchNextType ==
  ASSUME code \in Programs, NEW p \in PCs
  PROVE  ArchNext(p) \subseteq PCs
<1>1. Target[p] \in PCs /\ Handler \in PCs /\ Landings \subseteq PCs /\ IncrementPC(p) \in PCs
  BY FrontEndAssumption, IncrementType
<1> QED
  BY <1>1 DEF ArchNext

LEMMA PredictionsType ==
  ASSUME NEW kind, NEW p \in PCs
  PROVE  Predictions(kind, p) \subseteq PCs
<1>1. Target[p] \in PCs /\ IncrementPC(p) \in PCs
  BY FrontEndAssumption, IncrementType
<1> QED
  BY <1>1 DEF Predictions

LEMMA EmptyTypes == NoInsn \in Insn /\ NoActual \in Actual /\ Handler \in PCs /\ 0 \in PCs
<1>1. Handler \in PCs /\ NoIndex \in 0..DebugSize
  BY FrontEndAssumption, SizesOK DEF NoIndex
<1>2. 0 \in PCs
  BY <1>1, FrontEndAssumption, FS_CardinalityType
<1> QED
  BY <1>1, <1>2 DEF NoInsn, NoActual, Insn, Actual, Kinds, NopKind

-----------------------------------------------------------------------------
(* The debug buffer.                                                       *)

LEMMA OracleAt ==
  ASSUME NEW d, d.length \in Nat, NEW k \in 1..d.length
  PROVE  OracleOf(d)[k] = EntryIn(d, k)
BY DEF OracleOf

LEMMA DBPlaces ==
  ASSUME NEW d \in DBRings, NEW k \in 1..DebugSize
  PROVE  Place(DebugSize, d.head, k - 1) \in 0..DebugSize-1 /\ EntryIn(d, k) \in Actual
<1>1. k - 1 \in 0..DebugSize
  BY SizesOK
<1>2. Place(DebugSize, d.head, k - 1) \in 0..DebugSize-1
  BY <1>1, PlaceIs, SizesOK DEF DBRings
<1> QED
  BY <1>2 DEF EntryIn, DBRings

LEMMA OracleType ==
  ASSUME NEW d \in DBRings, NEW k \in 1..d.length
  PROVE  OracleOf(d)[k] \in Actual
<1>1. k \in 1..DebugSize /\ d.length \in Nat
  BY SizesOK DEF DBRings
<1> QED
  BY <1>1, DBPlaces, OracleAt

LEMMA DBPush ==
  ASSUME NEW d, RingOfDB(d), d.length < DebugSize, code \in Programs, isaPC \in PCs,
         NEW n \in PCs
  PROVE  /\ RingOfDB(PushActual(d, n))
         /\ PushActual(d, n).head = d.head
         /\ PushActual(d, n).length = d.length + 1
         /\ \A k \in 1..d.length : EntryIn(PushActual(d, n), k) = EntryIn(d, k)
         /\ EntryIn(PushActual(d, n), d.length + 1)
              = [pc |-> isaPC, next |-> n, exception |-> Traps(isaPC, n)]
<1> DEFINE t == (d.tail + 1) % DebugSize
           e == [pc |-> isaPC, next |-> n, exception |-> Traps(isaPC, n)]
           r == PushActual(d, n)
<1>1. d \in DBRings /\ d.length \in Nat /\ d.length + 1 \in 0..DebugSize /\ DebugSize \in Nat \ {0}
  BY SizesOK DEF RingOfDB, DBRings
<1>2. t = Place(DebugSize, d.head, d.length)
  BY DEF RingOfDB, Place
<1>3. t \in 0..DebugSize-1
  BY <1>1, <1>2, PlaceIs DEF DBRings
<1>4. e \in Actual
  BY DEF Actual, Traps
<1>5. r = [d EXCEPT !.buf[t] = e, !.tail = t, !.length = @ + 1]
  BY DEF PushActual
<1> HIDE DEF t, e, r
<1>6. /\ r \in DBRings /\ r.head = d.head /\ r.length = d.length + 1 /\ r.tail = t
      /\ r.buf = [d.buf EXCEPT ![t] = e]
  BY <1>1, <1>3, <1>4, <1>5 DEF DBRings
<1>7. Place(DebugSize, t, 1) = Place(DebugSize, d.head, d.length + 1)
  BY <1>1, <1>2, PlaceThen DEF DBRings
<1>8. ASSUME NEW k \in 1..d.length PROVE EntryIn(r, k) = EntryIn(d, k)
  <2>1. k - 1 \in 0..DebugSize-1 /\ d.length \in 0..DebugSize-1 /\ k - 1 # d.length
    BY <1>1
  <2>2. Place(DebugSize, d.head, k - 1) # t
    BY <2>1, <1>1, <1>2, PlaceDistinct DEF DBRings
  <2> QED
    BY <2>2, <1>1, <1>6 DEF EntryIn, DBRings
<1>9. EntryIn(r, d.length + 1) = e
  <2>1. (d.length + 1) - 1 = d.length
    BY <1>1
  <2>2. Place(DebugSize, r.head, (d.length + 1) - 1) = t
    BY <2>1, <1>2, <1>6
  <2> QED
    BY <2>2, <1>1, <1>3, <1>6 DEF EntryIn, DBRings
<1>10. RingOfDB(r)
  BY <1>6, <1>7 DEF RingOfDB
<1> QED
  BY <1>6, <1>8, <1>9, <1>10 DEF r, e

LEMMA DBPop ==
  ASSUME NEW d, RingOfDB(d), d.length > 0
  PROVE  /\ RingOfDB(PopActual(d))
         /\ PopActual(d).head = Place(DebugSize, d.head, 1)
         /\ PopActual(d).length = d.length - 1
         /\ \A k \in 1..d.length-1 : EntryIn(PopActual(d), k) = EntryIn(d, k + 1)
<1> DEFINE h == Place(DebugSize, d.head, 1)
           r == PopActual(d)
<1>1. /\ d \in DBRings /\ d.length \in 1..DebugSize /\ DebugSize \in Nat \ {0}
      /\ d.head \in 0..DebugSize-1
  BY SizesOK DEF RingOfDB, DBRings
<1>2. h \in 0..DebugSize-1
  BY <1>1, PlaceIs
<1>3. r = [d EXCEPT !.buf[d.head] = NoActual, !.head = h, !.length = @ - 1]
  BY DEF PopActual, Place
<1> HIDE DEF h, r
<1>4. /\ r \in DBRings /\ r.head = h /\ r.length = d.length - 1 /\ r.tail = d.tail
      /\ r.buf = [d.buf EXCEPT ![d.head] = NoActual]
  <2>1. /\ NoActual \in Actual /\ d.length - 1 \in 0..DebugSize /\ d.length \in Nat
        /\ [d.buf EXCEPT ![d.head] = NoActual] \in [0..DebugSize-1 -> Actual]
    BY <1>1, EmptyTypes DEF DBRings
  <2> QED
    BY <2>1, <1>1, <1>2, <1>3 DEF DBRings
<1>5. ASSUME NEW k \in 0..d.length-1
      PROVE Place(DebugSize, h, k) = Place(DebugSize, d.head, k + 1)
  <2>1. 1 \in 0..DebugSize /\ k \in 0..DebugSize /\ 1 + k <= DebugSize /\ 1 + k = k + 1
    BY <1>1
  <2> QED
    BY <2>1, <1>1, PlaceThen DEF h
<1>6. Place(DebugSize, d.tail, 1) = Place(DebugSize, h, d.length - 1)
  <2>1. d.length - 1 \in 0..d.length-1 /\ (d.length - 1) + 1 = d.length
    BY <1>1
  <2>2. Place(DebugSize, h, d.length - 1) = Place(DebugSize, d.head, (d.length - 1) + 1)
    BY <2>1, <1>5
  <2> QED
    BY <2>1, <2>2 DEF RingOfDB
<1>7. ASSUME NEW k \in 1..d.length-1 PROVE EntryIn(r, k) = EntryIn(d, k + 1)
  <2>1. k - 1 \in 0..d.length-1 /\ (k - 1) + 1 = k /\ (k + 1) - 1 = k /\ k \in 0..DebugSize-1
        /\ 0 \in 0..DebugSize-1 /\ 0 \in 0..DebugSize /\ k # 0 /\ d.head + 0 = d.head
        /\ d.head < DebugSize
    BY <1>1
  <2>2. Place(DebugSize, h, k - 1) = Place(DebugSize, d.head, (k - 1) + 1)
    BY <2>1, <1>5
  <2>3. Place(DebugSize, h, k - 1) = Place(DebugSize, d.head, k)
    BY <2>1, <2>2
  <2>4. d.head = Place(DebugSize, d.head, 0)
    BY <2>1, <1>1, PlaceIs
  <2>5. Place(DebugSize, d.head, k) # d.head
    BY <2>1, <2>4, <1>1, PlaceDistinct
  <2>6. EntryIn(d, k + 1) = d.buf[Place(DebugSize, d.head, k)]
    BY <2>1 DEF EntryIn
  <2> QED
    BY <2>3, <2>5, <2>6, <1>1, <1>4 DEF EntryIn, DBRings
<1>8. RingOfDB(r)
  BY <1>4, <1>6 DEF RingOfDB
<1> QED
  BY <1>4, <1>7, <1>8 DEF r, h

LEMMA ProgramPush ==
  ASSUME NEW m \in Nat, NEW E, NEW F, NEW q, NEW r, Program(m, E, q),
         \A k \in 1..m : F[k] = E[k],
         F[m + 1] = [pc |-> q, next |-> r, exception |-> Traps(q, r)], r \in ArchNext(q)
  PROVE  Program(m + 1, F, r)
<1> SUFFICES ASSUME NEW k \in 1..m+1
             PROVE  /\ F[k].next \in ArchNext(F[k].pc)
                    /\ F[k].exception = Traps(F[k].pc, F[k].next)
                    /\ F[k].next = IF k = m + 1 THEN r ELSE F[k + 1].pc
  BY DEF Program
<1>1. CASE k = m + 1
  BY <1>1
<1>2. CASE k = m
  <2>1. k \in 1..m /\ k # m + 1 /\ k + 1 = m + 1
    BY <1>2
  <2>2. F[k] = E[k] /\ F[k + 1].pc = q
    BY <2>1
  <2> QED
    BY <2>1, <2>2, <1>2 DEF Program
<1>3. CASE k < m
  <2>1. k \in 1..m /\ k # m + 1 /\ k # m /\ k + 1 \in 1..m
    BY <1>3
  <2>2. F[k] = E[k] /\ F[k + 1] = E[k + 1]
    BY <2>1
  <2> QED
    BY <2>1, <2>2 DEF Program
<1> QED
  BY <1>1, <1>2, <1>3

LEMMA ProgramPop ==
  ASSUME NEW m \in Nat \ {0}, NEW E, NEW F, NEW q, Program(m, E, q),
         \A k \in 1..m-1 : F[k] = E[k + 1]
  PROVE  Program(m - 1, F, q)
<1> SUFFICES ASSUME NEW k \in 1..m-1
             PROVE  /\ F[k].next \in ArchNext(F[k].pc)
                    /\ F[k].exception = Traps(F[k].pc, F[k].next)
                    /\ F[k].next = IF k = m - 1 THEN q ELSE F[k + 1].pc
  BY DEF Program
<1>1. k + 1 \in 1..m /\ F[k] = E[k + 1]
  OBVIOUS
<1>2. CASE k = m - 1
  <2>1. k + 1 = m
    BY <1>2
  <2> QED
    BY <1>1, <1>2, <2>1 DEF Program
<1>3. CASE k # m - 1
  <2>1. k + 1 # m /\ k + 1 \in 1..m-1
    BY <1>3
  <2>2. F[k + 1] = E[(k + 1) + 1]
    BY <2>1
  <2> QED
    BY <1>1, <1>3, <2>1, <2>2 DEF Program
<1> QED
  BY <1>2, <1>3

\* pop(), which first lets the functional simulator fill the buffer.
LEMMA StepAndPopOracle ==
  ASSUME RingOfDB(db), db.length > 0, Program(db.length, OracleOf(db), isaPC),
         code \in Programs, isaPC \in PCs, StepAndPop
  PROVE  /\ RingOfDB(db') /\ isaPC' \in PCs
         /\ db'.head = Place(DebugSize, db.head, 1)
         /\ db'.length = IF Hungry THEN db.length ELSE db.length - 1
         /\ Program(db'.length, OracleOf(db'), isaPC')
         /\ \A k \in 1..db.length-1 : OracleOf(db')[k] = OracleOf(db)[k + 1]
         /\ db'.length > 0 => OracleOf(db')[1].pc = OracleOf(db)[1].next
<1> DEFINE m == db.length
           E == OracleOf(db)
<1>1. m \in 1..DebugSize /\ m \in Nat \ {0} /\ DebugSize \in Nat
  BY SizesOK DEF RingOfDB, DBRings
<1>2. \A k \in 1..m : E[k] = EntryIn(db, k)
  BY <1>1, OracleAt
<1>3. CASE Hungry
  <2>1. PICK n \in ArchNext(isaPC) : db' = PopActual(PushActual(db, n)) /\ isaPC' = n
    BY <1>3 DEF StepAndPop
  <2> DEFINE d == PushActual(db, n)
             F == OracleOf(d)
  <2>2. n \in PCs
    BY ArchNextType
  <2>3. /\ RingOfDB(d) /\ d.head = db.head /\ d.length = m + 1
        /\ \A k \in 1..m : EntryIn(d, k) = EntryIn(db, k)
        /\ EntryIn(d, m + 1) = [pc |-> isaPC, next |-> n, exception |-> Traps(isaPC, n)]
    BY <1>3, <2>2, DBPush DEF Hungry
  <2> HIDE DEF d
  <2>4. /\ RingOfDB(db') /\ db'.head = Place(DebugSize, d.head, 1)
        /\ db'.length = d.length - 1
        /\ \A k \in 1..d.length-1 : EntryIn(db', k) = EntryIn(d, k + 1)
    <3>1. db' = PopActual(d) /\ d.length > 0
      BY <1>1, <2>1, <2>3 DEF d
    <3> QED
      BY <3>1, <2>3, DBPop
  <2>5. \A k \in 1..m+1 : F[k] = EntryIn(d, k)
    BY <1>1, <2>3, OracleAt
  <2>6. db'.length = m /\ d.length - 1 = m
    BY <1>1, <2>3, <2>4
  <2>7. \A k \in 1..m : OracleOf(db')[k] = EntryIn(db', k)
    BY <1>1, <2>6, OracleAt
  <2>8. \A k \in 1..m : OracleOf(db')[k] = F[k + 1]
    BY <1>1, <2>4, <2>5, <2>6, <2>7
  <2>9. /\ \A k \in 1..m : F[k] = E[k]
        /\ F[m + 1] = [pc |-> isaPC, next |-> n, exception |-> Traps(isaPC, n)]
    BY <1>1, <1>2, <2>3, <2>5
  <2> HIDE DEF F, E
  <2>10. Program(m + 1, F, n)
    <3>1. Program(m, E, isaPC)
      BY DEF E
    <3> QED
      BY <1>1, <2>1, <2>9, <3>1, ProgramPush
  <2>11. Program(m, OracleOf(db'), n)
    <3>1. m + 1 \in Nat \ {0} /\ (m + 1) - 1 = m
      BY <1>1
    <3> HIDE DEF m
    <3>2. Program((m + 1) - 1, OracleOf(db'), n)
      BY <2>8, <2>10, <3>1, ProgramPop
    <3> QED
      BY <3>1, <3>2
  <2>12. \A k \in 1..m-1 : OracleOf(db')[k] = E[k + 1]
    BY <1>1, <2>8, <2>9
  <2>13. OracleOf(db')[1].pc = E[1].next
    <3>1. 1 \in 1..m /\ 1 \in 1..m+1 /\ 1 # m + 1
      BY <1>1
    <3>2. F[1].next = F[1 + 1].pc
      BY <2>10, <3>1 DEF Program
    <3> QED
      BY <2>8, <2>9, <3>1, <3>2
  <2> QED
    BY <1>3, <2>1, <2>2, <2>3, <2>4, <2>6, <2>11, <2>12, <2>13 DEF E
<1>4. CASE ~Hungry
  <2>1. db' = PopActual(db) /\ isaPC' = isaPC
    BY <1>4 DEF StepAndPop
  <2>2. /\ RingOfDB(db') /\ db'.head = Place(DebugSize, db.head, 1)
        /\ db'.length = m - 1
        /\ \A k \in 1..m-1 : EntryIn(db', k) = EntryIn(db, k + 1)
    BY <2>1, DBPop
  <2>3. \A k \in 1..m-1 : OracleOf(db')[k] = EntryIn(db', k)
    BY <1>1, <2>2, OracleAt
  <2>4. \A k \in 1..m-1 : OracleOf(db')[k] = E[k + 1]
    BY <1>1, <1>2, <2>2, <2>3
  <2> HIDE DEF E
  <2>5. Program(m - 1, OracleOf(db'), isaPC)
    <3>1. Program(m, E, isaPC)
      BY DEF E
    <3> QED
      BY <1>1, <2>4, <3>1, ProgramPop
  <2>6. ASSUME m - 1 > 0 PROVE OracleOf(db')[1].pc = E[1].next
    <3>1. 1 \in 1..m /\ 1 \in 1..m-1 /\ 1 # m
      BY <1>1, <2>6
    <3>2. Program(m, E, isaPC)
      BY DEF E
    <3>3. E[1].next = E[1 + 1].pc
      BY <3>1, <3>2 DEF Program
    <3> QED
      BY <2>4, <3>1, <3>3
  <2> QED
    BY <1>4, <2>1, <2>2, <2>4, <2>5, <2>6 DEF E
<1> QED
  BY <1>3, <1>4

-----------------------------------------------------------------------------
(* The payload buffer.                                                     *)

LEMMA PayPushOK ==
  ASSUME pay \in PayRings, pay.tail = Place(PaySize, pay.head, pay.length),
         NEW n \in 0..MaxInFlight-1, pay.length = 2 * n, NEW insn \in Insn
  PROVE  /\ PayPush(insn) \in PayRings
         /\ PayPush(insn).head = pay.head
         /\ PayPush(insn).length = 2 * (n + 1)
         /\ PayPush(insn).tail = Place(PaySize, pay.head, 2 * (n + 1))
         /\ \A k \in 1..n : InsnIn(PayPush(insn), k) = InsnIn(pay, k)
         /\ InsnIn(PayPush(insn), n + 1) = insn
         /\ pay.tail = IndexIn(pay, n + 1)
<1> DEFINE r == PayPush(insn)
           t == Place(PaySize, pay.tail, 2)
<1>1. /\ PaySize \in Nat \ {0} /\ 2 * (n + 1) \in 0..PaySize /\ 2 * n \in 0..PaySize /\ n \in Nat
      /\ pay.head \in Indexes /\ pay.tail \in Indexes /\ pay.head \in 0..PaySize-1
      /\ 2 * n + 2 = 2 * (n + 1) /\ 2 \in 0..PaySize /\ MaxInFlight \in Nat
  BY SizesOK DEF PayRings, Indexes
<1>2. t = Place(PaySize, pay.head, 2 * (n + 1))
  BY <1>1, PlaceThen
<1>3. t \in Indexes
  BY <1>1, <1>2, PlaceIs DEF Indexes
<1>4. r = [pay EXCEPT !.buf[pay.tail] = insn, !.tail = t, !.length = @ + 2]
  BY DEF PayPush, Place
<1> HIDE DEF t, r
<1>5. /\ r \in PayRings /\ r.head = pay.head /\ r.length = 2 * (n + 1) /\ r.tail = t
      /\ r.buf = [pay.buf EXCEPT ![pay.tail] = insn]
  BY <1>1, <1>3, <1>4 DEF PayRings
<1>6. pay.tail = IndexIn(pay, n + 1)
  <2>1. (n + 1) - 1 = n
    BY <1>1
  <2> QED
    BY <2>1 DEF IndexIn
<1>7. ASSUME NEW k \in 1..n PROVE InsnIn(r, k) = InsnIn(pay, k)
  <2>1. k \in 1..MaxInFlight+1 /\ n + 1 \in 1..MaxInFlight+1 /\ k # n + 1
    BY <1>1
  <2>2. IndexIn(pay, k) # pay.tail
    BY <2>1, <1>1, <1>6, IndexDistinct
  <2> QED
    BY <2>2, <1>5 DEF InsnIn, IndexIn, PayRings
<1>8. InsnIn(r, n + 1) = insn
  <2>1. IndexIn(r, n + 1) = pay.tail
    BY <1>5, <1>6 DEF IndexIn
  <2> QED
    BY <2>1, <1>1, <1>5 DEF InsnIn, PayRings
<1> QED
  BY <1>2, <1>5, <1>6, <1>7, <1>8 DEF r

LEMMA PayPopOK ==
  ASSUME pay \in PayRings, pay.tail = Place(PaySize, pay.head, pay.length),
         NEW n \in 1..MaxInFlight, pay.length = 2 * n
  PROVE  /\ PayPop \in PayRings
         /\ PayPop.length = 2 * (n - 1)
         /\ PayPop.tail = Place(PaySize, PayPop.head, 2 * (n - 1))
         /\ \A k \in 1..n-1 : IndexIn(PayPop, k) = IndexIn(pay, k + 1)
         /\ \A k \in 1..n-1 : InsnIn(PayPop, k) = InsnIn(pay, k + 1)
<1> DEFINE r == PayPop
           h == Place(PaySize, pay.head, 2)
<1>1. /\ PaySize \in Nat \ {0} /\ n \in Nat \ {0} /\ 2 * n \in 2..PaySize-1
      /\ pay.head \in Indexes /\ pay.head \in 0..PaySize-1 /\ 2 \in 0..PaySize
      /\ MaxInFlight \in Nat /\ 2 * (n - 1) = 2 * n - 2
  BY SizesOK DEF PayRings, Indexes
<1>2. h \in Indexes
  BY <1>1, PlaceIs DEF Indexes
<1>3. r = [pay EXCEPT !.buf[pay.head] = NoInsn, !.head = h, !.length = @ - 2]
  BY DEF PayPop, Place
<1> HIDE DEF h, r
<1>4. /\ r \in PayRings /\ r.head = h /\ r.length = 2 * (n - 1) /\ r.tail = pay.tail
      /\ r.buf = [pay.buf EXCEPT ![pay.head] = NoInsn]
  <2>1. /\ 2 * n - 2 \in 0..PaySize
        /\ [pay.buf EXCEPT ![pay.head] = NoInsn] \in [Indexes -> Insn]
    BY <1>1, EmptyTypes DEF PayRings
  <2> QED
    BY <2>1, <1>1, <1>2, <1>3 DEF PayRings
<1>5. ASSUME NEW k \in 0..n-1
      PROVE Place(PaySize, h, 2 * k) = Place(PaySize, pay.head, 2 * (k + 1))
  <2>1. 2 * k \in 0..PaySize /\ 2 + 2 * k <= PaySize /\ 2 + 2 * k = 2 * (k + 1)
    BY <1>1
  <2> QED
    BY <2>1, <1>1, PlaceThen DEF h
<1>6. ASSUME NEW k \in 1..n-1 PROVE IndexIn(r, k) = IndexIn(pay, k + 1)
  <2>1. k - 1 \in 0..n-1 /\ (k - 1) + 1 = (k + 1) - 1
    BY <1>1
  <2>2. Place(PaySize, h, 2 * (k - 1)) = Place(PaySize, pay.head, 2 * ((k - 1) + 1))
    BY <2>1, <1>5
  <2> QED
    BY <2>1, <2>2, <1>4 DEF IndexIn
<1>7. ASSUME NEW k \in 1..n-1 PROVE InsnIn(r, k) = InsnIn(pay, k + 1)
  <2>1. k + 1 \in 1..MaxInFlight+1 /\ 1 \in 1..MaxInFlight+1 /\ k + 1 # 1
    BY <1>1
  <2>2. IndexIn(pay, 1) = pay.head
    <3>1. 2 * (1 - 1) = 0 /\ pay.head + 0 = pay.head /\ pay.head + 0 < PaySize /\ 0 \in 0..PaySize
      BY <1>1
    <3> QED
      BY <3>1, <1>1, PlaceIs DEF IndexIn
  <2>3. IndexIn(pay, k + 1) # pay.head
    BY <2>1, <2>2, <1>1, IndexDistinct
  <2> QED
    BY <2>3, <1>4, <1>6 DEF InsnIn, PayRings
<1>8. r.tail = Place(PaySize, h, 2 * (n - 1))
  <2>1. n - 1 \in 0..n-1 /\ (n - 1) + 1 = n
    BY <1>1
  <2>2. Place(PaySize, h, 2 * (n - 1)) = Place(PaySize, pay.head, 2 * ((n - 1) + 1))
    BY <2>1, <1>5
  <2> QED
    BY <2>1, <2>2, <1>4
<1> QED
  BY <1>4, <1>6, <1>7, <1>8 DEF r

LEMMA PayRollbackOK ==
  ASSUME NEW p \in PayRings, NEW n \in 1..MaxInFlight
  PROVE  /\ PayRollback(p, IndexIn(p, n)) \in PayRings
         /\ PayRollback(p, IndexIn(p, n)).head = p.head
         /\ PayRollback(p, IndexIn(p, n)).length = 2 * n
         /\ PayRollback(p, IndexIn(p, n)).tail = Place(PaySize, p.head, 2 * n)
         /\ \A k \in 1..n : InsnIn(PayRollback(p, IndexIn(p, n)), k) = InsnIn(p, k)
<1> DEFINE i == IndexIn(p, n)
           r == PayRollback(p, i)
           t == RolledBackTail(i)
           len == (PaySize + t - p.head) % PaySize
           Kept(j) == (PaySize + j - p.head) % PaySize < len
<1>1. /\ PaySize \in Nat \ {0} /\ n \in Nat \ {0} /\ 2 * n \in 0..PaySize-1
      /\ 2 * (n - 1) \in 0..PaySize-1 /\ 2 * (n - 1) + 2 = 2 * n
      /\ p.head \in 0..PaySize-1 /\ 2 \in 0..PaySize
  BY SizesOK DEF PayRings, Indexes
<1>2. t = Place(PaySize, p.head, 2 * n)
  <2>1. t = Place(PaySize, Place(PaySize, p.head, 2 * (n - 1)), 2)
    BY DEF RolledBackTail, Place, IndexIn
  <2>2. 2 * (n - 1) \in 0..PaySize /\ 2 * (n - 1) + 2 <= PaySize
    BY <1>1
  <2>3. t = Place(PaySize, p.head, 2 * (n - 1) + 2)
    BY <1>1, <2>1, <2>2, PlaceThen
  <2> QED
    BY <1>1, <2>3
<1>3. len = 2 * n
  BY <1>1, <1>2, PlaceDistance
<1>4. ASSUME NEW k \in 1..n PROVE Kept(IndexIn(p, k))
  <2>1. 2 * (k - 1) \in 0..PaySize-1 /\ 2 * (k - 1) < 2 * n
    BY <1>1
  <2>2. (PaySize + Place(PaySize, p.head, 2 * (k - 1)) - p.head) % PaySize = 2 * (k - 1)
    BY <1>1, <2>1, PlaceDistance
  <2> QED
    BY <2>1, <2>2, <1>3 DEF IndexIn
<1>5. r = [p EXCEPT !.tail = t, !.length = len,
                    !.buf = [j \in Indexes |-> IF Kept(j) THEN p.buf[j] ELSE NoInsn]]
  BY DEF PayRollback, Indexes
<1>6. t \in Indexes /\ len \in 0..PaySize
  <2>1. 2 * n \in 0..PaySize
    BY <1>1
  <2> QED
    BY <2>1, <1>1, <1>2, <1>3, PlaceIs DEF Indexes
<1> HIDE DEF Kept, r, t, len
<1>7. /\ r \in PayRings /\ r.head = p.head /\ r.tail = t /\ r.length = len
      /\ r.buf = [j \in Indexes |-> IF Kept(j) THEN p.buf[j] ELSE NoInsn]
  <2>1. [j \in Indexes |-> IF Kept(j) THEN p.buf[j] ELSE NoInsn] \in [Indexes -> Insn]
    BY EmptyTypes DEF PayRings
  <2> QED
    BY <1>5, <1>6, <2>1 DEF PayRings
<1>8. ASSUME NEW k \in 1..n PROVE InsnIn(r, k) = InsnIn(p, k)
  <2>1. k \in 1..MaxInFlight+1 /\ p.head \in Indexes
    BY <1>1, SizesOK DEF Indexes
  <2>2. IndexIn(p, k) \in Indexes
    BY <2>1, IndexType
  <2> QED
    BY <2>2, <1>4, <1>7 DEF InsnIn, IndexIn
<1> QED
  BY <1>2, <1>3, <1>7, <1>8 DEF r

-----------------------------------------------------------------------------
(* The Fetch Queue.                                                        *)

LEMMA FQPushOK ==
  ASSUME FQOK, NEW bundle \in Seq(Indexes), fq.length + Len(bundle) <= FQSize
  PROVE  /\ FQPushBundle(bundle) \in FQRings
         /\ FQPushBundle(bundle).head = fq.head
         /\ FQPushBundle(bundle).length = fq.length + Len(bundle)
         /\ FQPushBundle(bundle).tail = Place(FQSize, fq.head, fq.length + Len(bundle))
         /\ \A k \in 1..fq.length : QueuedIn(FQPushBundle(bundle), k) = QueuedIn(fq, k)
         /\ \A k \in 1..Len(bundle) :
              QueuedIn(FQPushBundle(bundle), fq.length + k) = bundle[k]
<1> DEFINE r == FQPushBundle(bundle)
           n == Len(bundle)
           l == fq.length
           t == Place(FQSize, fq.tail, n)
           Chosen(i) == CHOOSE k \in 1..n : i = FQPlace(k)
           Pushed(i) == \E k \in 1..n : i = FQPlace(k)
<1>1. /\ fq \in FQRings /\ l \in 0..FQSize /\ n \in Nat /\ l \in Nat /\ l + n \in 0..FQSize
      /\ FQSize \in Nat \ {0} /\ n \in 0..FQSize /\ l + n <= FQSize
      /\ fq.head \in 0..FQSize-1 /\ fq.tail = Place(FQSize, fq.head, l)
      /\ bundle \in [1..n -> Indexes] /\ DOMAIN bundle = 1..n
  BY SizesOK, LenProperties DEF FQOK, FQRings
<1>a. l \in Nat /\ n \in Nat /\ l + n <= FQSize /\ FQSize \in Nat \ {0}
  BY <1>1
<1>2. t = Place(FQSize, fq.head, l + n)
  <2>1. /\ FQSize \in Nat \ {0} /\ fq.head \in 0..FQSize-1 /\ l \in 0..FQSize
        /\ n \in 0..FQSize /\ l + n <= FQSize /\ fq.tail = Place(FQSize, fq.head, l)
    BY <1>1
  <2> HIDE DEF l, n
  <2> QED
    BY <2>1, PlaceThen
<1>3. t \in 0..FQSize-1
  BY <1>1, <1>2, PlaceIs
<1>4. ASSUME NEW k \in 1..n PROVE FQPlace(k) = Place(FQSize, fq.head, l + (k - 1))
  <2>1. k - 1 \in 0..FQSize /\ l + (k - 1) <= FQSize /\ fq.tail \in Nat
    BY <1>1 DEF FQRings
  <2>2. fq.tail + k - 1 = fq.tail + (k - 1)
    BY <2>1, <1>1
  <2>3. FQPlace(k) = Place(FQSize, fq.tail, k - 1)
    BY <2>2 DEF FQPlace, Place
  <2> QED
    BY <2>1, <2>3, <1>1, PlaceThen
<1>5. ASSUME NEW j \in 1..n, NEW k \in 1..n, FQPlace(j) = FQPlace(k) PROVE j = k
  <2>1. l + (j - 1) \in 0..FQSize-1 /\ l + (k - 1) \in 0..FQSize-1
    <3> HIDE DEF l, n
    <3> QED
      BY <1>a
  <2>2. Place(FQSize, fq.head, l + (j - 1)) = Place(FQSize, fq.head, l + (k - 1))
    BY <1>4, <1>5
  <2>3. l + (j - 1) = l + (k - 1)
    BY <2>1, <2>2, <1>1, PlaceDistinct
  <2> QED
    BY <2>3, <1>1
<1>6. r = [fq EXCEPT !.q = [i \in 0..FQSize-1 |-> IF Pushed(i) THEN bundle[Chosen(i)] ELSE fq.q[i]],
                     !.tail = t, !.length = l + n]
  BY <1>1 DEF FQPushBundle, Place
<1>7. ASSUME NEW i \in 0..FQSize-1, Pushed(i) PROVE Chosen(i) \in 1..n /\ i = FQPlace(Chosen(i))
  BY <1>7
<1> HIDE DEF Pushed, Chosen, r, t
<1>8. /\ r \in FQRings /\ r.head = fq.head /\ r.tail = t /\ r.length = l + n
      /\ r.q = [i \in 0..FQSize-1 |-> IF Pushed(i) THEN bundle[Chosen(i)] ELSE fq.q[i]]
  <2>1. [i \in 0..FQSize-1 |-> IF Pushed(i) THEN bundle[Chosen(i)] ELSE fq.q[i]]
          \in [0..FQSize-1 -> Indexes]
    BY <1>1, <1>7 DEF FQRings
  <2> QED
    BY <2>1, <1>1, <1>3, <1>6 DEF FQRings
<1>9. ASSUME NEW k \in 1..l PROVE QueuedIn(r, k) = QueuedIn(fq, k)
  <2> DEFINE i == Place(FQSize, fq.head, k - 1)
  <2>1. k - 1 \in 0..FQSize-1 /\ k - 1 \in 0..FQSize
    BY <1>1
  <2>2. i \in 0..FQSize-1
    BY <2>1, <1>1, PlaceIs
  <2>3. ASSUME NEW j \in 1..n PROVE i # FQPlace(j)
    <3>1. l + (j - 1) \in 0..FQSize-1 /\ l + (j - 1) # k - 1
      <4> HIDE DEF l, n
      <4> QED
        BY <1>a
    <3> QED
      BY <3>1, <2>1, <1>1, <1>4, PlaceDistinct
  <2>4. ~Pushed(i)
    BY <2>3 DEF Pushed
  <2> HIDE DEF i
  <2>5. r.q[i] = fq.q[i]
    BY <2>2, <2>4, <1>8
  <2> QED
    BY <2>5, <1>8 DEF QueuedIn, i
<1>10. ASSUME NEW k \in 1..n PROVE QueuedIn(r, l + k) = bundle[k]
  <2> DEFINE i == FQPlace(k)
  <2>1. l + (k - 1) = (l + k) - 1 /\ l + (k - 1) \in 0..FQSize
    BY <1>1
  <2> DEFINE j == l + (k - 1)
  <2>2. i = Place(FQSize, fq.head, j)
    BY <1>4
  <2>3. i \in 0..FQSize-1
    <3>1. j \in 0..FQSize
      BY <2>1
    <3> HIDE DEF j, i
    <3> QED
      BY <2>2, <3>1, <1>1, PlaceIs
  <2>4. Pushed(i)
    BY DEF Pushed
  <2>5. Chosen(i) = k
    BY <2>3, <2>4, <1>5, <1>7
  <2> HIDE DEF i
  <2>6. r.q[i] = bundle[k]
    BY <2>3, <2>4, <2>5, <1>8
  <2> QED
    BY <2>1, <2>2, <2>6, <1>8 DEF QueuedIn
<1> QED
  BY <1>2, <1>8, <1>9, <1>10 DEF r

LEMMA FQSlotIs ==
  ASSUME FQOK, NEW k \in 1..FQSize
  PROVE  FQSlot(k) = Place(FQSize, fq.head, k - 1) /\ FQSlot(k) \in 0..FQSize-1
<1>1. fq.head \in 0..FQSize-1 /\ FQSize \in Nat \ {0} /\ fq.head + k - 1 = fq.head + (k - 1)
      /\ k - 1 \in 0..FQSize
  BY SizesOK DEF FQOK, FQRings
<1>2. FQSlot(k) = Place(FQSize, fq.head, k - 1)
  BY <1>1 DEF FQSlot, Place
<1> QED
  BY <1>1, <1>2, PlaceIs

LEMMA FQPopOK ==
  ASSUME FQOK, NEW n \in Nat, n <= fq.length
  PROVE  /\ FQPopBundle(n) \in FQRings
         /\ FQPopBundle(n).length = fq.length - n
         /\ FQPopBundle(n).tail = Place(FQSize, FQPopBundle(n).head, fq.length - n)
         /\ \A k \in 1..fq.length-n : QueuedIn(FQPopBundle(n), k) = QueuedIn(fq, n + k)
<1> DEFINE r == FQPopBundle(n)
           l == fq.length
           h == Place(FQSize, fq.head, n)
           Popped(i) == \E k \in 1..n : i = FQSlot(k)
<1>1. /\ fq \in FQRings /\ l \in 0..FQSize /\ l \in Nat /\ FQSize \in Nat \ {0} /\ n \in 0..FQSize
      /\ fq.head \in 0..FQSize-1 /\ fq.tail = Place(FQSize, fq.head, l) /\ l - n \in 0..FQSize
      /\ n + (l - n) = l
  BY SizesOK DEF FQOK, FQRings
<1>2. h \in 0..FQSize-1
  BY <1>1, PlaceIs
<1>3. r = [fq EXCEPT !.q = [i \in 0..FQSize-1 |-> IF Popped(i) THEN 0 ELSE fq.q[i]],
                     !.head = h, !.length = l - n]
  BY DEF FQPopBundle, FQHeadAfter, Place
<1>4. 0 \in Indexes
  BY SizesOK DEF Indexes
<1> HIDE DEF Popped, r, h
<1>5. /\ r \in FQRings /\ r.head = h /\ r.tail = fq.tail /\ r.length = l - n
      /\ r.q = [i \in 0..FQSize-1 |-> IF Popped(i) THEN 0 ELSE fq.q[i]]
  <2>1. [i \in 0..FQSize-1 |-> IF Popped(i) THEN 0 ELSE fq.q[i]] \in [0..FQSize-1 -> Indexes]
    BY <1>1, <1>4 DEF FQRings
  <2> QED
    BY <2>1, <1>1, <1>2, <1>3 DEF FQRings
<1>6. r.tail = Place(FQSize, h, l - n)
  BY <1>1, <1>5, PlaceThen DEF h
<1>7. ASSUME NEW k \in 1..l-n PROVE QueuedIn(r, k) = QueuedIn(fq, n + k)
  <2> DEFINE i == Place(FQSize, h, k - 1)
  <2>1. k - 1 \in 0..FQSize /\ n + (k - 1) <= FQSize /\ n + (k - 1) = (n + k) - 1
        /\ (n + k) - 1 \in 0..FQSize-1 /\ (n + k) - 1 \in 0..FQSize
    BY <1>1
  <2>2. i = Place(FQSize, fq.head, (n + k) - 1)
    BY <2>1, <1>1, PlaceThen DEF h
  <2>3. i \in 0..FQSize-1
    BY <2>1, <2>2, <1>1, PlaceIs
  <2>4. ASSUME NEW j \in 1..n PROVE i # FQSlot(j)
    <3>1. j \in 1..FQSize /\ j - 1 \in 0..FQSize-1 /\ j - 1 # (n + k) - 1
      BY <1>1
    <3> QED
      BY <3>1, <2>1, <2>2, <1>1, FQSlotIs, PlaceDistinct
  <2>5. ~Popped(i)
    BY <2>4 DEF Popped
  <2> HIDE DEF i
  <2>6. r.q[i] = fq.q[i]
    BY <2>3, <2>5, <1>5
  <2> QED
    BY <2>2, <2>6, <1>5 DEF QueuedIn, i
<1> QED
  BY <1>5, <1>6, <1>7 DEF r

-----------------------------------------------------------------------------
(* What the invariant says of the counts.                                  *)

LEMMA Counts ==
  ASSUME RingsInv
  PROVE  /\ Len(window) \in 0..ActiveSize /\ Len(rename2) \in 0..DispatchWidth
         /\ fq.length \in 0..FQSize /\ Len(decode) \in 0..FetchWidth
         /\ InFlightCount \in 0..MaxInFlight /\ BeforeFQ \in Nat /\ BeforeDecode \in Nat
         /\ BeforeDecode + Len(decode) = InFlightCount
<1>1. /\ Len(window) \in 0..ActiveSize /\ Len(rename2) \in 0..DispatchWidth
      /\ fq.length \in 0..FQSize /\ Len(decode) \in 0..FetchWidth
  BY SizesOK, LenProperties DEF RingsInv, ControlOK, FQOK, FQRings
<1> DEFINE w == Len(window)
           r == Len(rename2)
           f == fq.length
           d == Len(decode)
<1>2. InFlightCount = w + r + f + d /\ BeforeFQ = w + r /\ BeforeDecode = (w + r) + f
  BY DEF InFlightCount, BeforeFQ, BeforeDecode
<1> HIDE DEF w, r, f, d
<1>3. /\ w \in 0..ActiveSize /\ r \in 0..DispatchWidth /\ f \in 0..FQSize /\ d \in 0..FetchWidth
  BY <1>1 DEF w, r, f, d
<1>4. /\ w + r + f + d \in 0..MaxInFlight /\ w + r \in Nat /\ (w + r) + f \in Nat
      /\ ((w + r) + f) + d = w + r + f + d
  BY <1>3, SizesOK
<1>5. BeforeDecode + d = InFlightCount
  BY <1>2, <1>4
<1> QED
  BY <1>1, <1>2, <1>4, <1>5 DEF d

LEMMA PathAt ==
  ASSUME NEW k \in 1..InFlightCount
  PROVE  PathFn[k] = InsnIn(pay, k)
BY DEF PathFn

LEMMA PathType ==
  ASSUME RingsInv, NEW k \in 1..InFlightCount
  PROVE  PathFn[k] \in Insn
<1>1. InFlightCount \in 0..MaxInFlight /\ pay \in PayRings
  BY Counts DEF RingsInv, PayOK
<1>2. k \in 1..MaxInFlight+1 /\ pay.head \in Indexes
  BY <1>1, SizesOK DEF PayRings
<1> QED
  BY <1>1, <1>2, IndexType, PathAt DEF InsnIn, PayRings

\* Something has been fetched, or else the debug buffer has been filled.
LEMMA Started ==
  ASSUME RingsInv, fetching \/ ~Booting \/ InFlightCount > 0
  PROVE  db.length \in DebugSize-1..DebugSize /\ db.length >= MaxInFlight
<1>1. /\ db.length \in 0..DebugSize /\ pay.length = 2 * InFlightCount /\ InFlightCount \in 0..MaxInFlight
      /\ db.length >= DebugSize - 1 \/ (pay = EmptyPay /\ db.head = 0)
      /\ fetching => Len(decode) \in 1..FetchWidth-1
  BY Counts DEF RingsInv, ControlOK, PayOK, DBOK, RingOfDB, DBRings
<1>2. fetching => InFlightCount > 0
  BY <1>1, Counts, SizesOK
<1>3. InFlightCount > 0 => pay # EmptyPay
  BY <1>1 DEF EmptyPay
<1>4. db.length >= DebugSize - 1
  BY <1>1, <1>2, <1>3, SizesOK DEF Booting, Hungry
<1> QED
  BY <1>1, <1>4, SizesOK
-----------------------------------------------------------------------------
(* One step of the path.                                                   *)

LEMMA PathInvNext ==
  ASSUME code' = code, NEW n, NEW P, NEW w, NEW q, NEW st, NEW m, NEW E, NEW h, NEW last,
         PathOK(n, P, w, q, st, m, E, h, last),
         n = InFlightCount', P = PathFn', w = window', q = pc', st = stalls',
         m = db'.length, E = OracleOf(db)', h = db'.head, last = isaPC'
  PROVE  PathInv'
<1>1. Program(m, E, last)'
  BY DEF PathOK, Program, ArchNext, Traps
<1>2. KindsOK(n, P)'
  BY DEF PathOK, KindsOK
<1>3. /\ m = 0 => q = last
      /\ Linked(n, P, q)
      /\ m > 0 => Starts(n, P, q, E[1].pc)
      /\ StallsOK(n, P, st)
      /\ Matched(n, P, E, h)
      /\ WindowOK(n, P, E, w)
  BY DEF PathOK
<1>4. PathOK(n, P, w, q, st, m, E, h, last)'
  BY <1>1, <1>2, <1>3 DEF PathOK
<1> QED
  BY <1>4 DEF PathInv

LEMMA StallOfNop == StallOf(NopKind) = {}
BY DEF StallOf, NopKind

\* Nothing is fetched behind an instruction that serializes but NOPs.
LEMMA NopsFollow ==
  ASSUME NEW n \in Nat, NEW P, NEW st, StallsOK(n, P, st)
  PROVE  st # {} <=> \E s \in 1..n : Serializing(P[s])
BY DEF StallsOK, Serializing

LEMMA AppendLinked ==
  ASSUME NEW n \in Nat, NEW P, NEW Q, NEW q, NEW r, Linked(n, P, q),
         \A k \in 1..n : Q[k] = P[k], Q[n + 1].pc = q, Q[n + 1].c_next = r
  PROVE  Linked(n + 1, Q, r)
<1> SUFFICES ASSUME NEW k \in 1..n+1
             PROVE  Q[k].c_next = IF k = n + 1 THEN r ELSE Q[k + 1].pc
  BY DEF Linked
<1>1. CASE k = n + 1
  BY <1>1
<1>2. CASE k = n
  BY <1>2 DEF Linked
<1>3. CASE k < n
  <2>1. k \in 1..n /\ k + 1 \in 1..n /\ k # n /\ k # n + 1
    BY <1>3
  <2> QED
    BY <2>1 DEF Linked
<1> QED
  BY <1>1, <1>2, <1>3

LEMMA AppendStalls ==
  ASSUME NEW n \in Nat, NEW P, NEW Q, NEW st, NEW kind, StallsOK(n, P, st),
         \A k \in 1..n : Q[k] = P[k], Q[n + 1].kind = kind,
         kind = NopKind <=> st # {}
  PROVE  StallsOK(n + 1, Q, st \cup StallOf(kind))
<1>1. st # {} <=> \E s \in 1..n : Serializing(P[s])
  BY NopsFollow
<1>2. ASSUME NEW k \in 1..n+1
      PROVE Q[k].kind = NopKind <=> \E s \in 1..k-1 : Serializing(Q[s])
  <2>1. k - 1 <= n /\ \A s \in 1..k-1 : Q[s] = P[s]
    OBVIOUS
  <2>2. CASE k = n + 1
    <3>1. k - 1 = n
      BY <2>2
    <3> QED
      BY <1>1, <2>1, <2>2, <3>1
  <2>3. CASE k # n + 1
    <3>1. k \in 1..n
      BY <2>3
    <3> QED
      BY <2>1, <3>1 DEF StallsOK
  <2> QED
    BY <2>2, <2>3
<1>3. ASSUME NEW k \in 1..n+1, Serializing(Q[k])
      PROVE st \cup StallOf(kind) = StallOf(Q[k].kind)
  <2>1. CASE k = n + 1
    <3>1. Q[k].kind = kind /\ kind # NopKind
      BY <2>1, <1>3, StallOfNop DEF Serializing
    <3> QED
      BY <3>1
  <2>2. CASE k # n + 1
    <3>1. k \in 1..n /\ Q[k] = P[k]
      BY <2>2
    <3>2. Serializing(P[k])
      BY <3>1, <1>3
    <3>3. st = StallOf(P[k].kind) /\ st # {}
      BY <3>1, <3>2 DEF StallsOK, Serializing
    <3>4. kind = NopKind
      BY <3>3
    <3> QED
      BY <3>1, <3>3, <3>4, StallOfNop
  <2> QED
    BY <2>1, <2>2
<1>4. ASSUME st \cup StallOf(kind) # {} PROVE \E k \in 1..n+1 : Serializing(Q[k])
  <2>1. CASE st # {}
    <3>1. PICK s \in 1..n : Serializing(P[s])
      BY <1>1, <2>1
    <3>2. s \in 1..n+1 /\ Q[s] = P[s]
      BY <3>1
    <3> QED
      BY <3>1, <3>2
  <2>2. CASE StallOf(kind) # {}
    <3>1. n + 1 \in 1..n+1
      OBVIOUS
    <3> QED
      BY <2>2, <3>1 DEF Serializing
  <2> QED
    BY <1>4, <2>1, <2>2
<1> QED
  BY <1>2, <1>3, <1>4 DEF StallsOK

LEMMA AppendMatched ==
  ASSUME NEW n \in Nat, NEW P, NEW Q, NEW E, NEW h \in 0..DebugSize-1, NEW q,
         Matched(n, P, E, h), \A k \in 1..n : Q[k] = P[k], Q[n + 1].pc = q,
         n = 0 => E[1].pc = q /\ Q[n + 1].good /\ Q[n + 1].db_index = h,
         n > 0 => /\ Q[n + 1].good <=> P[n].good /\ E[n + 1].pc = q
                  /\ Q[n + 1].good => Q[n + 1].db_index = Place(DebugSize, h, n)
  PROVE  Matched(n + 1, Q, E, h)
<1> SUFFICES ASSUME NEW k \in 1..n+1
             PROVE  /\ Q[k].good <=> OnThePath(k, Q, E)
                    /\ Q[k].good => Q[k].db_index = Place(DebugSize, h, k - 1)
  BY DEF Matched
<1>1. CASE k # n + 1
  <2>1. k \in 1..n /\ Q[k] = P[k] /\ \A j \in 1..k : Q[j] = P[j]
    BY <1>1
  <2>2. OnThePath(k, Q, E) <=> OnThePath(k, P, E)
    BY <2>1 DEF OnThePath
  <2> QED
    BY <2>1, <2>2 DEF Matched
<1>2. CASE k = n + 1 /\ n = 0
  <2>1. k = 1 /\ k - 1 = 0 /\ 0 \in 0..DebugSize /\ h + 0 = h /\ h + 0 < DebugSize
    BY <1>2, SizesOK
  <2>2. h = Place(DebugSize, h, 0)
    BY <2>1, PlaceIs, SizesOK
  <2> QED
    BY <1>2, <2>1, <2>2 DEF OnThePath
<1>3. CASE k = n + 1 /\ n > 0
  <2>1. k - 1 = n /\ n \in 1..n
    BY <1>3
  <2>2. P[n].good <=> OnThePath(n, P, E)
    BY <2>1 DEF Matched
  <2>3. OnThePath(k, Q, E) <=> OnThePath(n, P, E) /\ E[n + 1].pc = q
    <3>1. \A j \in 1..k : j \in 1..n \/ j = n + 1
      BY <1>3
    <3>2. \A j \in 1..n : j \in 1..k
      BY <1>3
    <3>3. k \in 1..k
      OBVIOUS
    <3> QED
      BY <1>3, <3>1, <3>2, <3>3 DEF OnThePath
  <2> QED
    BY <1>3, <2>1, <2>2, <2>3
<1> QED
  BY <1>1, <1>2, <1>3

\* Q is P with the instruction that fetch() takes from q.
Appended(n, P, q, st, E, h, Q, st2) ==
  /\ \A k \in 1..n : Q[k] = P[k]
  /\ Q[n + 1].pc = q
  /\ Q[n + 1].kind = IF st # {} THEN NopKind ELSE code[q]
  /\ Q[n + 1].c_next \in Predictions(Q[n + 1].kind, q)
  /\ Q[n + 1].next = Q[n + 1].c_next
  /\ st2 = st \cup StallOf(Q[n + 1].kind)
  /\ Q[n + 1].fetch_exception <=> "exception" \in st2
  /\ n = 0 => Q[n + 1].good /\ Q[n + 1].db_index = h
  /\ n > 0 => /\ Q[n + 1].good <=> P[n].good /\ E[n + 1].pc = q
              /\ Q[n + 1].good => Q[n + 1].db_index = Place(DebugSize, h, n)

LEMMA AppendPath ==
  ASSUME NEW n \in Nat, NEW P, NEW w, Len(w) \in 0..n, NEW q \in PCs, NEW st, NEW m \in Nat \ {0},
         NEW E, NEW h \in 0..DebugSize-1, NEW last, code \in Programs,
         PathOK(n, P, w, q, st, m, E, h, last),
         NEW Q, NEW st2, Appended(n, P, q, st, E, h, Q, st2)
  PROVE  PathOK(n + 1, Q, w, Q[n + 1].c_next, st2, m, E, h, last)
<1> USE DEF Appended
<1> DEFINE x == Q[n + 1]
<1>1. code[q] \in Kinds /\ code[q] # NopKind
  BY KindOfCode DEF Kinds, NopKind
<1>2. Linked(n + 1, Q, x.c_next)
  BY AppendLinked DEF PathOK
<1>3. Starts(n + 1, Q, x.c_next, E[1].pc)
  <2>1. n + 1 # 0 /\ (n # 0 => 1 \in 1..n)
    OBVIOUS
  <2>2. Starts(n, P, q, E[1].pc)
    BY DEF PathOK
  <2> QED
    BY <2>1, <2>2 DEF Starts
<1>4. KindsOK(n + 1, Q)
  <2>1. x.kind \in {NopKind, code[x.pc]}
    OBVIOUS
  <2>2. x.kind \notin BranchKinds => x.c_next = IncrementPC(x.pc)
    BY DEF BranchKinds, Predictions
  <2>3. x.kind # NopKind => (x.fetch_exception <=> x.kind = "fault")
    <3>1. CASE st # {}
      BY <3>1
    <3>2. CASE st = {}
      <4>1. "exception" \in StallOf(x.kind) <=> x.kind = "fault"
        BY <1>1, <3>2 DEF StallOf, Kinds
      <4> QED
        BY <3>2, <4>1
    <3> QED
      BY <3>1, <3>2
  <2>4. \A k \in 1..n+1 : k \in 1..n \/ k = n + 1
    OBVIOUS
  <2> HIDE DEF x
  <2>5. KindsOK(n, P)
    BY DEF PathOK
  <2> QED
    BY <2>1, <2>2, <2>3, <2>4, <2>5 DEF KindsOK, x
<1>5. StallsOK(n + 1, Q, st2)
  <2>1. x.kind = NopKind <=> st # {}
    BY <1>1
  <2>2. StallsOK(n, P, st)
    BY DEF PathOK
  <2> QED
    BY <2>1, <2>2, AppendStalls
<1>6. Matched(n + 1, Q, E, h)
  <2>1. n = 0 => E[1].pc = q
    BY DEF PathOK, Starts
  <2>2. Matched(n, P, E, h)
    BY DEF PathOK
  <2> QED
    BY <2>1, <2>2, AppendMatched
<1>7. WindowOK(n + 1, Q, E, w)
  <2>1. WindowOK(n, P, E, w)
    BY DEF PathOK
  <2>2. ASSUME NEW k \in 1..Len(w) PROVE ExecutedOK(k, Q, E, w)
    <3>1. Q[k] = P[k] /\ ExecutedOK(k, P, E, w)
      BY <2>1 DEF WindowOK
    <3>2. Right(k, Q, w) <=> Right(k, P, w)
      BY <3>1 DEF Right
    <3> QED
      BY <3>1, <3>2 DEF ExecutedOK
  <2>3. ASSUME NEW k \in Len(w)+1..n+1 PROVE Q[k].c_next = Q[k].next
    <3>1. CASE k = n + 1
      BY <3>1
    <3>2. CASE k # n + 1
      <4>1. k \in Len(w)+1..n /\ k \in 1..n
        BY <3>2
      <4> QED
        BY <4>1, <2>1 DEF WindowOK
    <3> QED
      BY <3>1, <3>2
  <2> QED
    BY <2>2, <2>3 DEF WindowOK
<1> QED
  BY <1>2, <1>3, <1>4, <1>5, <1>6, <1>7 DEF PathOK
\* An instruction of the window completes.
LEMMA CompletePath ==
  ASSUME NEW n \in Nat, NEW P, NEW w, Len(w) \in 0..n, NEW q, NEW st, NEW m,
         NEW E, NEW h, NEW last, PathOK(n, P, w, q, st, m, E, h, last),
         NEW v, Len(v) = Len(w), NEW i \in 1..Len(w),
         \A k \in 1..Len(w) : k # i => v[k] = w[k],
         ~w[i].completed, ExecutedOK(i, P, E, v)
  PROVE  PathOK(n, P, v, q, st, m, E, h, last)
<1>1. WindowOK(n, P, E, w)
  BY DEF PathOK
<1>2. ~w[i].load_viol
  BY <1>1 DEF WindowOK, ExecutedOK
<1>3. ASSUME NEW k \in 1..Len(v) PROVE ExecutedOK(k, P, E, v)
  <2>1. CASE k = i
    BY <2>1
  <2>2. CASE k # i
    <3>1. v[k] = w[k] /\ ExecutedOK(k, P, E, w)
      BY <1>1, <2>2 DEF WindowOK
    <3>2. Right(k, P, v) => Right(k, P, w)
      <4>1. \A j \in 1..k-1 : j \in 1..Len(w)
        OBVIOUS
      <4> QED
        BY <4>1, <1>2 DEF Right
    <3> QED
      BY <3>1, <3>2 DEF ExecutedOK
  <2> QED
    BY <2>1, <2>2
<1>4. WindowOK(n, P, E, v)
  BY <1>1, <1>3 DEF WindowOK
<1> QED
  BY <1>4 DEF PathOK

\* The instructions of RENAME2 enter the window.
LEMMA DispatchPath ==
  ASSUME NEW n \in Nat, NEW P, NEW w, NEW v, Len(w) \in Nat, Len(v) \in Nat,
         Len(w) <= Len(v), Len(v) <= n,
         NEW q, NEW st, NEW m, NEW E, NEW h, NEW last, PathOK(n, P, w, q, st, m, E, h, last),
         \A k \in 1..Len(w) : v[k] = w[k],
         \A k \in Len(w)+1..Len(v) :
           /\ v[k].completed <=> P[k].kind \in {NopKind, "fault", "syscall"}
           /\ v[k].exception <=> P[k].kind = "syscall" \/ P[k].fetch_exception
           /\ ~v[k].load_viol
  PROVE  PathOK(n, P, v, q, st, m, E, h, last)
<1>1. WindowOK(n, P, E, w) /\ KindsOK(n, P)
  BY DEF PathOK
<1>2. ASSUME NEW k \in 1..Len(v) PROVE ExecutedOK(k, P, E, v)
  <2>1. CASE k <= Len(w)
    <3>1. k \in 1..Len(w) /\ v[k] = w[k] /\ ExecutedOK(k, P, E, w)
      BY <1>1, <2>1 DEF WindowOK
    <3>2. Right(k, P, v) => Right(k, P, w)
      <4>1. \A j \in 1..k-1 : j \in 1..Len(w)
        BY <3>1
      <4> QED
        BY <4>1 DEF Right
    <3> QED
      BY <3>1, <3>2 DEF ExecutedOK
  <2>2. CASE ~(k <= Len(w))
    <3>1. k \in Len(w)+1..Len(v) /\ k \in Len(w)+1..n /\ k \in 1..n
      BY <2>2
    <3>2. P[k].c_next = P[k].next
      BY <1>1, <3>1 DEF WindowOK
    <3>3. P[k].kind = "load" => ~P[k].fetch_exception
      BY <1>1, <3>1 DEF KindsOK, NopKind
    <3>4. /\ P[k].kind = "load" => ~v[k].completed /\ ~v[k].exception
          /\ P[k].kind \in BranchKinds => ~v[k].completed
          /\ ~v[k].load_viol
          /\ v[k].exception <=> P[k].kind = "syscall" \/ P[k].fetch_exception
      BY <3>1, <3>3 DEF NopKind, BranchKinds
    <3> QED
      BY <3>2, <3>4 DEF ExecutedOK
  <2> QED
    BY <2>1, <2>2
<1>3. \A k \in Len(v)+1..n : P[k].c_next = P[k].next
  BY <1>1 DEF WindowOK
<1>4. WindowOK(n, P, E, v)
  BY <1>2, <1>3 DEF WindowOK
<1> QED
  BY <1>4 DEF PathOK

\* A branch was wrong: Q and v are what is left of P and w, and it leads to r.
Resolved(i, P, w, E, Q, v, r) ==
  /\ Len(v) = i /\ \A k \in 1..i-1 : Q[k] = P[k] /\ v[k] = w[k]
  /\ Q[i].pc = P[i].pc /\ Q[i].kind = P[i].kind /\ Q[i].c_next = r
  /\ Q[i].fetch_exception <=> P[i].fetch_exception
  /\ Q[i].good <=> P[i].good
  /\ Q[i].db_index = P[i].db_index
  /\ P[i].kind \in BranchKinds /\ ~w[i].completed /\ v[i].completed
  /\ v[i].exception <=> w[i].exception
  /\ ~v[i].load_viol
  /\ Right(i, P, w) => r = E[i].next

\* What is younger than the branch goes, and fetch is redirected.
LEMMA RollbackPath ==
  ASSUME NEW n \in Nat, NEW P, NEW w, Len(w) \in 0..n, NEW q, NEW st, NEW m \in Nat \ {0},
         NEW E, NEW h, NEW last, PathOK(n, P, w, q, st, m, E, h, last),
         NEW i \in 1..Len(w), NEW Q, NEW v, NEW r, Resolved(i, P, w, E, Q, v, r)
  PROVE  PathOK(i, Q, v, r, {}, m, E, h, last)
<1> USE DEF Resolved
<1> DEFINE Same(k) == /\ Q[k].pc = P[k].pc /\ Q[k].kind = P[k].kind
                      /\ Q[k].fetch_exception <=> P[k].fetch_exception
                      /\ Q[k].good <=> P[k].good
                      /\ Q[k].db_index = P[k].db_index
<1>1. /\ i \in 1..n /\ \A k \in 1..i : k \in 1..n
      /\ \A k \in 1..i : k \in 1..i-1 \/ k = i
  OBVIOUS
<1>2. \A k \in 1..i : Same(k)
  BY <1>1
<1> HIDE DEF Same
<1>3. /\ Linked(n, P, q) /\ Starts(n, P, q, E[1].pc) /\ KindsOK(n, P) /\ StallsOK(n, P, st)
      /\ Matched(n, P, E, h) /\ WindowOK(n, P, E, w) /\ Program(m, E, last)
  BY DEF PathOK
<1>4. Linked(i, Q, r)
  <2> SUFFICES ASSUME NEW k \in 1..i
               PROVE Q[k].c_next = IF k = i THEN r ELSE Q[k + 1].pc
    BY DEF Linked
  <2>1. CASE k = i
    BY <2>1
  <2>2. CASE k # i
    <3>1. k \in 1..i-1 /\ k \in 1..n /\ k # n /\ k + 1 \in 1..i
      BY <2>2
    <3>2. Q[k].c_next = P[k].c_next /\ Q[k + 1].pc = P[k + 1].pc
      BY <3>1, <1>2 DEF Same
    <3> QED
      BY <2>2, <3>1, <3>2, <1>3 DEF Linked
  <2> QED
    BY <2>1, <2>2
<1>5. Starts(i, Q, r, E[1].pc)
  <2>1. i # 0 /\ n # 0 /\ 1 \in 1..i
    OBVIOUS
  <2> QED
    BY <2>1, <1>2, <1>3 DEF Starts, Same
<1>6. KindsOK(i, Q)
  <2>1. \A k \in 1..i-1 : Q[k].c_next = P[k].c_next
    OBVIOUS
  <2> QED
    BY <1>1, <1>2, <1>3, <2>1 DEF KindsOK, Same
<1>7. StallsOK(i, Q, {})
  <2>1. P[i].kind # NopKind /\ ~Serializing(P[i])
    BY DEF BranchKinds, NopKind, Serializing, StallOf
  <2>2. \A s \in 1..i-1 : ~Serializing(P[s])
    BY <1>1, <1>3, <2>1 DEF StallsOK
  <2>3. \A k \in 1..i : ~Serializing(Q[k])
    BY <1>1, <1>2, <2>1, <2>2 DEF Serializing, Same
  <2>4. \A k \in 1..i : Q[k].kind = NopKind <=> \E s \in 1..k-1 : Serializing(P[s])
    BY <1>1, <1>2, <1>3 DEF StallsOK, Same
  <2>5. \A k \in 1..i : \A s \in 1..k-1 : s \in 1..i-1 /\ s \in 1..i
    OBVIOUS
  <2> QED
    BY <2>2, <2>3, <2>4, <2>5 DEF StallsOK
<1>8. Matched(i, Q, E, h)
  <2> SUFFICES ASSUME NEW k \in 1..i
               PROVE  /\ Q[k].good <=> OnThePath(k, Q, E)
                      /\ Q[k].good => Q[k].db_index = Place(DebugSize, h, k - 1)
    BY DEF Matched
  <2>1. \A j \in 1..k : j \in 1..i
    OBVIOUS
  <2>2. OnThePath(k, Q, E) <=> OnThePath(k, P, E)
    BY <2>1, <1>2 DEF OnThePath, Same
  <2> QED
    BY <2>2, <1>1, <1>2, <1>3 DEF Matched, Same
<1>9. WindowOK(i, Q, E, v)
  <2>1. ASSUME NEW k \in 1..Len(v) PROVE ExecutedOK(k, Q, E, v)
    <3>1. k \in 1..Len(w) /\ k \in 1..i /\ \A j \in 1..k-1 : j \in 1..i-1
      OBVIOUS
    <3>2. ExecutedOK(k, P, E, w)
      BY <3>1, <1>3 DEF WindowOK
    <3>3. Right(k, Q, v) <=> Right(k, P, w)
      BY <3>1, <1>2 DEF Right, Same
    <3>4. CASE k = i
      <4>1. Q[k].kind # "load" /\ P[k].kind # "load"
        BY <3>4 DEF BranchKinds
      <4> QED
        BY <3>2, <3>3, <3>4, <4>1, <1>2 DEF ExecutedOK, Same
    <3>5. CASE k # i
      <4>1. Q[k] = P[k] /\ v[k] = w[k]
        BY <3>1, <3>5
      <4> QED
        BY <3>2, <3>3, <4>1 DEF ExecutedOK
    <3> QED
      BY <3>4, <3>5
  <2>2. Len(v)+1..i = {}
    OBVIOUS
  <2> QED
    BY <2>1, <2>2 DEF WindowOK
<1> QED
  BY <1>3, <1>4, <1>5, <1>6, <1>7, <1>8, <1>9 DEF PathOK

\* The head is gone from the path, the window and the program.
Popped(n, P, w, m, E, Q, v, F) ==
  /\ \A k \in 1..n-1 : Q[k] = P[k + 1]
  /\ Len(v) = Len(w) - 1 /\ \A k \in 1..Len(v) : v[k] = w[k + 1]
  /\ \A k \in 1..m-1 : F[k] = E[k + 1]
  /\ F[1].pc = E[1].next
  /\ P[1].c_next = E[1].next /\ ~Serializing(P[1]) /\ ~w[1].load_viol

\* The head retires.
LEMMA PopPath ==
  ASSUME NEW n \in Nat \ {0}, NEW P, NEW w, Len(w) \in 1..n, NEW q, NEW st, NEW m \in Nat \ {0},
         NEW E, NEW h \in 0..DebugSize-1, NEW last, n <= m, n <= DebugSize,
         PathOK(n, P, w, q, st, m, E, h, last),
         NEW Q, NEW v, NEW l \in Nat \ {0}, NEW F, NEW next, Program(l, F, next),
         Popped(n, P, w, m, E, Q, v, F)
  PROVE  PathOK(n - 1, Q, v, q, st, l, F, Place(DebugSize, h, 1), next)
<1>a. /\ \A k \in 1..n-1 : Q[k] = P[k + 1]
      /\ Len(v) = Len(w) - 1 /\ \A k \in 1..Len(v) : v[k] = w[k + 1]
      /\ \A k \in 1..m-1 : F[k] = E[k + 1]
      /\ F[1].pc = E[1].next
      /\ P[1].c_next = E[1].next /\ ~Serializing(P[1]) /\ ~w[1].load_viol
  BY DEF Popped
<1> USE <1>a
<1>1. /\ Linked(n, P, q) /\ Starts(n, P, q, E[1].pc) /\ KindsOK(n, P) /\ StallsOK(n, P, st)
      /\ Matched(n, P, E, h) /\ WindowOK(n, P, E, w)
  BY DEF PathOK
<1>2. /\ \A k \in 1..n-1 : k + 1 \in 1..n /\ k \in 1..m-1
      /\ 1 \in 1..n /\ Len(v) \in Nat
  OBVIOUS
<1>3. Linked(n - 1, Q, q)
  <2> SUFFICES ASSUME NEW k \in 1..n-1
               PROVE Q[k].c_next = IF k = n - 1 THEN q ELSE Q[k + 1].pc
    BY DEF Linked
  <2>1. P[k + 1].c_next = IF k + 1 = n THEN q ELSE P[(k + 1) + 1].pc
    BY <1>1, <1>2 DEF Linked
  <2>2. CASE k = n - 1
    BY <2>1, <2>2
  <2>3. CASE k # n - 1
    <3>1. k + 1 \in 1..n-1 /\ k + 1 # n
      BY <2>3
    <3>2. Q[k + 1] = P[(k + 1) + 1]
      BY <3>1
    <3> QED
      BY <2>1, <2>3, <3>1, <3>2
  <2> QED
    BY <2>2, <2>3
<1>4. Starts(n - 1, Q, q, F[1].pc)
  <2>1. P[1].c_next = IF 1 = n THEN q ELSE P[1 + 1].pc
    BY <1>1, <1>2 DEF Linked
  <2>2. CASE n = 1
    BY <2>1, <2>2 DEF Starts
  <2>3. CASE n # 1
    <3>1. 1 \in 1..n-1 /\ n - 1 # 0
      BY <2>3
    <3>2. Q[1] = P[1 + 1]
      BY <3>1
    <3> QED
      BY <2>1, <2>3, <3>1, <3>2 DEF Starts
  <2> QED
    BY <2>2, <2>3
<1>5. KindsOK(n - 1, Q)
  <2> SUFFICES ASSUME NEW k \in 1..n-1
               PROVE  /\ Q[k].kind \in {NopKind, code[Q[k].pc]}
                      /\ Q[k].kind \notin BranchKinds => Q[k].c_next = IncrementPC(Q[k].pc)
                      /\ Q[k].kind # NopKind => (Q[k].fetch_exception <=> Q[k].kind = "fault")
    BY DEF KindsOK
  <2>1. k + 1 \in 1..n /\ Q[k] = P[k + 1]
    BY <1>2
  <2> QED
    BY <1>1, <2>1 DEF KindsOK
<1>6. StallsOK(n - 1, Q, st)
  <2>1. ASSUME NEW k \in 1..n-1
        PROVE Q[k].kind = NopKind <=> \E s \in 1..k-1 : Serializing(Q[s])
    <3>1. Q[k].kind = NopKind <=> \E s \in 1..(k+1)-1 : Serializing(P[s])
      <4>1. Q[k] = P[k + 1] /\ k + 1 \in 1..n
        BY <1>2
      <4>2. \A j \in 1..n : P[j].kind = NopKind <=> \E s \in 1..j-1 : Serializing(P[s])
        BY <1>1 DEF StallsOK
      <4>3. P[k + 1].kind = NopKind <=> \E s \in 1..(k+1)-1 : Serializing(P[s])
        BY <4>1, <4>2
      <4> QED
        BY <4>1, <4>3
    <3>2. ASSUME NEW s \in 1..k-1, Serializing(Q[s])
          PROVE \E x \in 1..(k+1)-1 : Serializing(P[x])
      <4>1. s + 1 \in 1..(k+1)-1 /\ s \in 1..n-1
        OBVIOUS
      <4>2. Q[s] = P[s + 1]
        BY <4>1
      <4> QED
        BY <4>1, <4>2, <3>2
    <3>3. ASSUME NEW x \in 1..(k+1)-1, Serializing(P[x])
          PROVE \E s \in 1..k-1 : Serializing(Q[s])
      <4>1. x # 1
        BY <3>3
      <4>2. x - 1 \in 1..k-1 /\ x - 1 \in 1..n-1 /\ (x - 1) + 1 = x
        BY <4>1
      <4>3. Q[x - 1] = P[(x - 1) + 1]
        BY <4>2
      <4>4. Q[x - 1] = P[x]
        BY <4>2, <4>3
      <4> QED
        BY <4>2, <4>4, <3>3
    <3> QED
      BY <3>1, <3>2, <3>3
  <2>2. \A k \in 1..n-1 : Serializing(Q[k]) => st = StallOf(Q[k].kind)
    BY <1>1, <1>2 DEF StallsOK
  <2>3. ASSUME st # {} PROVE \E k \in 1..n-1 : Serializing(Q[k])
    <3>1. PICK x \in 1..n : Serializing(P[x])
      BY <1>1, <2>3 DEF StallsOK
    <3>2. x # 1
      BY <3>1
    <3>3. x - 1 \in 1..n-1 /\ (x - 1) + 1 = x
      BY <3>2
    <3>4. Q[x - 1] = P[(x - 1) + 1]
      BY <3>3
    <3>5. Q[x - 1] = P[x]
      BY <3>3, <3>4
    <3> QED
      BY <3>1, <3>3, <3>5
  <2> QED
    BY <2>1, <2>2, <2>3 DEF StallsOK
<1>7. Matched(n - 1, Q, F, Place(DebugSize, h, 1))
  <2> SUFFICES ASSUME NEW k \in 1..n-1
               PROVE  /\ Q[k].good <=> OnThePath(k, Q, F)
                      /\ Q[k].good => Q[k].db_index = Place(DebugSize, Place(DebugSize, h, 1), k - 1)
    BY DEF Matched
  <2>1. P[1].pc = E[1].pc
    BY <1>1 DEF Starts
  <2>2. OnThePath(k, Q, F) <=> OnThePath(k + 1, P, E)
    <3>1. ASSUME OnThePath(k, Q, F), NEW j \in 1..k+1 PROVE P[j].pc = E[j].pc
      <4>1. CASE j = 1
        BY <4>1, <2>1
      <4>2. CASE j # 1
        <5>1. j - 1 \in 1..k /\ j - 1 \in 1..n-1 /\ j - 1 \in 1..m-1 /\ (j - 1) + 1 = j
          BY <4>2
        <5>2. Q[j - 1] = P[(j - 1) + 1] /\ F[j - 1] = E[(j - 1) + 1]
          BY <5>1
        <5>3. Q[j - 1] = P[j] /\ F[j - 1] = E[j]
          BY <5>1, <5>2
        <5> QED
          BY <5>1, <5>3, <3>1 DEF OnThePath
      <4> QED
        BY <4>1, <4>2
    <3>2. ASSUME OnThePath(k + 1, P, E), NEW j \in 1..k PROVE Q[j].pc = F[j].pc
      <4>1. j \in 1..n-1 /\ j \in 1..m-1 /\ j + 1 \in 1..k+1
        OBVIOUS
      <4>2. Q[j] = P[j + 1] /\ F[j] = E[j + 1]
        BY <4>1
      <4> QED
        BY <4>1, <4>2, <3>2 DEF OnThePath
    <3> QED
      BY <3>1, <3>2 DEF OnThePath
  <2>3. Place(DebugSize, Place(DebugSize, h, 1), k - 1) = Place(DebugSize, h, (k + 1) - 1)
    <3>1. 1 \in 0..DebugSize /\ k - 1 \in 0..DebugSize /\ 1 + (k - 1) <= DebugSize
          /\ 1 + (k - 1) = (k + 1) - 1 /\ DebugSize \in Nat \ {0}
      BY SizesOK
    <3>2. Place(DebugSize, Place(DebugSize, h, 1), k - 1) = Place(DebugSize, h, 1 + (k - 1))
      BY <3>1, PlaceThen
    <3> QED
      BY <3>1, <3>2
  <2>4. /\ P[k + 1].good <=> OnThePath(k + 1, P, E)
        /\ P[k + 1].good => P[k + 1].db_index = Place(DebugSize, h, (k + 1) - 1)
    BY <1>1, <1>2 DEF Matched
  <2> QED
    BY <2>2, <2>3, <2>4
<1>8. WindowOK(n - 1, Q, F, v)
  <2>1. ASSUME NEW k \in 1..Len(v) PROVE ExecutedOK(k, Q, F, v)
    <3>1. k + 1 \in 1..Len(w) /\ k \in 1..n-1 /\ k \in 1..m-1
      OBVIOUS
    <3>2. v[k] = w[k + 1] /\ Q[k] = P[k + 1] /\ F[k] = E[k + 1] /\ ExecutedOK(k + 1, P, E, w)
      BY <3>1, <1>1 DEF WindowOK
    <3>3. Right(k, Q, v) => Right(k + 1, P, w)
      <4>1. ASSUME Right(k, Q, v), NEW j \in 1..(k+1)-1 PROVE ~w[j].load_viol
        <5>1. CASE j = 1
          BY <5>1
        <5>2. CASE j # 1
          <6>1. j - 1 \in 1..k-1 /\ j - 1 \in 1..Len(v) /\ (j - 1) + 1 = j
            BY <5>2
          <6>2. v[j - 1] = w[(j - 1) + 1]
            BY <6>1
          <6> QED
            BY <6>1, <6>2, <4>1 DEF Right
        <5> QED
          BY <5>1, <5>2
      <4> QED
        BY <4>1, <3>2 DEF Right
    <3> QED
      BY <3>2, <3>3 DEF ExecutedOK
  <2>2. ASSUME NEW k \in Len(v)+1..n-1 PROVE Q[k].c_next = Q[k].next
    <3>1. k + 1 \in Len(w)+1..n /\ k \in 1..n-1
      OBVIOUS
    <3> QED
      BY <3>1, <1>1 DEF WindowOK
  <2> QED
    BY <2>1, <2>2 DEF WindowOK
<1>9. l # 0
  OBVIOUS
<1> QED
  BY <1>3, <1>4, <1>5, <1>6, <1>7, <1>8, <1>9 DEF PathOK

\* Nothing is in flight, and fetch is where the program is.
LEMMA EmptyPath ==
  ASSUME NEW P, NEW w, Len(w) = 0, NEW q, NEW m \in Nat, NEW E, NEW h, NEW last,
         Program(m, E, last), m = 0 => q = last, m > 0 => E[1].pc = q
  PROVE  PathOK(0, P, w, q, {}, m, E, h, last)
BY DEF PathOK, Linked, Starts, KindsOK, StallsOK, Matched, WindowOK
-----------------------------------------------------------------------------
(* The initial state, and the functional simulator that runs ahead.        *)

LEMMA EmptyRings ==
  /\ EmptyPay \in PayRings /\ EmptyPay.head = 0 /\ EmptyPay.length = 0
  /\ EmptyPay.tail = Place(PaySize, 0, 0)
  /\ EmptyFQ \in FQRings /\ EmptyFQ.length = 0
  /\ EmptyFQ.tail = Place(FQSize, EmptyFQ.head, EmptyFQ.length)
  /\ RingOfDB(EmptyDB) /\ EmptyDB.head = 0 /\ EmptyDB.length = 0
<1>1. /\ PaySize \in Nat \ {0} /\ FQSize \in Nat \ {0} /\ DebugSize \in Nat \ {0}
      /\ 0 \in 0..PaySize-1 /\ 0 \in 0..FQSize-1 /\ 0 \in 0..DebugSize-1
      /\ DebugSize - 1 \in 0..DebugSize-1
  BY SizesOK
<1>2. \A n \in Nat \ {0} : Place(n, 0, 0) = 0
  <2> TAKE n \in Nat \ {0}
  <2>1. 0 \in 0..n-1 /\ 0 \in 0..n /\ 0 + 0 = 0 /\ 0 < n
    OBVIOUS
  <2> QED
    BY <2>1, PlaceIs
<1>3. Place(DebugSize, DebugSize - 1, 1) = 0
  <2>1. 1 \in 0..DebugSize /\ (DebugSize - 1) + 1 = DebugSize /\ ~(DebugSize < DebugSize)
    BY <1>1
  <2> QED
    BY <2>1, <1>1, PlaceIs
<1>4. EmptyPay \in PayRings /\ EmptyPay.head = 0 /\ EmptyPay.length = 0 /\ EmptyPay.tail = 0
  BY <1>1, EmptyTypes DEF EmptyPay, PayRings, Indexes
<1>5. EmptyFQ \in FQRings /\ EmptyFQ.length = 0 /\ EmptyFQ.tail = 0 /\ EmptyFQ.head = 0
  BY <1>1 DEF EmptyFQ, FQRings, Indexes
<1>6. /\ EmptyDB \in DBRings /\ EmptyDB.head = 0 /\ EmptyDB.length = 0
      /\ EmptyDB.tail = DebugSize - 1
  BY <1>1, EmptyTypes DEF EmptyDB, DBRings
<1> QED
  BY <1>1, <1>2, <1>3, <1>4, <1>5, <1>6 DEF RingOfDB

LEMMA InitInv == Init => FrontEndInv
<1> SUFFICES ASSUME Init PROVE FrontEndInv
  OBVIOUS
<1>1. /\ code \in Programs /\ pc = 0 /\ stalls = {} /\ fetching = FALSE
      /\ decode = <<>> /\ fq = EmptyFQ /\ rename2 = <<>> /\ window = <<>>
      /\ pay = EmptyPay /\ db = EmptyDB /\ isaPC = 0
  BY DEF Init
<1>2. /\ Len(window) = 0 /\ Len(rename2) = 0 /\ Len(decode) = 0 /\ fq.length = 0
      /\ InFlightCount = 0 /\ db.length = 0
  BY <1>1, EmptyRings DEF InFlightCount
<1>3. ControlOK
  <2>1. decode \in Seq(Indexes) /\ rename2 \in Seq(Indexes) /\ window \in Seq(Slot)
    BY <1>1
  <2>2. /\ Len(decode) <= FetchWidth /\ Len(rename2) \in {0, DispatchWidth}
        /\ Len(window) <= ActiveSize
    BY <1>2, SizesOK
  <2> QED
    BY <1>1, <2>1, <2>2, EmptyTypes DEF ControlOK
<1>4. PayOK
  BY <1>1, <1>2, EmptyRings DEF PayOK
<1>5. FQOK
  BY <1>1, EmptyRings DEF FQOK
<1>6. DBOK
  BY <1>1, EmptyRings DEF DBOK
<1>7. PathInv
  <2>1. Program(0, OracleOf(db), isaPC)
    BY DEF Program
  <2> QED
    BY <2>1, <1>1, <1>2, EmptyPath DEF PathInv
<1> QED
  BY <1>3, <1>4, <1>5, <1>6, <1>7 DEF FrontEndInv, RingsInv

\* Where everything lies does not change with what happens elsewhere.
LEMMA LayoutSame ==
  ASSUME UNCHANGED <<decode, fq, rename2, window, pay>>
  PROVE  /\ InFlightCount' = InFlightCount /\ PathFn' = PathFn
         /\ PayOK => PayOK'
         /\ FQOK => FQOK'
<1>1. InFlightCount' = InFlightCount
  BY DEF InFlightCount
<1>2. PathFn' = PathFn
  BY <1>1 DEF PathFn, InsnIn, IndexIn
<1>3. PayOK => PayOK'
  BY <1>1 DEF PayOK, BeforeFQ, BeforeDecode, QueuedIn, IndexIn
<1>4. FQOK => FQOK'
  BY DEF FQOK
<1> QED
  BY <1>1, <1>2, <1>3, <1>4

LEMMA RunAheadInv ==
  ASSUME FrontEndInv, RunAhead, code' = code
  PROVE  FrontEndInv'
<1>1. /\ Booting /\ UNCHANGED <<pc, stalls, fetching, decode, fq, rename2, window, pay>>
      /\ RingsInv /\ PathInv
  BY DEF RunAhead, FrontEndInv
<1>2. PICK n \in ArchNext(isaPC) : db' = PushActual(db, n) /\ isaPC' = n
  BY DEF RunAhead
<1>3. /\ code \in Programs /\ isaPC \in PCs /\ RingOfDB(db) /\ db.length < DebugSize /\ n \in PCs
      /\ db \in DBRings /\ db.length \in Nat /\ pay = EmptyPay /\ db.head = 0
  BY <1>1, ArchNextType DEF RingsInv, ControlOK, DBOK, RingOfDB, DBRings, Booting, Hungry
<1> DEFINE d == PushActual(db, n)
           m == db.length
<1>4. /\ RingOfDB(d) /\ d.head = db.head /\ d.length = m + 1
      /\ \A k \in 1..m : EntryIn(d, k) = EntryIn(db, k)
      /\ EntryIn(d, m + 1) = [pc |-> isaPC, next |-> n, exception |-> Traps(isaPC, n)]
  BY <1>3, DBPush
<1>5. d = db'
  BY <1>2
<1> HIDE DEF d
<1>6. RingsInv'
  <2>1. ControlOK'
    BY <1>1, <1>2, <1>3 DEF RingsInv, ControlOK
  <2>2. PayOK' /\ FQOK'
    BY <1>1, LayoutSame DEF RingsInv
  <2>3. DBOK'
    BY <1>1, <1>3, <1>4, <1>5 DEF DBOK
  <2> QED
    BY <2>1, <2>2, <2>3 DEF RingsInv
<1>7. InFlightCount = 0
  <2>1. pay.length = 0 /\ pay.length = 2 * InFlightCount /\ InFlightCount \in Nat
    <3>1. pay.length = 0
      BY <1>3, EmptyRings
    <3>2. pay.length = 2 * InFlightCount
      BY <1>1 DEF RingsInv, PayOK
    <3>3. InFlightCount \in 0..MaxInFlight /\ MaxInFlight \in Nat
      BY <1>1, Counts, SizesOK
    <3> QED
      BY <3>1, <3>2, <3>3
  <2> QED
    BY <2>1
<1> DEFINE E == OracleOf(db)
           F == OracleOf(d)
<1>8. /\ \A k \in 1..m : E[k] = EntryIn(db, k)
      /\ \A k \in 1..m+1 : F[k] = EntryIn(d, k)
  BY <1>3, <1>4, OracleAt
<1>9. /\ \A k \in 1..m : F[k] = E[k]
      /\ F[m + 1] = [pc |-> isaPC, next |-> n, exception |-> Traps(isaPC, n)]
  BY <1>3, <1>4, <1>8
<1>10. PathOK(0, PathFn, window, pc, stalls, m, E, db.head, isaPC)
  BY <1>1, <1>7 DEF PathInv
<1> HIDE DEF E, F
<1>11. Program(m + 1, F, n)
  <2>1. Program(m, E, isaPC)
    BY <1>10 DEF PathOK
  <2> QED
    BY <1>2, <1>3, <1>9, <2>1, ProgramPush
<1>12. F[1].pc = pc
  <2>1. CASE m = 0
    BY <1>9, <1>10, <2>1 DEF PathOK
  <2>2. CASE m # 0
    <3>1. 1 \in 1..m /\ m > 0
      BY <1>3, <2>2
    <3> QED
      BY <3>1, <1>9, <1>10 DEF PathOK, Starts
  <2> QED
    BY <2>1, <2>2
<1>13. Len(window) = 0 /\ stalls = {}
  <2>1. Len(window) = 0
    BY <1>1, <1>7, Counts, SizesOK DEF InFlightCount
  <2>2. StallsOK(0, PathFn, stalls)
    BY <1>10 DEF PathOK
  <2> QED
    BY <2>1, <2>2 DEF StallsOK
<1>14. PathOK(0, PathFn, window, pc, {}, m + 1, F, db.head, n)
  <2>1. m + 1 \in Nat /\ m + 1 # 0
    BY <1>3
  <2> QED
    BY <2>1, <1>11, <1>12, <1>13, EmptyPath
<1>15. PathInv'
  <2>1. /\ 0 = InFlightCount' /\ PathFn = PathFn' /\ window = window' /\ pc = pc'
        /\ {} = stalls' /\ m + 1 = db'.length /\ db.head = db'.head /\ n = isaPC'
    BY <1>1, <1>2, <1>4, <1>5, <1>7, <1>13, LayoutSame
  <2>2. F = OracleOf(db)'
    BY <1>5 DEF F, OracleOf, EntryIn
  <2> QED
    BY <2>1, <2>2, <1>14, PathInvNext
<1> QED
  BY <1>6, <1>15 DEF FrontEndInv
-----------------------------------------------------------------------------
(* fetch()                                                                 *)

\* The debug buffer from its head to its tail is active.
LEMMA ActiveEntry ==
  ASSUME NEW d, RingOfDB(d), NEW k \in 0..DebugSize-1, k < d.length
  PROVE  IsActive(d, Place(DebugSize, d.head, k))
<1> DEFINE e == Place(DebugSize, d.head, k)
           t == Place(DebugSize, d.head, d.length - 1)
<1>1. /\ d \in DBRings /\ d.length \in 1..DebugSize /\ DebugSize \in Nat \ {0}
      /\ d.head \in 0..DebugSize-1 /\ d.tail \in 0..DebugSize-1
      /\ d.length - 1 \in 0..DebugSize /\ k \in 0..DebugSize
      /\ 1 \in 0..DebugSize /\ (d.length - 1) + 1 = d.length
  BY SizesOK DEF RingOfDB, DBRings
<1>2. e = IF d.head + k < DebugSize THEN d.head + k ELSE d.head + k - DebugSize
  BY <1>1, PlaceIs
<1>3. /\ t = IF d.head + (d.length - 1) < DebugSize THEN d.head + (d.length - 1)
             ELSE d.head + (d.length - 1) - DebugSize
      /\ t \in 0..DebugSize-1
  BY <1>1, PlaceIs
<1>4. Place(DebugSize, t, 1) = Place(DebugSize, d.head, d.length)
  BY <1>1, PlaceThen
<1>5. d.tail = t
  <2>1. Place(DebugSize, t, 1) = Place(DebugSize, d.tail, 1)
    BY <1>4 DEF RingOfDB
  <2> HIDE DEF t
  <2>2. Place(DebugSize, t, 1) = IF t + 1 < DebugSize THEN t + 1 ELSE t + 1 - DebugSize
    BY <1>1, <1>3, PlaceIs
  <2>3. Place(DebugSize, d.tail, 1)
          = IF d.tail + 1 < DebugSize THEN d.tail + 1 ELSE d.tail + 1 - DebugSize
    BY <1>1, PlaceIs
  <2>4. d.tail \in 0..DebugSize-1 /\ t \in 0..DebugSize-1 /\ DebugSize \in Nat \ {0}
    BY <1>1, <1>3
  <2>5. (IF t + 1 < DebugSize THEN t + 1 ELSE t + 1 - DebugSize)
          = IF d.tail + 1 < DebugSize THEN d.tail + 1 ELSE d.tail + 1 - DebugSize
    BY <2>1, <2>2, <2>3
  <2> QED
    BY <2>4, <2>5
<1> HIDE DEF e, t
<1>6. /\ d.length > 0
      /\ IF d.head <= d.tail THEN e >= d.head /\ e <= d.tail ELSE e >= d.head \/ e <= d.tail
  BY <1>1, <1>2, <1>3, <1>5
<1>7. IsActive(d, e)
  BY <1>6 DEF IsActive
<1> QED
  BY <1>7 DEF e

\* What map_to_actual() finds for the next instruction.
LEMMA MapToActualOK ==
  ASSUME RingsInv, PathInv, InFlightCount < MaxInFlight, db.length >= MaxInFlight
  PROVE  LET n == InFlightCount
             x == MapToActual(pay.tail, pc)
         IN /\ n = 0 => x = db.head
            /\ n > 0 => x = IF PathFn[n].good /\ OracleOf(db)[n + 1].pc = pc
                            THEN Place(DebugSize, db.head, n) ELSE NoIndex
<1> DEFINE n == InFlightCount
           x == MapToActual(pay.tail, pc)
           prev == pay.buf[(pay.tail + PaySize - 2) % PaySize]
<1>1. /\ n \in Nat /\ n \in 0..MaxInFlight-1 /\ MaxInFlight \in Nat /\ pay \in PayRings
      /\ pay.head \in 0..PaySize-1 /\ PaySize \in Nat \ {0} /\ pay.length = 2 * n
      /\ pay.tail = Place(PaySize, pay.head, 2 * n) /\ 2 * n \in 0..PaySize-1
  <2>1. InFlightCount \in 0..MaxInFlight
    BY Counts
  <2> QED
    BY <2>1, SizesOK DEF RingsInv, PayOK, PayRings, Indexes
<1>2. CASE n = 0
  <2>1. pay.tail = pay.head
    <3>1. 2 * n = 0 /\ 0 \in 0..PaySize /\ pay.head + 0 = pay.head /\ pay.head + 0 < PaySize
      BY <1>1, <1>2
    <3>2. Place(PaySize, pay.head, 0) = pay.head
      BY <1>1, <3>1, PlaceIs
    <3> QED
      BY <1>1, <3>1, <3>2
  <2> QED
    BY <1>2, <2>1 DEF MapToActual
<1>3. CASE n > 0
  <2>1. pay.tail # pay.head
    <3>1. 2 * n # 0 /\ 0 \in 0..PaySize-1 /\ 0 \in 0..PaySize
          /\ pay.head + 0 = pay.head /\ pay.head + 0 < PaySize
      BY <1>1, <1>3
    <3>2. Place(PaySize, pay.head, 0) = pay.head
      BY <1>1, <3>1, PlaceIs
    <3> QED
      BY <1>1, <3>1, <3>2, PlaceDistinct
  <2>2. prev = PathFn[n]
    <3>1. 2 * n \in 2..PaySize-1 /\ 2 * n - 2 = 2 * (n - 1) /\ n \in 1..InFlightCount
      BY <1>1, <1>3
    <3>2. (pay.tail + PaySize - 2) % PaySize = Place(PaySize, pay.head, 2 * n - 2)
      BY <1>1, <3>1, PlaceBefore
    <3>3. (pay.tail + PaySize - 2) % PaySize = IndexIn(pay, n)
      BY <3>1, <3>2 DEF IndexIn
    <3> QED
      BY <3>1, <3>3, PathAt DEF InsnIn
  <2>3. x = IF prev.good THEN CheckNext(prev.db_index, pc) ELSE NoIndex
    BY <2>1 DEF MapToActual
  <2>4. ASSUME prev.good
        PROVE CheckNext(prev.db_index, pc)
                = IF OracleOf(db)[n + 1].pc = pc THEN Place(DebugSize, db.head, n) ELSE NoIndex
    <3>1. /\ RingOfDB(db) /\ db.head \in 0..DebugSize-1 /\ DebugSize \in Nat \ {0}
          /\ db.length \in Nat /\ n - 1 \in 0..DebugSize /\ 1 \in 0..DebugSize
          /\ (n - 1) + 1 = n /\ (n - 1) + 1 <= DebugSize /\ n \in 0..DebugSize-1
          /\ n < db.length /\ n + 1 \in 1..db.length /\ (n + 1) - 1 = n /\ n \in 1..n
      BY <1>1, <1>3, SizesOK DEF RingsInv, DBOK, RingOfDB, DBRings
    <3>2. prev.db_index = Place(DebugSize, db.head, n - 1)
      <4>1. Matched(n, PathFn, OracleOf(db), db.head)
        BY DEF PathInv, PathOK
      <4> QED
        BY <4>1, <3>1, <2>2, <2>4 DEF Matched
    <3> DEFINE e == (prev.db_index + 1) % DebugSize
    <3>3. e = Place(DebugSize, db.head, n)
      <4>1. e = Place(DebugSize, prev.db_index, 1)
        BY DEF Place
      <4>2. e = Place(DebugSize, db.head, (n - 1) + 1)
        BY <4>1, <3>1, <3>2, PlaceThen
      <4> QED
        BY <4>2, <3>1
    <3>4. IsActive(db, e)
      BY <3>1, <3>3, ActiveEntry
    <3>5. db.buf[e] = OracleOf(db)[n + 1]
      BY <3>1, <3>3, OracleAt DEF EntryIn
    <3>6. CheckNext(prev.db_index, pc)
            = IF IsActive(db, e) /\ db.buf[e].pc = pc THEN e ELSE NoIndex
      BY DEF CheckNext
    <3> HIDE DEF e, prev
    <3> QED
      BY <3>3, <3>4, <3>5, <3>6
  <2> HIDE DEF prev, x, n
  <2>5. x = IF PathFn[n].good /\ OracleOf(db)[n + 1].pc = pc
            THEN Place(DebugSize, db.head, n) ELSE NoIndex
    BY <2>2, <2>3, <2>4
  <2> QED
    BY <1>3, <2>5 DEF x, n
<1>4. n = 0 \/ n > 0
  BY <1>1
<1> QED
  BY <1>2, <1>3, <1>4

LEMMA FetchOneInv ==
  ASSUME FrontEndInv, FetchOne, code' = code
  PROVE  FrontEndInv'
<1> DEFINE n == InFlightCount
           kind == FetchedKind
           mapped == MapToActual(pay.tail, pc)
<1>0. RingsInv /\ PathInv
  BY DEF FrontEndInv
<1>a. fetching \/ (Idle /\ MayFetch)
  BY DEF FetchOne
<1>1. /\ stalls' = stalls \cup StallOf(kind)
      /\ decode' = Append(decode, pay.tail)
      /\ UNCHANGED <<fq, rename2, window, db, isaPC>>
  BY DEF FetchOne
<1>2. PICK next \in Predictions(kind, pc) :
         /\ pay' = PayPush([kind |-> kind, pc |-> pc, next |-> next, c_next |-> next,
                            fetch_exception |-> "exception" \in stalls',
                            good |-> mapped # NoIndex, db_index |-> mapped])
         /\ pc' = next
         /\ fetching' = (Len(decode) + 1 < FetchWidth /\ ~StopsBundle(kind, next))
  BY DEF FetchOne
<1> DEFINE x == [kind |-> kind, pc |-> pc, next |-> next, c_next |-> next,
                 fetch_exception |-> "exception" \in stalls',
                 good |-> mapped # NoIndex, db_index |-> mapped]
           P == PathFn
           E == OracleOf(db)
<1>3. /\ code \in Programs /\ pc \in PCs /\ next \in PCs /\ isaPC \in PCs
      /\ stalls \in SUBSET {"exception", "amo", "csr"} /\ FetchWidth \in Nat \ {0}
      /\ decode \in Seq(Indexes) /\ Len(decode) \in 0..FetchWidth-1
      /\ n \in 0..MaxInFlight-1 /\ n \in Nat /\ MaxInFlight \in Nat
      /\ BeforeDecode \in Nat /\ BeforeDecode + Len(decode) = n
      /\ Len(window) \in 0..n
  <2>1. /\ code \in Programs /\ pc \in PCs /\ isaPC \in PCs /\ decode \in Seq(Indexes)
        /\ stalls \in SUBSET {"exception", "amo", "csr"}
        /\ fetching => Len(decode) \in 1..FetchWidth-1
    BY <1>0 DEF RingsInv, ControlOK
  <2>2. Len(decode) \in 0..FetchWidth-1
    <3>1. decode = <<>> => Len(decode) = 0
      OBVIOUS
    <3> QED
      BY <2>1, <3>1, <1>a, SizesOK DEF MayFetch
  <2>3. next \in PCs
    BY <2>1, PredictionsType
  <2>4. /\ Len(window) \in 0..ActiveSize /\ Len(rename2) \in 0..DispatchWidth
        /\ fq.length \in 0..FQSize /\ BeforeDecode \in Nat /\ BeforeDecode + Len(decode) = n
    BY <1>0, Counts
  <2>5. n \in 0..MaxInFlight-1 /\ n \in Nat /\ Len(window) \in 0..n /\ MaxInFlight \in Nat
    <3> DEFINE w == Len(window)
               r == Len(rename2)
               f == fq.length
               d == Len(decode)
    <3>1. n = w + r + f + d
      BY DEF InFlightCount
    <3>2. /\ w \in 0..ActiveSize /\ r \in 0..DispatchWidth /\ f \in 0..FQSize
          /\ d \in 0..FetchWidth-1
      BY <2>2, <2>4
    <3> HIDE DEF n, w, r, f, d
    <3>3. n \in 0..MaxInFlight-1 /\ n \in Nat /\ w \in 0..n /\ MaxInFlight \in Nat
      BY <3>1, <3>2, SizesOK
    <3> QED
      BY <3>3 DEF w
  <2> QED
    BY <2>1, <2>2, <2>3, <2>4, <2>5, SizesOK
<1>4. db.length \in Nat \ {0} /\ db.length >= MaxInFlight /\ db.head \in 0..DebugSize-1
      /\ db \in DBRings
  <2>1. fetching \/ ~Booting
    BY <1>a DEF Idle
  <2>2. db.length \in DebugSize-1..DebugSize /\ db.length >= MaxInFlight
    BY <2>1, <1>0, Started
  <2>3. db \in DBRings
    BY <1>0 DEF RingsInv, DBOK, RingOfDB
  <2> QED
    BY <2>2, <2>3, SizesOK DEF DBRings
<1>5. /\ n = 0 => mapped = db.head
      /\ n > 0 => mapped = IF P[n].good /\ E[n + 1].pc = pc
                           THEN Place(DebugSize, db.head, n) ELSE NoIndex
  BY <1>0, <1>3, <1>4, MapToActualOK
<1>6. mapped \in 0..DebugSize /\ NoIndex = DebugSize /\ db.head # NoIndex
      /\ Place(DebugSize, db.head, n) # NoIndex
  <2>1. n \in 0..DebugSize /\ DebugSize \in Nat \ {0}
    BY <1>3, SizesOK
  <2>2. Place(DebugSize, db.head, n) \in 0..DebugSize-1
    BY <2>1, <1>4, PlaceIs
  <2> QED
    BY <2>1, <2>2, <1>3, <1>4, <1>5 DEF NoIndex
<1>7. kind \in Kinds \cup {NopKind} /\ kind = IF stalls # {} THEN NopKind ELSE code[pc]
  BY <1>3, KindOfCode DEF FetchedKind
<1> HIDE DEF mapped, kind
<1>8. x \in Insn
  BY <1>3, <1>6, <1>7 DEF Insn
<1>9. pay' = PayPush(x)
  BY <1>2
<1> HIDE DEF x
<1>10. /\ pay' \in PayRings /\ pay'.head = pay.head /\ pay'.length = 2 * (n + 1)
       /\ pay'.tail = Place(PaySize, pay.head, 2 * (n + 1))
       /\ \A k \in 1..n : InsnIn(pay', k) = InsnIn(pay, k)
       /\ InsnIn(pay', n + 1) = x
       /\ pay.tail = IndexIn(pay, n + 1) /\ pay.tail \in Indexes
  <2>1. pay \in PayRings /\ pay.tail = Place(PaySize, pay.head, pay.length) /\ pay.length = 2 * n
    BY <1>0 DEF RingsInv, PayOK
  <2> QED
    BY <2>1, <1>3, <1>8, <1>9, PayPushOK DEF PayRings
<1>11. /\ decode' \in Seq(Indexes) /\ Len(decode') = Len(decode) + 1
       /\ \A k \in 1..Len(decode) : decode'[k] = decode[k]
       /\ decode'[Len(decode) + 1] = pay.tail
  BY <1>1, <1>3, <1>10, AppendProperties
<1>12. InFlightCount' = n + 1 /\ BeforeDecode' = BeforeDecode /\ BeforeFQ' = BeforeFQ
  BY <1>0, <1>1, <1>3, <1>11, Counts DEF InFlightCount, BeforeDecode, BeforeFQ
<1>13. RingsInv'
  <2>1. ControlOK'
    <3>1. stalls' \in SUBSET {"exception", "amo", "csr"}
      BY <1>1, <1>3 DEF StallOf
    <3>2. fetching' \in BOOLEAN /\ (fetching' => Len(decode') \in 1..FetchWidth-1)
      <4>1. fetching' \in BOOLEAN /\ (fetching' => Len(decode) + 1 < FetchWidth)
        BY <1>2
      <4>2. Len(decode) + 1 < FetchWidth => Len(decode') \in 1..FetchWidth-1
        BY <1>3, <1>11
      <4> QED
        BY <4>1, <4>2
    <3>3. rename2' = rename2 /\ window' = window /\ pc' = next /\ isaPC' = isaPC
          /\ Len(decode') <= FetchWidth
      BY <1>1, <1>2, <1>3, <1>11
    <3>4. /\ rename2 \in Seq(Indexes) /\ Len(rename2) \in {0, DispatchWidth}
          /\ window \in Seq(Slot) /\ Len(window) <= ActiveSize
      BY <1>0 DEF RingsInv, ControlOK
    <3> QED
      BY <1>3, <1>11, <3>1, <3>2, <3>3, <3>4 DEF ControlOK
  <2>2. PayOK'
    <3>1. \A k : IndexIn(pay, k)' = IndexIn(pay, k)
      BY <1>10 DEF IndexIn
    <3>2. /\ \A k \in 1..Len(window)' : window'[k].index = IndexIn(pay, k)'
          /\ \A k \in 1..Len(rename2)' : rename2'[k] = IndexIn(pay, Len(window) + k)'
          /\ \A k \in 1..fq'.length : QueuedIn(fq', k) = IndexIn(pay, BeforeFQ + k)'
      BY <1>0, <1>1, <1>12, <3>1 DEF RingsInv, PayOK, IndexIn
    <3>3. ASSUME NEW k \in 1..Len(decode')
          PROVE decode'[k] = IndexIn(pay', BeforeDecode' + k)
      <4>1. CASE k \in 1..Len(decode)
        BY <4>1, <1>0, <1>1, <1>10, <1>11, <1>12 DEF RingsInv, PayOK, IndexIn
      <4>2. CASE k = Len(decode) + 1
        <5>1. BeforeDecode + k = n + 1
          BY <4>2, <1>3
        <5>2. IndexIn(pay', n + 1) = IndexIn(pay, n + 1)
          BY <1>10 DEF IndexIn
        <5> QED
          BY <4>2, <5>1, <5>2, <1>10, <1>11, <1>12
      <4> QED
        BY <4>1, <4>2, <1>3, <1>11
    <3> QED
      BY <1>10, <1>12, <3>2, <3>3 DEF PayOK, IndexIn
  <2>3. FQOK'
    BY <1>0, <1>1 DEF RingsInv, FQOK
  <2>4. DBOK'
    <3>1. db.length >= DebugSize - 1
      BY <1>0, <1>a, Started DEF Idle
    <3> QED
      BY <1>0, <1>1, <3>1 DEF RingsInv, DBOK
  <2> QED
    BY <2>1, <2>2, <2>3, <2>4 DEF RingsInv
<1> DEFINE Q == [k \in 1..n+1 |-> InsnIn(pay', k)]
<1>14. Q = PathFn'
  BY <1>12 DEF PathFn
<1>15. /\ \A k \in 1..n : Q[k] = P[k]
       /\ Q[n + 1] = x
  BY <1>3, <1>10 DEF PathFn
<1> HIDE DEF Q, P, E
<1>16. /\ x.kind = kind /\ x.pc = pc /\ x.next = next /\ x.c_next = next
       /\ x.fetch_exception = ("exception" \in stalls')
       /\ x.good = (mapped # NoIndex) /\ x.db_index = mapped
  BY DEF x
<1>17. PathOK(n, P, window, pc, stalls, db.length, E, db.head, isaPC)
  BY <1>0 DEF PathInv, P, E
<1>18. PathOK(n + 1, Q, window, Q[n + 1].c_next, stalls', db.length, E, db.head, isaPC)
  <2>1. /\ Q[n + 1].pc = pc
        /\ Q[n + 1].kind = IF stalls # {} THEN NopKind ELSE code[pc]
        /\ Q[n + 1].c_next \in Predictions(Q[n + 1].kind, pc)
        /\ Q[n + 1].next = Q[n + 1].c_next
        /\ stalls' = stalls \cup StallOf(Q[n + 1].kind)
        /\ Q[n + 1].fetch_exception <=> "exception" \in stalls'
    BY <1>1, <1>2, <1>7, <1>15, <1>16
  <2>2. n = 0 => Q[n + 1].good /\ Q[n + 1].db_index = db.head
    BY <1>5, <1>6, <1>15, <1>16
  <2>3. n > 0 => /\ Q[n + 1].good <=> P[n].good /\ E[n + 1].pc = pc
                 /\ Q[n + 1].good => Q[n + 1].db_index = Place(DebugSize, db.head, n)
    BY <1>5, <1>6, <1>15, <1>16
  <2> HIDE DEF n
  <2> QED
    <3>1. Appended(n, P, pc, stalls, E, db.head, Q, stalls')
      BY <1>15, <2>1, <2>2, <2>3 DEF Appended
    <3> QED
      BY <1>3, <1>4, <1>17, <3>1, AppendPath
<1>19. PathInv'
  <2>1. /\ n + 1 = InFlightCount' /\ Q = PathFn' /\ window = window' /\ Q[n + 1].c_next = pc'
        /\ db.length = db'.length /\ db.head = db'.head /\ isaPC = isaPC'
    BY <1>1, <1>2, <1>12, <1>14, <1>15, <1>16
  <2>2. E = OracleOf(db)'
    BY <1>1 DEF E, OracleOf, EntryIn
  <2> QED
    BY <2>1, <2>2, <1>18, PathInvNext
<1> QED
  BY <1>13, <1>19 DEF FrontEndInv
-----------------------------------------------------------------------------
(* decode(), rename1() and the way to the Active List.                     *)

\* A step that only moves PAY indices from one stage to the next.
LEMMA PathMoves ==
  ASSUME PathInv, code' = code, UNCHANGED <<pc, stalls, window, pay, db, isaPC>>,
         InFlightCount' = InFlightCount
  PROVE  PathInv'
<1>1. PathFn' = PathFn
  BY DEF PathFn, InsnIn, IndexIn
<1>2. OracleOf(db)' = OracleOf(db)
  BY DEF OracleOf, EntryIn
<1>3. PathOK(InFlightCount, PathFn, window, pc, stalls, db.length, OracleOf(db), db.head, isaPC)
  BY DEF PathInv
<1>4. db'.length = db.length /\ db'.head = db.head
  OBVIOUS
<1> QED
  BY <1>1, <1>2, <1>3, <1>4, PathInvNext

LEMMA DecodeInv ==
  ASSUME FrontEndInv, Decode, code' = code
  PROVE  FrontEndInv'
<1> DEFINE n == Len(decode)
<1>1. RingsInv /\ PathInv
  BY DEF FrontEndInv
<1>2. /\ Idle /\ EnoughSpace(2 * n) /\ fq' = FQPushBundle(decode) /\ decode' = <<>>
      /\ UNCHANGED <<pc, stalls, fetching, rename2, window, pay, db, isaPC>>
  BY DEF Decode
<1>3. /\ decode \in Seq(Indexes) /\ n \in Nat /\ fq.length \in Nat /\ FQSize \in Nat
      /\ Len(window) \in Nat /\ Len(rename2) \in Nat
      /\ FQOK /\ PayOK /\ ControlOK /\ DBOK
  BY <1>1, SizesOK, LenProperties DEF RingsInv, ControlOK, FQOK, FQRings
<1>4. fq.length + n <= FQSize
  BY <1>2, <1>3 DEF EnoughSpace
<1>5. /\ fq' \in FQRings /\ fq'.head = fq.head /\ fq'.length = fq.length + n
      /\ fq'.tail = Place(FQSize, fq.head, fq.length + n)
      /\ \A k \in 1..fq.length : QueuedIn(fq', k) = QueuedIn(fq, k)
      /\ \A k \in 1..n : QueuedIn(fq', fq.length + k) = decode[k]
  BY <1>2, <1>3, <1>4, FQPushOK
<1>6. decode' \in Seq(Indexes) /\ Len(decode') = 0
  BY <1>2
<1>7. InFlightCount' = InFlightCount /\ BeforeFQ' = BeforeFQ
  BY <1>2, <1>3, <1>5, <1>6 DEF InFlightCount, BeforeFQ
<1>8. ControlOK'
  <2>1. ~fetching
    BY <1>2 DEF Idle
  <2> QED
    BY <1>2, <1>3, <1>6, <2>1, SizesOK DEF ControlOK
<1>9. PayOK'
  <2>1. ASSUME NEW k \in 1..fq'.length PROVE QueuedIn(fq', k) = IndexIn(pay, BeforeFQ + k)
    <3>1. CASE k \in 1..fq.length
      BY <3>1, <1>3, <1>5 DEF PayOK
    <3>2. CASE k \notin 1..fq.length
      <4>1. k - fq.length \in 1..n /\ fq.length + (k - fq.length) = k
            /\ BeforeDecode + (k - fq.length) = BeforeFQ + k
        BY <3>2, <1>3, <1>5 DEF BeforeDecode, BeforeFQ
      <4>2. QueuedIn(fq', fq.length + (k - fq.length)) = decode[k - fq.length]
        BY <4>1, <1>5
      <4>3. decode[k - fq.length] = IndexIn(pay, BeforeDecode + (k - fq.length))
        BY <4>1, <1>3 DEF PayOK
      <4> QED
        BY <4>1, <4>2, <4>3
    <3> QED
      BY <3>1, <3>2
  <2>2. 1..Len(decode') = {}
    BY <1>6
  <2>3. pay' = pay /\ window' = window /\ rename2' = rename2
    BY <1>2
  <2> QED
    BY <1>3, <1>7, <2>1, <2>2, <2>3 DEF PayOK, IndexIn
<1>10. FQOK'
  BY <1>5 DEF FQOK
<1>11. DBOK'
  BY <1>2, <1>3 DEF DBOK
<1>12. PathInv'
  BY <1>1, <1>2, <1>7, PathMoves
<1> QED
  BY <1>8, <1>9, <1>10, <1>11, <1>12 DEF FrontEndInv, RingsInv

LEMMA Rename1Inv ==
  ASSUME FrontEndInv, Rename1, code' = code
  PROVE  FrontEndInv'
<1> DEFINE n == DispatchWidth
<1>1. RingsInv /\ PathInv
  BY DEF FrontEndInv
<1>2. /\ Idle /\ rename2 = <<>> /\ fq.length >= n
      /\ rename2' = [k \in 1..n |-> fq.q[FQSlot(k)]]
      /\ fq' = FQPopBundle(n)
      /\ UNCHANGED <<pc, stalls, fetching, decode, window, pay, db, isaPC>>
  BY DEF Rename1, BundleReady
<1>3. /\ n \in Nat \ {0} /\ fq.length \in Nat /\ fq.length <= FQSize /\ FQSize \in Nat
      /\ Len(window) \in Nat /\ Len(decode) \in Nat /\ Len(rename2) = 0
      /\ FQOK /\ PayOK /\ ControlOK /\ DBOK
  BY <1>1, <1>2, SizesOK, LenProperties DEF RingsInv, ControlOK, FQOK, FQRings
<1>4. /\ fq' \in FQRings /\ fq'.length = fq.length - n
      /\ fq'.tail = Place(FQSize, fq'.head, fq.length - n)
      /\ \A k \in 1..fq.length-n : QueuedIn(fq', k) = QueuedIn(fq, n + k)
  BY <1>2, <1>3, FQPopOK
<1>5. \A k \in 1..n : fq.q[FQSlot(k)] = QueuedIn(fq, k) /\ fq.q[FQSlot(k)] \in Indexes
  <2> TAKE k \in 1..n
  <2>1. k \in 1..FQSize
    BY <1>2, <1>3
  <2>2. FQSlot(k) = Place(FQSize, fq.head, k - 1) /\ FQSlot(k) \in 0..FQSize-1
    BY <2>1, <1>3, FQSlotIs
  <2> QED
    BY <2>2, <1>3 DEF QueuedIn, FQOK, FQRings
<1>6. /\ rename2' \in Seq(Indexes) /\ Len(rename2') = n
      /\ \A k \in 1..n : rename2'[k] = QueuedIn(fq, k)
  <2>1. rename2' \in [1..n -> Indexes]
    BY <1>2, <1>5
  <2>2. rename2' \in Seq(Indexes) /\ Len(rename2') = n
    BY <2>1, <1>3
  <2> QED
    BY <2>2, <1>2, <1>5
<1>7. InFlightCount' = InFlightCount /\ BeforeDecode' = BeforeDecode /\ BeforeFQ' = Len(window) + n
  <2>1. /\ Len(window') = Len(window) /\ Len(decode') = Len(decode)
        /\ fq'.length = fq.length - n /\ Len(rename2') = n
    BY <1>2, <1>4, <1>6
  <2>2. /\ InFlightCount' = Len(window) + n + (fq.length - n) + Len(decode)
        /\ BeforeFQ' = Len(window) + n /\ BeforeDecode' = Len(window) + n + (fq.length - n)
    BY <2>1 DEF InFlightCount, BeforeFQ, BeforeDecode
  <2>3. /\ InFlightCount = Len(window) + 0 + fq.length + Len(decode)
        /\ BeforeDecode = Len(window) + 0 + fq.length
    BY <1>3 DEF InFlightCount, BeforeFQ, BeforeDecode
  <2>4. n \in Nat /\ fq.length \in Nat /\ Len(window) \in Nat /\ Len(decode) \in Nat
    BY <1>3
  <2> DEFINE w == Len(window)
             f == fq.length
             d == Len(decode)
  <2> HIDE DEF n, w, f, d
  <2>5. w + n + (f - n) + d = w + 0 + f + d /\ w + n + (f - n) = w + 0 + f
    BY <2>4 DEF w, f, d
  <2> QED
    BY <2>2, <2>3, <2>5 DEF w, f, d
<1>8. ControlOK'
  <2>1. ~fetching
    BY <1>2 DEF Idle
  <2>2. Len(rename2') \in {0, DispatchWidth}
    BY <1>6
  <2> QED
    BY <1>2, <1>3, <1>6, <2>1, <2>2 DEF ControlOK
<1>9. PayOK'
  <2>1. ASSUME NEW k \in 1..n PROVE rename2'[k] = IndexIn(pay, Len(window) + k)
    <3>1. k \in 1..fq.length /\ BeforeFQ + k = Len(window) + k
      BY <1>2, <1>3 DEF BeforeFQ
    <3> QED
      BY <3>1, <1>3, <1>6 DEF PayOK
  <2>2. ASSUME NEW k \in 1..fq'.length
        PROVE QueuedIn(fq', k) = IndexIn(pay, (Len(window) + n) + k)
    <3>1. n + k \in 1..fq.length /\ BeforeFQ + (n + k) = (Len(window) + n) + k
          /\ k \in 1..fq.length-n
      BY <1>2, <1>3, <1>4 DEF BeforeFQ
    <3>2. QueuedIn(fq, n + k) = IndexIn(pay, BeforeFQ + (n + k))
      BY <3>1, <1>3 DEF PayOK
    <3> QED
      BY <3>1, <3>2, <1>4
  <2>3. pay' = pay /\ window' = window /\ decode' = decode
    BY <1>2
  <2> QED
    BY <1>3, <1>6, <1>7, <2>1, <2>2, <2>3 DEF PayOK, IndexIn
<1>10. FQOK'
  BY <1>4 DEF FQOK
<1>11. DBOK'
  BY <1>2, <1>3 DEF DBOK
<1>12. PathInv'
  BY <1>1, <1>2, <1>7, PathMoves
<1> QED
  BY <1>8, <1>9, <1>10, <1>11, <1>12 DEF FrontEndInv, RingsInv

LEMMA DispatchInv ==
  ASSUME FrontEndInv, Dispatch, code' = code
  PROVE  FrontEndInv'
<1> DEFINE n == Len(rename2)
           l == Len(window)
           b == [k \in 1..n |-> Dispatched(rename2[k])]
<1>1. RingsInv /\ PathInv
  BY DEF FrontEndInv
<1>2. /\ Idle /\ rename2 # <<>> /\ l + DispatchWidth <= ActiveSize
      /\ window' = window \o b /\ rename2' = <<>>
      /\ UNCHANGED <<pc, stalls, fetching, decode, fq, pay, db, isaPC>>
  BY DEF Dispatch
<1>3. /\ n \in Nat /\ n <= DispatchWidth /\ l \in Nat /\ fq.length \in Nat /\ Len(decode) \in Nat
      /\ FQOK /\ PayOK /\ ControlOK /\ DBOK /\ DispatchWidth \in Nat /\ ActiveSize \in Nat
      /\ rename2 \in Seq(Indexes) /\ window \in Seq(Slot)
      /\ \A k \in 1..n : rename2[k] \in Indexes
      /\ InFlightCount \in 0..MaxInFlight /\ l + n <= InFlightCount
  <2>1. /\ n \in 0..DispatchWidth /\ l \in 0..ActiveSize /\ fq.length \in 0..FQSize
        /\ Len(decode) \in 0..FetchWidth /\ InFlightCount \in 0..MaxInFlight
    BY <1>1, Counts
  <2>2. l + n <= InFlightCount
    BY <2>1, SizesOK DEF InFlightCount
  <2>3. FQOK /\ PayOK /\ ControlOK /\ DBOK
    BY <1>1 DEF RingsInv
  <2>4. rename2 \in Seq(Indexes) /\ window \in Seq(Slot)
    BY <2>3 DEF ControlOK
  <2>5. \A k \in 1..n : rename2[k] \in Indexes
    BY <2>4
  <2> QED
    BY <2>1, <2>2, <2>3, <2>4, <2>5, SizesOK
<1>4. ASSUME NEW k \in 1..n PROVE b[k] \in Slot /\ b[k] = Dispatched(rename2[k])
  <2>1. pay.buf[rename2[k]] \in Insn /\ rename2[k] \in Indexes
    BY <1>3 DEF PayOK, PayRings
  <2>2. pay.buf[rename2[k]].fetch_exception \in BOOLEAN
    BY <2>1 DEF Insn
  <2>3. b[k] = Dispatched(rename2[k])
    OBVIOUS
  <2> HIDE DEF b
  <2>4. /\ (pay.buf[rename2[k]].kind \in {NopKind, "fault", "syscall"}) \in BOOLEAN
        /\ (pay.buf[rename2[k]].kind = "syscall" \/ pay.buf[rename2[k]].fetch_exception) \in BOOLEAN
    OBVIOUS
  <2> QED
    BY <2>1, <2>3, <2>4 DEF Dispatched, Slot, Indexes
<1>5. b \in Seq(Slot) /\ Len(b) = n
  <2>1. b \in [1..n -> Slot]
    BY <1>4
  <2> HIDE DEF b
  <2> QED
    BY <2>1, <1>3
<1> HIDE DEF b
<1>6. /\ window' \in Seq(Slot) /\ Len(window') = l + n
      /\ \A k \in 1..l : window'[k] = window[k]
      /\ \A k \in 1..n : window'[l + k] = b[k]
  <2>1. /\ (window \o b) \in Seq(Slot) /\ Len(window \o b) = l + n
        /\ \A k \in 1..l+n : (window \o b)[k] = IF k <= l THEN window[k] ELSE b[k - l]
    BY <1>3, <1>5
  <2>2. ASSUME NEW k \in 1..n PROVE window'[l + k] = b[k]
    <3>1. l + k \in 1..l+n /\ ~(l + k <= l) /\ (l + k) - l = k
      BY <1>3
    <3> QED
      BY <3>1, <2>1, <1>2
  <2>3. \A k \in 1..l : k \in 1..l+n /\ k <= l
    BY <1>3
  <2> QED
    BY <1>2, <2>1, <2>2, <2>3
<1>7. rename2' \in Seq(Indexes) /\ Len(rename2') = 0
  BY <1>2
<1>8. InFlightCount' = InFlightCount /\ BeforeFQ' = BeforeFQ /\ BeforeDecode' = BeforeDecode
  BY <1>2, <1>3, <1>6, <1>7 DEF InFlightCount, BeforeFQ, BeforeDecode
<1>9. ControlOK'
  <2>1. Len(window') <= ActiveSize
    BY <1>2, <1>3, <1>6
  <2> QED
    BY <1>2, <1>3, <1>6, <1>7, <2>1 DEF ControlOK
<1>10. PayOK'
  <2>1. ASSUME NEW k \in 1..l+n PROVE window'[k].index = IndexIn(pay, k)
    <3>1. CASE k <= l
      <4>1. k \in 1..l
        BY <3>1
      <4> QED
        BY <4>1, <1>3, <1>6 DEF PayOK
    <3>2. CASE ~(k <= l)
      <4>1. k - l \in 1..n /\ l + (k - l) = k
        BY <3>2, <1>3
      <4>2. window'[l + (k - l)] = b[k - l]
        BY <4>1, <1>6
      <4>3. b[k - l].index = rename2[k - l]
        <5>1. b[k - l] = Dispatched(rename2[k - l])
          BY <4>1, <1>4
        <5> QED
          BY <5>1 DEF Dispatched
      <4>4. rename2[k - l] = IndexIn(pay, l + (k - l))
        BY <4>1, <1>3 DEF PayOK
      <4> QED
        BY <4>1, <4>2, <4>3, <4>4
    <3> QED
      BY <3>1, <3>2
  <2>2. 1..Len(rename2') = {}
    BY <1>7
  <2>3. pay' = pay /\ fq' = fq /\ decode' = decode
    BY <1>2
  <2> QED
    BY <1>3, <1>6, <1>8, <2>1, <2>2, <2>3 DEF PayOK, IndexIn, QueuedIn
<1>11. FQOK' /\ DBOK'
  BY <1>2, <1>3 DEF FQOK, DBOK
<1>12. PathFn' = PathFn /\ OracleOf(db)' = OracleOf(db)
  BY <1>2, <1>8 DEF PathFn, InsnIn, IndexIn, OracleOf, EntryIn
<1>13. PathOK(InFlightCount, PathFn, window, pc, stalls, db.length, OracleOf(db), db.head, isaPC)
  BY <1>1 DEF PathInv
<1>14. ASSUME NEW k \in Len(window)+1..Len(window')
       PROVE  /\ window'[k].completed <=> PathFn[k].kind \in {NopKind, "fault", "syscall"}
              /\ window'[k].exception <=> PathFn[k].kind = "syscall" \/ PathFn[k].fetch_exception
              /\ ~window'[k].load_viol
  <2>1. k - l \in 1..n /\ l + (k - l) = k /\ k \in 1..InFlightCount
    BY <1>3, <1>6
  <2>2. window'[l + (k - l)] = Dispatched(rename2[k - l])
    BY <2>1, <1>4, <1>6
  <2>3. rename2[k - l] = IndexIn(pay, l + (k - l))
    BY <2>1, <1>3 DEF PayOK
  <2>4. window'[k] = Dispatched(IndexIn(pay, k))
    BY <2>1, <2>2, <2>3
  <2>5. PathFn[k] = pay.buf[IndexIn(pay, k)]
    BY <2>1, PathAt DEF InsnIn
  <2> DEFINE insn == PathFn[k]
  <2>6. window'[k] = [index |-> IndexIn(pay, k),
                      completed |-> insn.kind \in {NopKind, "fault", "syscall"},
                      exception |-> insn.kind = "syscall" \/ insn.fetch_exception,
                      load_viol |-> FALSE]
    BY <2>4, <2>5 DEF Dispatched
  <2> HIDE DEF insn
  <2>7. /\ window'[k].completed = (insn.kind \in {NopKind, "fault", "syscall"})
        /\ window'[k].exception = (insn.kind = "syscall" \/ insn.fetch_exception)
        /\ window'[k].load_viol = FALSE
    BY <2>6
  <2> QED
    BY <2>7 DEF insn
<1>15. PathOK(InFlightCount, PathFn, window', pc, stalls, db.length, OracleOf(db), db.head, isaPC)
  <2>1. /\ InFlightCount \in Nat /\ Len(window) \in Nat /\ Len(window') \in Nat
        /\ Len(window) <= Len(window') /\ Len(window') <= InFlightCount
    BY <1>3, <1>6
  <2>2. \A k \in 1..Len(window) : window'[k] = window[k]
    BY <1>6
  <2> QED
    BY <2>1, <2>2, <1>13, <1>14, DispatchPath
<1>16. PathInv'
  <2>1. pc' = pc /\ stalls' = stalls /\ db'.length = db.length /\ db'.head = db.head /\ isaPC' = isaPC
    BY <1>2
  <2> QED
    BY <2>1, <1>8, <1>12, <1>15, PathInvNext
<1> QED
  BY <1>9, <1>10, <1>11, <1>16 DEF FrontEndInv, RingsInv
-----------------------------------------------------------------------------
(* Execution.                                                              *)

\* What an instruction of the window computes.
LEMMA OutcomesOK ==
  ASSUME RingsInv, PathInv, NEW i \in 1..Len(window)
  PROVE  /\ i \in 1..InFlightCount /\ InFlightCount \in 1..MaxInFlight
         /\ db.length \in Nat \ {0} /\ i \in 1..db.length
         /\ window[i].index = IndexIn(pay, i) /\ InsnAt(i) = PathFn[i]
         /\ PathFn[i].pc \in PCs
         /\ OperandsRight(i) <=> Right(i, PathFn, window)
         /\ Right(i, PathFn, window) => Outcomes(i) = {OracleOf(db)[i].next}
         /\ Outcomes(i) \subseteq PCs
         /\ Right(i, PathFn, window) =>
              OracleOf(db)[i].exception = Traps(PathFn[i].pc, OracleOf(db)[i].next)
<1> DEFINE P == PathFn
           E == OracleOf(db)
           n == InFlightCount
<1>1. i \in 1..n /\ n \in 1..MaxInFlight
  <2>1. /\ Len(window) \in Nat /\ Len(rename2) \in Nat /\ fq.length \in Nat
        /\ Len(decode) \in Nat /\ n \in 0..MaxInFlight
    BY Counts, SizesOK
  <2> QED
    BY <2>1 DEF InFlightCount
<1>2. /\ db.length \in DebugSize-1..DebugSize /\ db.length >= MaxInFlight
      /\ db \in DBRings
  <2>1. n > 0
    BY <1>1
  <2> QED
    BY <2>1, Started DEF RingsInv, DBOK, RingOfDB
<1>3. db.length \in Nat \ {0} /\ i \in 1..db.length
  BY <1>1, <1>2, SizesOK
<1>4. window[i].index = IndexIn(pay, i)
  BY DEF RingsInv, PayOK
<1>5. InsnAt(i) = P[i]
  BY <1>1, <1>4, PathAt DEF InsnAt, InsnIn
<1>6. P[i] \in Insn
  BY <1>1, PathType
<1>7. P[i].pc \in PCs
  BY <1>6 DEF Insn
<1>8. E[i] \in Actual /\ E[i] = EntryIn(db, i)
  BY <1>2, <1>3, OracleType, OracleAt
<1>9. /\ P[i].good <=> OnThePath(i, P, E)
      /\ P[i].good => P[i].db_index = Place(DebugSize, db.head, i - 1)
  BY <1>1 DEF PathInv, PathOK, Matched
<1>10. E[i].exception = Traps(E[i].pc, E[i].next)
  BY <1>3 DEF PathInv, PathOK, Program
<1>11. ASSUME P[i].good PROVE P[i].pc = E[i].pc /\ db.buf[P[i].db_index] = E[i]
  <2>1. i \in 1..i
    BY <1>1
  <2>2. OnThePath(i, P, E) /\ P[i].db_index = Place(DebugSize, db.head, i - 1)
    BY <1>9, <1>11
  <2> QED
    BY <2>1, <2>2, <1>8 DEF OnThePath, EntryIn
<1> HIDE DEF P, E, n
<1>12. OperandsRight(i) <=> Right(i, P, window)
  BY <1>5 DEF OperandsRight, Right
<1>13. Outcomes(i) = IF OperandsRight(i) THEN {db.buf[P[i].db_index].next} ELSE ArchNext(P[i].pc)
  BY <1>5 DEF Outcomes
<1>14. ASSUME Right(i, P, window)
       PROVE  Outcomes(i) = {E[i].next} /\ E[i].exception = Traps(P[i].pc, E[i].next)
  <2>1. P[i].good
    BY <1>14 DEF Right
  <2>2. P[i].pc = E[i].pc /\ db.buf[P[i].db_index] = E[i]
    BY <2>1, <1>11
  <2>3. OperandsRight(i)
    BY <1>12, <1>14
  <2>4. Outcomes(i) = {E[i].next}
    BY <2>2, <2>3, <1>13
  <2>5. E[i].exception = Traps(P[i].pc, E[i].next)
    BY <2>2, <1>10
  <2> QED
    BY <2>4, <2>5
<1>15. Outcomes(i) \subseteq PCs
  <2>1. CASE OperandsRight(i)
    <3>1. Outcomes(i) = {E[i].next}
      BY <2>1, <1>12, <1>14
    <3> QED
      BY <3>1, <1>8 DEF Actual
  <2>2. CASE ~OperandsRight(i)
    <3>1. Outcomes(i) = ArchNext(P[i].pc)
      BY <2>2, <1>13
    <3>2. code \in Programs
      BY DEF RingsInv, ControlOK
    <3> QED
      BY <3>1, <3>2, <1>7, ArchNextType
  <2> QED
    BY <2>1, <2>2
<1> QED
  BY <1>1, <1>3, <1>4, <1>5, <1>7, <1>12, <1>14, <1>15 DEF P, E, n

\* Only the flags of one instruction of the window change.
LEMMA CompleteInv ==
  ASSUME FrontEndInv, code' = code,
         UNCHANGED <<pc, stalls, fetching, decode, fq, rename2, pay, db, isaPC>>,
         NEW i \in 1..Len(window), ~window[i].completed,
         NEW s \in Slot, s.index = window[i].index, window' = [window EXCEPT ![i] = s],
         ExecutedOK(i, PathFn, OracleOf(db), window')
  PROVE  FrontEndInv'
<1> DEFINE n == InFlightCount
           l == Len(window)
<1>1. RingsInv /\ PathInv
  BY DEF FrontEndInv
<1>2. /\ ControlOK /\ PayOK /\ FQOK /\ DBOK /\ n \in Nat /\ l \in Nat /\ l <= n
      /\ window \in Seq(Slot)
  <2>1. /\ l \in Nat /\ Len(rename2) \in Nat /\ fq.length \in Nat /\ Len(decode) \in Nat
        /\ n \in 0..MaxInFlight
    BY <1>1, Counts, SizesOK
  <2>2. ControlOK /\ PayOK /\ FQOK /\ DBOK
    BY <1>1 DEF RingsInv
  <2>3. window \in Seq(Slot)
    BY <2>2 DEF ControlOK
  <2>4. l <= n
    BY <2>1 DEF InFlightCount
  <2>5. n \in Nat
    BY <2>1, SizesOK
  <2> QED
    BY <2>1, <2>2, <2>3, <2>4, <2>5
<1>3. /\ window' \in Seq(Slot) /\ Len(window') = l
      /\ \A k \in 1..l : k # i => window'[k] = window[k]
      /\ window'[i] = s
  BY <1>2
<1>4. /\ Len(window)' = Len(window) /\ Len(rename2)' = Len(rename2) /\ fq'.length = fq.length
      /\ Len(decode)' = Len(decode)
  BY <1>3
<1>5. InFlightCount' = n /\ BeforeFQ' = BeforeFQ /\ BeforeDecode' = BeforeDecode
  BY <1>4 DEF InFlightCount, BeforeFQ, BeforeDecode
<1>6. PathFn' = PathFn /\ OracleOf(db)' = OracleOf(db)
  BY <1>5 DEF PathFn, InsnIn, IndexIn, OracleOf, EntryIn
<1>7. ControlOK'
  BY <1>2, <1>3 DEF ControlOK
<1>8. PayOK'
  <2>1. ASSUME NEW k \in 1..l PROVE window'[k].index = IndexIn(pay, k)
    <3>1. window[k].index = IndexIn(pay, k)
      BY <1>2 DEF PayOK
    <3> QED
      BY <3>1, <1>3
  <2>2. /\ \A k \in 1..Len(rename2) : rename2[k] = IndexIn(pay, Len(window) + k)
        /\ \A k \in 1..fq.length : QueuedIn(fq, k) = IndexIn(pay, BeforeFQ + k)
        /\ \A k \in 1..Len(decode) : decode[k] = IndexIn(pay, BeforeDecode + k)
        /\ pay \in PayRings /\ pay.tail = Place(PaySize, pay.head, pay.length)
        /\ pay.length = 2 * n
    BY <1>2 DEF PayOK
  <2>3. pay' = pay /\ rename2' = rename2 /\ fq' = fq /\ decode' = decode
    OBVIOUS
  <2> HIDE DEF n
  <2> QED
    BY <1>4, <1>5, <2>1, <2>2, <2>3 DEF PayOK
<1>9. FQOK' /\ DBOK'
  BY <1>2 DEF FQOK, DBOK
<1>10. PathOK(n, PathFn, window', pc, stalls, db.length, OracleOf(db), db.head, isaPC)
  <2>1. PathOK(n, PathFn, window, pc, stalls, db.length, OracleOf(db), db.head, isaPC)
    BY <1>1 DEF PathInv
  <2>2. Len(window) \in 0..n
    BY <1>2
  <2> HIDE DEF n
  <2> QED
    BY <2>1, <2>2, <1>2, <1>3, CompletePath
<1>11. PathInv'
  <2>1. pc' = pc /\ stalls' = stalls /\ db'.length = db.length /\ db'.head = db.head /\ isaPC' = isaPC
    OBVIOUS
  <2> QED
    BY <2>1, <1>5, <1>6, <1>10, PathInvNext
<1> QED
  BY <1>7, <1>8, <1>9, <1>11 DEF FrontEndInv, RingsInv

\* The value of a slot that has executed.
LEMMA SlotCompleted ==
  ASSUME NEW w \in Seq(Slot), NEW i \in 1..Len(w)
  PROVE  LET s == [index |-> w[i].index, completed |-> TRUE,
                   exception |-> w[i].exception, load_viol |-> w[i].load_viol]
         IN /\ s \in Slot
            /\ [w EXCEPT ![i].completed = TRUE] = [w EXCEPT ![i] = s]
<1> DEFINE s == [index |-> w[i].index, completed |-> TRUE,
                 exception |-> w[i].exception, load_viol |-> w[i].load_viol]
           u == [w EXCEPT ![i].completed = TRUE]
<1>1. w[i] \in Slot /\ w \in [1..Len(w) -> Slot]
  OBVIOUS
<1>2. s \in Slot
  BY <1>1 DEF Slot
<1>3. u[i] = s
  BY <1>1 DEF Slot
<1>4. DOMAIN u = 1..Len(w) /\ \A k \in 1..Len(w) : k # i => u[k] = w[k]
  BY <1>1
<1>5. u = [w EXCEPT ![i] = s]
  BY <1>1, <1>3, <1>4
<1> QED
  BY <1>2, <1>5

\* What holds of every step of Execute.
LEMMA ExecuteStart ==
  ASSUME FrontEndInv, NEW i \in 1..ActiveSize, Execute(i)
  PROVE  /\ RingsInv /\ PathInv /\ window \in Seq(Slot) /\ i \in 1..Len(window)
         /\ ~window[i].completed /\ Idle /\ UNCHANGED <<fetching, db, isaPC>>
         /\ ExecutedOK(i, PathFn, OracleOf(db), window)
         /\ PathFn[i].kind \in Kinds \cup {NopKind}
<1>1. RingsInv /\ PathInv
  BY DEF FrontEndInv
<1>2. i <= Len(window) /\ ~window[i].completed /\ Idle /\ UNCHANGED <<fetching, db, isaPC>>
  BY DEF Execute
<1>3. window \in Seq(Slot)
  BY <1>1 DEF RingsInv, ControlOK
<1>4. i \in 1..Len(window)
  <2>1. Len(window) \in 0..ActiveSize
    BY <1>1, Counts
  <2> QED
    BY <1>2, <2>1, SizesOK
<1>5. ExecutedOK(i, PathFn, OracleOf(db), window)
  BY <1>1, <1>4 DEF PathInv, PathOK, WindowOK
<1>6. PathFn[i].kind \in Kinds \cup {NopKind}
  <2>1. i \in 1..InFlightCount
    BY <1>1, <1>4, OutcomesOK
  <2>2. PathFn[i] \in Insn
    BY <1>1, <2>1, PathType
  <2> QED
    BY <2>2 DEF Insn
<1> QED
  BY <1>1, <1>2, <1>3, <1>4, <1>5, <1>6

\* An instruction completes as its kind tells.
LEMMA ExecuteOtherInv ==
  ASSUME FrontEndInv, code' = code, NEW i \in 1..ActiveSize, Execute(i), ExecuteOther(i)
  PROVE  FrontEndInv'
<1> DEFINE P == PathFn
           E == OracleOf(db)
           s == [index |-> window[i].index, completed |-> TRUE,
                 exception |-> window[i].exception, load_viol |-> window[i].load_viol]
<1>1. /\ RingsInv /\ PathInv /\ window \in Seq(Slot) /\ i \in 1..Len(window)
      /\ ~window[i].completed /\ UNCHANGED <<fetching, db, isaPC>>
      /\ ExecutedOK(i, P, E, window)
  BY ExecuteStart
<1>2. /\ P[i].kind \in {"alu", "amo", "csr", "sret"}
      /\ window' = [window EXCEPT ![i].completed = TRUE]
      /\ UNCHANGED <<pc, stalls, decode, fq, rename2, pay>>
  BY <1>1, OutcomesOK DEF ExecuteOther
<1>3. s \in Slot /\ window' = [window EXCEPT ![i] = s]
  BY <1>1, <1>2, SlotCompleted
<1>4. window'[i].exception = window[i].exception /\ window'[i].load_viol = window[i].load_viol
      /\ window'[i].completed = TRUE
  BY <1>1, <1>3
<1>5. s.index = window[i].index
  OBVIOUS
<1> HIDE DEF s, P, E
<1>6. ExecutedOK(i, P, E, window')
  <2>1. P[i].kind # "load" /\ P[i].kind \notin BranchKinds
    BY <1>2 DEF BranchKinds
  <2>2. window[i].load_viol => window[i].completed
    BY <1>1 DEF ExecutedOK
  <2> QED
    BY <2>1, <2>2, <1>1, <1>4 DEF ExecutedOK
<1> QED
  BY <1>1, <1>2, <1>3, <1>5, <1>6, CompleteInv DEF P, E

LEMMA ResolveCorrectInv ==
  ASSUME FrontEndInv, code' = code, NEW i \in 1..ActiveSize, Execute(i), ResolveCorrect(i)
  PROVE  FrontEndInv'
<1> DEFINE P == PathFn
           E == OracleOf(db)
           s == [index |-> window[i].index, completed |-> TRUE,
                 exception |-> window[i].exception, load_viol |-> window[i].load_viol]
<1>1. /\ RingsInv /\ PathInv /\ window \in Seq(Slot) /\ i \in 1..Len(window)
      /\ ~window[i].completed /\ UNCHANGED <<fetching, db, isaPC>>
      /\ ExecutedOK(i, P, E, window)
  BY ExecuteStart
<1>2. /\ P[i].kind \in BranchKinds /\ P[i].next \in Outcomes(i)
      /\ window' = [window EXCEPT ![i].completed = TRUE]
      /\ UNCHANGED <<pc, stalls, decode, fq, rename2, pay>>
  BY <1>1, OutcomesOK DEF ResolveCorrect
<1>3. s \in Slot /\ window' = [window EXCEPT ![i] = s]
  BY <1>1, <1>2, SlotCompleted
<1>4. window'[i].exception = window[i].exception /\ window'[i].load_viol = window[i].load_viol
      /\ window'[i].completed = TRUE
  BY <1>1, <1>3
<1>5. s.index = window[i].index
  OBVIOUS
<1>6. Right(i, P, window) => Outcomes(i) = {E[i].next}
  BY <1>1, OutcomesOK
<1>7. \A j \in 1..i-1 : window'[j] = window[j]
  <2>1. \A j \in 1..i-1 : j \in 1..Len(window) /\ j # i
    BY <1>1
  <2> HIDE DEF s
  <2> QED
    BY <1>1, <1>3, <2>1
<1> HIDE DEF s, P, E
<1>8. ExecutedOK(i, P, E, window')
  <2>1. P[i].kind # "load"
    BY <1>2 DEF BranchKinds
  <2>2. /\ window[i].load_viol => window[i].completed
        /\ P[i].c_next = P[i].next
        /\ P[i].kind # "load" =>
             (window[i].exception <=> P[i].kind = "syscall" \/ P[i].fetch_exception)
    BY <1>1 DEF ExecutedOK
  <2>3. Right(i, P, window') => Right(i, P, window)
    BY <1>7 DEF Right
  <2>4. Right(i, P, window') => P[i].c_next = E[i].next
    BY <2>2, <2>3, <1>2, <1>6
  <2> QED
    BY <2>1, <2>2, <2>4, <1>1, <1>4 DEF ExecutedOK
<1> QED
  BY <1>1, <1>2, <1>3, <1>5, <1>8, CompleteInv DEF P, E

LEMMA ExecuteLoadInv ==
  ASSUME FrontEndInv, code' = code, NEW i \in 1..ActiveSize, Execute(i), ExecuteLoad(i)
  PROVE  FrontEndInv'
<1> DEFINE P == PathFn
           E == OracleOf(db)
<1>1. /\ RingsInv /\ PathInv /\ window \in Seq(Slot) /\ i \in 1..Len(window)
      /\ ~window[i].completed /\ UNCHANGED <<fetching, db, isaPC>>
      /\ ExecutedOK(i, P, E, window)
  BY ExecuteStart
<1>2. /\ P[i].kind = "load" /\ InsnAt(i) = P[i]
      /\ UNCHANGED <<pc, stalls, decode, fq, rename2, pay>>
  BY <1>1, OutcomesOK DEF ExecuteLoad
<1> DEFINE Trap(n) == Traps(P[i].pc, n)
<1>3. PICK n \in Outcomes(i), early \in BOOLEAN :
        /\ early => ~Trap(n)
        /\ window' = [window EXCEPT ![i].completed = TRUE, ![i].exception = Trap(n),
                                    ![i].load_viol = early]
  BY <1>2 DEF ExecuteLoad
<1> DEFINE s == [index |-> window[i].index, completed |-> TRUE,
                 exception |-> Trap(n), load_viol |-> early]
<1>4. Trap(n) \in BOOLEAN
  BY DEF Traps
<1>5. s \in Slot /\ window' = [window EXCEPT ![i] = s]
  <2> DEFINE t == Trap(n)
  <2>1. t \in BOOLEAN
    BY <1>4
  <2>2. window' = [window EXCEPT ![i].completed = TRUE, ![i].exception = t, ![i].load_viol = early]
    BY <1>3
  <2> HIDE DEF t
  <2> DEFINE u == [window EXCEPT ![i].completed = TRUE, ![i].exception = t, ![i].load_viol = early]
             r == [index |-> window[i].index, completed |-> TRUE, exception |-> t, load_viol |-> early]
  <2>3. window[i] \in Slot /\ window \in [1..Len(window) -> Slot] /\ i \in 1..Len(window)
    BY <1>1
  <2>4. r \in Slot
    BY <1>3, <2>1, <2>3 DEF Slot
  <2>5. u[i] = r
    BY <2>3 DEF Slot
  <2>6. DOMAIN u = 1..Len(window) /\ \A k \in 1..Len(window) : k # i => u[k] = window[k]
    BY <2>3
  <2>7. u = [window EXCEPT ![i] = r]
    BY <2>3, <2>5, <2>6
  <2> QED
    BY <2>2, <2>4, <2>7 DEF t
<1>6. window'[i].exception = Trap(n) /\ window'[i].load_viol = early
      /\ window'[i].completed = TRUE
  BY <1>1, <1>5
<1>7. s.index = window[i].index
  OBVIOUS
<1>8. Right(i, P, window) =>
        Outcomes(i) = {E[i].next} /\ E[i].exception = Traps(P[i].pc, E[i].next)
  BY <1>1, OutcomesOK
<1>9. \A j \in 1..i-1 : window'[j] = window[j]
  <2>1. \A j \in 1..i-1 : j \in 1..Len(window) /\ j # i
    BY <1>1
  <2> HIDE DEF s
  <2> QED
    BY <1>1, <1>5, <2>1
<1> HIDE DEF s, P, E
<1>10. ExecutedOK(i, P, E, window')
  <2>1. Right(i, P, window') => Right(i, P, window)
    BY <1>9 DEF Right
  <2>2. ASSUME Right(i, P, window') PROVE window'[i].exception <=> E[i].exception
    <3>1. n = E[i].next /\ E[i].exception = Traps(P[i].pc, E[i].next)
      BY <2>1, <2>2, <1>3, <1>8
    <3> QED
      BY <3>1, <1>6
  <2>3. P[i].kind \notin BranchKinds
    BY <1>2 DEF BranchKinds
  <2>4. window'[i].load_viol => ~window'[i].exception
    BY <1>3, <1>6
  <2>5. window'[i].completed
    BY <1>6
  <2> QED
    BY <2>2, <2>3, <2>4, <2>5, <1>2 DEF ExecutedOK
<1> QED
  BY <1>1, <1>2, <1>5, <1>7, <1>10, CompleteInv DEF P, E

\* One of the instructions in flight learns where it leads.
LEMMA PaySetOK ==
  ASSUME RingsInv, NEW i \in 1..InFlightCount, NEW r \in PCs
  PROVE  LET p == [pay EXCEPT !.buf[IndexIn(pay, i)].c_next = r]
         IN /\ p \in PayRings /\ p.head = pay.head
            /\ \A k \in 1..InFlightCount : k # i => InsnIn(p, k) = PathFn[k]
            /\ InsnIn(p, i) = [PathFn[i] EXCEPT !.c_next = r]
<1> DEFINE x == IndexIn(pay, i)
           y == [PathFn[i] EXCEPT !.c_next = r]
           p == [pay EXCEPT !.buf[x].c_next = r]
<1>1. /\ InFlightCount \in 0..MaxInFlight /\ pay \in PayRings /\ pay.head \in Indexes
      /\ MaxInFlight \in Nat
  BY Counts, SizesOK DEF RingsInv, PayOK, PayRings
<1>2. \A k \in 1..InFlightCount : k \in 1..MaxInFlight+1
  BY <1>1
<1>3. x \in Indexes /\ PathFn[i] = pay.buf[x] /\ PathFn[i] \in Insn
  BY <1>1, <1>2, IndexType, PathAt, PathType DEF InsnIn
<1>4. y \in Insn
  BY <1>3 DEF Insn
<1>5. p = [pay EXCEPT !.buf = [pay.buf EXCEPT ![x] = y]]
  BY <1>1, <1>3 DEF PayRings
<1> HIDE DEF x, y, p
<1>6. p \in PayRings /\ p.head = pay.head /\ p.buf = [pay.buf EXCEPT ![x] = y]
  <2>1. [pay.buf EXCEPT ![x] = y] \in [Indexes -> Insn]
    BY <1>1, <1>3, <1>4 DEF PayRings
  <2> QED
    BY <2>1, <1>1, <1>5 DEF PayRings
<1>7. \A k : IndexIn(p, k) = IndexIn(pay, k)
  BY <1>6 DEF IndexIn
<1>8. InsnIn(p, i) = y
  BY <1>1, <1>3, <1>6, <1>7 DEF InsnIn, x, PayRings
<1>9. ASSUME NEW k \in 1..InFlightCount, k # i PROVE InsnIn(p, k) = PathFn[k]
  <2>1. IndexIn(pay, k) # x
    BY <1>1, <1>2, <1>9, IndexDistinct DEF x
  <2> QED
    BY <2>1, <1>1, <1>6, <1>7, PathAt DEF InsnIn, PayRings
<1> QED
  BY <1>6, <1>8, <1>9 DEF x, y, p

\* PAY after the recovery from the branch at place i of the window.
LEMMA RolledBack ==
  ASSUME RingsInv, PathInv, NEW i \in 1..Len(window), NEW r \in PCs
  PROVE  LET p == [pay EXCEPT !.buf[window[i].index].c_next = r]
             q == PayRollback(p, window[i].index)
         IN /\ q \in PayRings /\ q.head = pay.head /\ q.length = 2 * i
            /\ q.tail = Place(PaySize, q.head, 2 * i)
            /\ \A k \in 1..i-1 : InsnIn(q, k) = PathFn[k]
            /\ InsnIn(q, i) = [PathFn[i] EXCEPT !.c_next = r]
<1>1. i \in 1..InFlightCount /\ InFlightCount \in 1..MaxInFlight /\ window[i].index = IndexIn(pay, i)
  BY OutcomesOK
<1>2. i \in 1..MaxInFlight /\ \A k \in 1..i-1 : k \in 1..InFlightCount /\ k \in 1..i /\ k # i
  BY <1>1, SizesOK
<1> DEFINE x == IndexIn(pay, i)
           p == [pay EXCEPT !.buf[x].c_next = r]
           q == PayRollback(p, x)
<1>3. /\ p \in PayRings /\ p.head = pay.head
      /\ \A k \in 1..InFlightCount : k # i => InsnIn(p, k) = PathFn[k]
      /\ InsnIn(p, i) = [PathFn[i] EXCEPT !.c_next = r]
  BY <1>1, PaySetOK
<1> HIDE DEF p
<1>4. x = IndexIn(p, i)
  BY <1>3 DEF IndexIn
<1>5. /\ q \in PayRings /\ q.head = p.head /\ q.length = 2 * i
      /\ q.tail = Place(PaySize, p.head, 2 * i)
      /\ \A k \in 1..i : InsnIn(q, k) = InsnIn(p, k)
  <2> HIDE DEF x
  <2> QED
    BY <1>2, <1>3, <1>4, PayRollbackOK
<1> HIDE DEF q
<1>6. i \in 1..i
  BY <1>2
<1>7. /\ q \in PayRings /\ q.head = pay.head /\ q.length = 2 * i
      /\ q.tail = Place(PaySize, q.head, 2 * i)
      /\ \A k \in 1..i-1 : InsnIn(q, k) = PathFn[k]
      /\ InsnIn(q, i) = [PathFn[i] EXCEPT !.c_next = r]
  BY <1>2, <1>3, <1>5, <1>6
<1> QED
  BY <1>1, <1>7 DEF p, q

LEMMA ResolveMispredictedInv ==
  ASSUME FrontEndInv, code' = code, NEW i \in 1..ActiveSize, Execute(i), ResolveMispredicted(i)
  PROVE  FrontEndInv'
<1> DEFINE n == InFlightCount
           P == PathFn
           E == OracleOf(db)
<1>1. /\ RingsInv /\ PathInv /\ window \in Seq(Slot) /\ i \in 1..Len(window)
      /\ ~window[i].completed /\ UNCHANGED <<fetching, db, isaPC>>
      /\ ExecutedOK(i, P, E, window)
  BY ExecuteStart
<1>2. /\ i \in 1..n /\ n \in 1..MaxInFlight /\ n \in Nat /\ InsnAt(i) = P[i]
      /\ window[i].index = IndexIn(pay, i) /\ Outcomes(i) \subseteq PCs
      /\ Right(i, P, window) => Outcomes(i) = {E[i].next}
      /\ db.length \in Nat \ {0} /\ Len(window) \in 0..n
  <2>1. /\ i \in 1..n /\ n \in 1..MaxInFlight /\ InsnAt(i) = P[i]
        /\ window[i].index = IndexIn(pay, i) /\ Outcomes(i) \subseteq PCs
        /\ Right(i, P, window) => Outcomes(i) = {E[i].next}
        /\ db.length \in Nat \ {0}
    BY <1>1, OutcomesOK
  <2>2. /\ Len(window) \in Nat /\ Len(rename2) \in Nat /\ fq.length \in Nat
        /\ Len(decode) \in Nat
    BY <1>1, Counts, SizesOK
  <2>3. Len(window) \in 0..n /\ n \in Nat
    BY <2>2 DEF InFlightCount
  <2> QED
    BY <2>1, <2>3
<1>3. /\ P[i].kind \in BranchKinds
      /\ stalls' = {} /\ decode' = <<>> /\ fq' = EmptyFQ /\ rename2' = <<>>
      /\ window' = [SubSeq(window, 1, i) EXCEPT ![i].completed = TRUE]
  BY <1>2 DEF ResolveMispredicted, StallsRecovered, FQRecovered
<1>4. PICK r \in Outcomes(i) :
        /\ pc' = r
        /\ pay' = PayRollback([pay EXCEPT !.buf[window[i].index].c_next = r], window[i].index)
  BY DEF ResolveMispredicted
<1>5. r \in PCs
  BY <1>2
<1>6. /\ pay' \in PayRings /\ pay'.head = pay.head /\ pay'.length = 2 * i
      /\ pay'.tail = Place(PaySize, pay'.head, 2 * i)
      /\ \A k \in 1..i-1 : InsnIn(pay', k) = P[k]
      /\ InsnIn(pay', i) = [P[i] EXCEPT !.c_next = r]
  BY <1>1, <1>4, <1>5, RolledBack
<1> DEFINE s == [index |-> window[i].index, completed |-> TRUE,
                 exception |-> window[i].exception, load_viol |-> window[i].load_viol]
<1>7. /\ window' \in Seq(Slot) /\ Len(window') = i
      /\ \A k \in 1..i-1 : window'[k] = window[k]
      /\ window'[i] = s
  <2> DEFINE u == SubSeq(window, 1, i)
  <2>1. u \in Seq(Slot) /\ Len(u) = i /\ \A k \in 1..i : u[k] = window[k]
    <3>1. i \in Int /\ 1 \in Int /\ \A k \in 1..i : window[k] \in Slot /\ k \in 1..i-1+1
          /\ 1 + k - 1 = k
      BY <1>1
    <3>2. /\ u \in Seq(Slot) /\ Len(u) = IF 1 <= i THEN i - 1 + 1 ELSE 0
          /\ \A k \in 1..i-1+1 : u[k] = window[1+k-1]
      BY <3>1, SubSeqProperties
    <3>3. Len(u) = i
      BY <3>2, <1>2
    <3> HIDE DEF u
    <3> QED
      BY <3>1, <3>2, <3>3
  <2> HIDE DEF u
  <2>2. window' = [u EXCEPT ![i].completed = TRUE]
    BY <1>3 DEF u
  <2>3. i \in 1..i /\ i \in Nat /\ \A k \in 1..i-1 : k \in 1..i /\ k # i
    BY <1>2
  <2> DEFINE t == [index |-> u[i].index, completed |-> TRUE,
                   exception |-> u[i].exception, load_viol |-> u[i].load_viol]
  <2>4. t \in Slot /\ [u EXCEPT ![i].completed = TRUE] = [u EXCEPT ![i] = t]
    <3>1. i \in 1..Len(u)
      BY <2>1, <2>3
    <3> QED
      BY <2>1, <3>1, SlotCompleted
  <2>5. t = s
    BY <2>1, <2>3
  <2> HIDE DEF s, t
  <2>6. window' = [u EXCEPT ![i] = s] /\ s \in Slot
    BY <2>2, <2>4, <2>5
  <2>7. window' \in Seq(Slot) /\ Len(window') = i
    BY <2>1, <2>6
  <2> QED
    BY <2>1, <2>3, <2>6, <2>7
<1>8. /\ Len(decode') = 0 /\ Len(rename2') = 0 /\ fq'.length = 0
      /\ decode' \in Seq(Indexes) /\ rename2' \in Seq(Indexes)
  BY <1>3, EmptyRings
<1>9. InFlightCount' = i
  BY <1>2, <1>7, <1>8 DEF InFlightCount
<1> HIDE DEF s
<1>10. ControlOK'
  <2>1. ~fetching
    BY ExecuteStart DEF Idle
  <2>2. fetching' = FALSE
    <3>1. fetching \in BOOLEAN /\ fetching' = fetching
      BY <1>1 DEF RingsInv, ControlOK
    <3> QED
      BY <2>1, <3>1
  <2>3. /\ code' \in Programs /\ isaPC' \in PCs
    BY <1>1 DEF RingsInv, ControlOK
  <2>4. Len(decode') <= FetchWidth /\ Len(rename2') \in {0, DispatchWidth} /\ Len(window') <= ActiveSize
    BY <1>7, <1>8, SizesOK
  <2>5. stalls' \in SUBSET {"exception", "amo", "csr"} /\ pc' \in PCs
    BY <1>3, <1>4, <1>5
  <2> QED
    BY <2>2, <2>3, <2>4, <2>5, <1>7, <1>8 DEF ControlOK
<1>11. PayOK'
  <2>1. \A k : IndexIn(pay', k) = IndexIn(pay, k)
    BY <1>6 DEF IndexIn
  <2>2. ASSUME NEW k \in 1..i PROVE window'[k].index = IndexIn(pay', k)
    <3>1. k \in 1..Len(window) /\ (k = i \/ k \in 1..i-1)
      BY <1>1
    <3>2. window[k].index = IndexIn(pay, k)
      BY <3>1, <1>1 DEF RingsInv, PayOK
    <3>3. window'[k].index = window[k].index
      BY <3>1, <1>7 DEF s
    <3> QED
      BY <2>1, <3>2, <3>3
  <2>3. 1..Len(rename2') = {} /\ 1..fq'.length = {} /\ 1..Len(decode') = {}
    BY <1>8
  <2> QED
    BY <1>6, <1>7, <1>9, <2>2, <2>3 DEF PayOK
<1>12. FQOK'
  BY <1>3, EmptyRings DEF FQOK
<1>13. DBOK'
  <2>1. db.length >= DebugSize - 1
    <3>1. db.length \in DebugSize-1..DebugSize
      <4>1. InFlightCount > 0
        BY <1>2
      <4> QED
        BY <4>1, <1>1, Started
    <3> QED
      BY <3>1, SizesOK
  <2> QED
    BY <2>1, <1>1 DEF RingsInv, DBOK
<1> DEFINE Q == [k \in 1..i |-> InsnIn(pay', k)]
           y == [P[i] EXCEPT !.c_next = r]
<1>14. Q = PathFn'
  BY <1>9 DEF PathFn
<1>15. (\A k \in 1..i-1 : Q[k] = P[k]) /\ Q[i] = y
  BY <1>2, <1>6
<1>16. /\ y.pc = P[i].pc /\ y.kind = P[i].kind /\ y.c_next = r
       /\ y.fetch_exception = P[i].fetch_exception /\ y.good = P[i].good
       /\ y.db_index = P[i].db_index
  <2>1. P[i] \in Insn
    BY <1>1, <1>2, PathType
  <2> QED
    BY <2>1 DEF Insn
<1> HIDE DEF Q, P, E, y
<1>17. PathOK(n, P, window, pc, stalls, db.length, E, db.head, isaPC)
  BY <1>1 DEF PathInv, P, E
<1>18. /\ window'[i].completed /\ window'[i].exception = window[i].exception
       /\ ~window'[i].load_viol
  <2>1. ~window[i].load_viol
    BY <1>1 DEF ExecutedOK
  <2> QED
    BY <2>1, <1>7 DEF s
<1>19. Right(i, P, window) => r = E[i].next
  BY <1>2
<1> HIDE DEF n
<1>20. PathOK(i, Q, window', r, {}, db.length, E, db.head, isaPC)
  <2>1. n \in Nat /\ Len(window) \in 0..n /\ db.length \in Nat \ {0} /\ i \in 1..Len(window)
        /\ Len(window') = i
    BY <1>1, <1>2, <1>7
  <2>2. \A k \in 1..i-1 : Q[k] = P[k] /\ window'[k] = window[k]
    BY <1>7, <1>15
  <2>3. /\ Q[i].pc = P[i].pc /\ Q[i].kind = P[i].kind /\ Q[i].c_next = r
        /\ Q[i].fetch_exception <=> P[i].fetch_exception
        /\ Q[i].good <=> P[i].good
        /\ Q[i].db_index = P[i].db_index
    BY <1>15, <1>16
  <2>4. P[i].kind \in BranchKinds /\ ~window[i].completed
    BY <1>1, <1>3
  <2>5. /\ window'[i].completed
        /\ window'[i].exception <=> window[i].exception
        /\ ~window'[i].load_viol
    BY <1>18
  <2>6. Resolved(i, P, window, E, Q, window', r)
    BY <2>1, <2>2, <2>3, <2>4, <2>5, <1>19 DEF Resolved
  <2> QED
    BY <2>1, <2>6, <1>17, RollbackPath
<1>21. PathInv'
  <2>1. /\ i = InFlightCount' /\ Q = PathFn' /\ r = pc' /\ {} = stalls'
        /\ db.length = db'.length /\ db.head = db'.head /\ isaPC = isaPC'
    BY <1>1, <1>3, <1>4, <1>9, <1>14
  <2>2. E = OracleOf(db)'
    BY <1>1 DEF E, OracleOf, EntryIn
  <2> QED
    BY <2>1, <2>2, <1>20, PathInvNext
<1> QED
  BY <1>10, <1>11, <1>12, <1>13, <1>21 DEF FrontEndInv, RingsInv
-----------------------------------------------------------------------------
(* Retirement.                                                             *)

\* The head of the window is the next instruction of the program.
LEMMA HeadFacts ==
  ASSUME FrontEndInv, HeadReady
  PROVE  /\ window \in Seq(Slot) /\ Len(window) \in 1..InFlightCount
         /\ InFlightCount \in 1..MaxInFlight /\ ~fetching /\ window[1].completed
         /\ db.length \in DebugSize-1..DebugSize /\ db.length > 0
         /\ db.length >= InFlightCount /\ Oracle = OracleOf(db)[1]
         /\ InsnAt(1) = PathFn[1] /\ PathFn[1].pc = Oracle.pc /\ PathFn[1].pc \in PCs
         /\ PathFn[1].good /\ PathFn[1].db_index = db.head
         /\ PathFn[1].kind \in Kinds /\ PathFn[1].kind = code[PathFn[1].pc]
         /\ PathFn[1].kind \notin BranchKinds => PathFn[1].c_next = IncrementPC(PathFn[1].pc)
         /\ PathFn[1].kind \in BranchKinds => PathFn[1].c_next = Oracle.next
         /\ window[1].exception = Oracle.exception
         /\ Oracle \in Actual /\ Oracle.next \in ArchNext(PathFn[1].pc)
         /\ Oracle.exception = Traps(PathFn[1].pc, Oracle.next)
<1> DEFINE P == PathFn
           E == OracleOf(db)
           n == InFlightCount
<1>1. RingsInv /\ PathInv
  BY DEF FrontEndInv
<1>2. Idle /\ window # <<>> /\ window[1].completed
  BY DEF HeadReady
<1>3. ~fetching
  BY <1>2 DEF Idle
<1>4. window \in Seq(Slot)
  BY <1>1 DEF RingsInv, ControlOK
<1>5. 1 \in 1..Len(window)
  BY <1>2, <1>4
<1>6. /\ 1 \in 1..n /\ n \in 1..MaxInFlight /\ InsnAt(1) = P[1] /\ P[1].pc \in PCs
      /\ db.length \in Nat \ {0} /\ 1 \in 1..db.length
  BY <1>1, <1>5, OutcomesOK
<1>7. Len(window) \in 1..n
  <2>1. /\ Len(window) \in Nat /\ Len(rename2) \in Nat /\ fq.length \in Nat
        /\ Len(decode) \in Nat
    BY <1>1, Counts, SizesOK
  <2> QED
    BY <2>1, <1>5 DEF InFlightCount
<1>8. /\ db.length \in DebugSize-1..DebugSize /\ db.length >= MaxInFlight
      /\ db \in DBRings /\ db.head \in 0..DebugSize-1
  <2>1. n > 0
    BY <1>6
  <2> QED
    BY <2>1, <1>1, Started DEF RingsInv, DBOK, RingOfDB, DBRings
<1>9. Place(DebugSize, db.head, 0) = db.head
  <2>1. 0 \in 0..DebugSize /\ db.head + 0 = db.head /\ db.head + 0 < DebugSize
    BY <1>8, SizesOK
  <2> QED
    BY <2>1, <1>8, PlaceIs, SizesOK
<1>10. E[1] = Oracle /\ E[1] \in Actual
  <2>1. 1 - 1 = 0
    OBVIOUS
  <2>2. EntryIn(db, 1) = Oracle
    BY <2>1, <1>9 DEF EntryIn, Oracle
  <2> QED
    BY <2>2, <1>6, <1>8, OracleType, OracleAt
<1>11. /\ Program(db.length, E, isaPC) /\ Starts(n, P, pc, E[1].pc) /\ KindsOK(n, P)
       /\ StallsOK(n, P, stalls) /\ Matched(n, P, E, db.head) /\ WindowOK(n, P, E, window)
  BY <1>1, <1>6 DEF PathInv, PathOK
<1> HIDE DEF P, E, n
<1>12. P[1].pc = E[1].pc
  <2>1. n # 0
    BY <1>6
  <2> QED
    BY <2>1, <1>11 DEF Starts
<1>13. P[1].good
  <2>1. OnThePath(1, P, E)
    BY <1>12 DEF OnThePath
  <2> QED
    BY <2>1, <1>6, <1>11 DEF Matched
<1>14. P[1].db_index = db.head
  <2>1. P[1].db_index = Place(DebugSize, db.head, 1 - 1)
    BY <1>6, <1>11, <1>13 DEF Matched
  <2> QED
    BY <2>1, <1>9
<1>15. P[1].kind # NopKind
  <2>1. 1..1-1 = {}
    OBVIOUS
  <2> QED
    BY <2>1, <1>6, <1>11 DEF StallsOK
<1>16. P[1].kind = code[P[1].pc] /\ P[1].kind \in Kinds
  <2>1. P[1].kind = code[P[1].pc]
    BY <1>6, <1>11, <1>15 DEF KindsOK
  <2>2. code \in Programs
    BY <1>1 DEF RingsInv, ControlOK
  <2> QED
    BY <2>1, <2>2, <1>6, KindOfCode
<1>17. Right(1, P, window)
  <2>1. 1..1-1 = {}
    OBVIOUS
  <2> QED
    BY <2>1, <1>13 DEF Right
<1>18. ExecutedOK(1, P, E, window)
  BY <1>5, <1>11 DEF WindowOK
<1>19. /\ E[1].next \in ArchNext(E[1].pc)
       /\ E[1].exception = Traps(E[1].pc, E[1].next)
  BY <1>6, <1>11 DEF Program
<1>20. P[1].kind \in BranchKinds => P[1].c_next = E[1].next
  BY <1>2, <1>17, <1>18 DEF ExecutedOK
<1>21. P[1].kind \notin BranchKinds => P[1].c_next = IncrementPC(P[1].pc)
  BY <1>6, <1>11 DEF KindsOK
<1>22. window[1].exception = E[1].exception
  <2>1. window[1].exception \in BOOLEAN /\ E[1].exception \in BOOLEAN
    <3>1. window[1] \in Slot
      BY <1>4, <1>5
    <3> QED
      BY <3>1, <1>10 DEF Slot, Actual
  <2>2. window[1].exception <=> E[1].exception
    <3>1. CASE P[1].kind = "load"
      BY <3>1, <1>2, <1>17, <1>18 DEF ExecutedOK
    <3>2. CASE P[1].kind # "load"
      <4>1. window[1].exception <=> P[1].kind = "syscall" \/ P[1].fetch_exception
        BY <3>2, <1>18 DEF ExecutedOK
      <4>2. P[1].fetch_exception <=> P[1].kind = "fault"
        BY <1>6, <1>11, <1>15 DEF KindsOK
      <4>3. E[1].exception <=> P[1].kind \in {"syscall", "fault"}
        BY <3>2, <1>12, <1>16, <1>19 DEF Traps
      <4> QED
        BY <4>1, <4>2, <4>3
    <3> QED
      BY <3>1, <3>2
  <2> QED
    BY <2>1, <2>2
<1>23. db.length > 0 /\ db.length >= n
  BY <1>6, <1>8, SizesOK
<1> QED
  BY <1>2, <1>3, <1>4, <1>6, <1>7, <1>8, <1>10, <1>12, <1>13, <1>14, <1>16, <1>19,
     <1>20, <1>21, <1>22, <1>23 DEF P, E, n

\* pop() of the entry of the instruction that retires.
LEMMA RetirePop ==
  ASSUME FrontEndInv, HeadReady, StepAndPop
  PROVE  /\ DBOK' /\ isaPC' \in PCs
         /\ db'.length \in Nat \ {0} /\ db'.head = Place(DebugSize, db.head, 1)
         /\ Program(db'.length, OracleOf(db'), isaPC')
         /\ \A k \in 1..db.length-1 : OracleOf(db')[k] = OracleOf(db)[k + 1]
         /\ OracleOf(db')[1].pc = Oracle.next
<1>1. /\ db.length \in DebugSize-1..DebugSize /\ db.length > 0
      /\ Oracle = OracleOf(db)[1]
  BY HeadFacts
<1>2. /\ RingOfDB(db) /\ Program(db.length, OracleOf(db), isaPC)
      /\ code \in Programs /\ isaPC \in PCs
  BY DEF FrontEndInv, RingsInv, ControlOK, DBOK, PathInv, PathOK
<1>3. /\ RingOfDB(db') /\ isaPC' \in PCs
      /\ db'.head = Place(DebugSize, db.head, 1)
      /\ db'.length = IF Hungry THEN db.length ELSE db.length - 1
      /\ Program(db'.length, OracleOf(db'), isaPC')
      /\ \A k \in 1..db.length-1 : OracleOf(db')[k] = OracleOf(db)[k + 1]
      /\ db'.length > 0 => OracleOf(db')[1].pc = OracleOf(db)[1].next
  BY <1>1, <1>2, StepAndPopOracle
<1>4. db'.length = DebugSize - 1 /\ DebugSize - 1 \in Nat \ {0}
  BY <1>1, <1>3, SizesOK DEF Hungry
<1>5. DBOK'
  BY <1>3, <1>4 DEF DBOK
<1>6. db'.length > 0 /\ db'.length \in Nat \ {0}
  <2>1. DebugSize - 1 > 0
    BY <1>4, SizesOK
  <2> QED
    BY <1>4, <2>1
<1>7. OracleOf(db')[1].pc = Oracle.next
  BY <1>1, <1>3, <1>6
<1> QED
  BY <1>3, <1>5, <1>6, <1>7

\* squash_complete(), with fetch where the program continues.
LEMMA SquashInv ==
  ASSUME FrontEndInv, code' = code, fetching' = fetching, ~fetching, NEW q \in PCs,
         SquashComplete(q), DBOK', isaPC' \in PCs, db'.length \in Nat \ {0},
         Program(db'.length, OracleOf(db'), isaPC'), OracleOf(db')[1].pc = q
  PROVE  FrontEndInv'
<1>1. /\ pc' = q /\ stalls' = {} /\ decode' = <<>> /\ fq' = EmptyFQ /\ rename2' = <<>>
      /\ window' = <<>> /\ pay' = EmptyPay
  BY DEF SquashComplete
<1>2. /\ Len(decode') = 0 /\ Len(rename2') = 0 /\ fq'.length = 0 /\ Len(window') = 0
      /\ decode' \in Seq(Indexes) /\ rename2' \in Seq(Indexes) /\ window' \in Seq(Slot)
  BY <1>1, EmptyRings
<1>3. InFlightCount' = 0
  BY <1>2 DEF InFlightCount
<1>4. ControlOK'
  <2>1. fetching' = FALSE
    <3>1. fetching \in BOOLEAN
      BY DEF FrontEndInv, RingsInv, ControlOK
    <3> QED
      BY <3>1
  <2>2. code' \in Programs
    BY DEF FrontEndInv, RingsInv, ControlOK
  <2>3. Len(decode') <= FetchWidth /\ Len(rename2') \in {0, DispatchWidth} /\ Len(window') <= ActiveSize
    BY <1>2, SizesOK
  <2> QED
    BY <1>1, <1>2, <2>1, <2>2, <2>3 DEF ControlOK
<1>5. PayOK'
  <2>1. 1..Len(window') = {} /\ 1..Len(rename2') = {} /\ 1..fq'.length = {} /\ 1..Len(decode') = {}
    BY <1>2
  <2>2. pay' \in PayRings /\ pay'.tail = Place(PaySize, pay'.head, pay'.length) /\ pay'.length = 0
    BY <1>1, EmptyRings
  <2>3. pay'.length = 2 * InFlightCount'
    BY <2>2, <1>3
  <2> QED
    BY <2>1, <2>2, <2>3 DEF PayOK
<1>6. FQOK'
  BY <1>1, EmptyRings DEF FQOK
<1>7. PathInv'
  <2>1. PathOK(0, PathFn', window', q, {}, db'.length, OracleOf(db'), db'.head, isaPC')
    <3>1. db'.length \in Nat /\ db'.length # 0
      OBVIOUS
    <3> QED
      BY <3>1, <1>2, EmptyPath
  <2>2. OracleOf(db)' = OracleOf(db')
    BY DEF OracleOf, EntryIn
  <2> QED
    BY <2>1, <2>2, <1>1, <1>3, PathInvNext
<1> QED
  BY <1>4, <1>5, <1>6, <1>7 DEF FrontEndInv, RingsInv

LEMMA RetireViolationInv ==
  ASSUME FrontEndInv, RetireViolation, code' = code
  PROVE  FrontEndInv'
<1> DEFINE q == InsnAt(1).pc
<1>1. HeadReady /\ SquashComplete(q) /\ UNCHANGED <<fetching, db, isaPC>>
  BY DEF RetireViolation, RestartPC
<1>2. /\ ~fetching /\ q \in PCs /\ q = Oracle.pc /\ Oracle = OracleOf(db)[1]
      /\ db.length \in DebugSize-1..DebugSize /\ db.length > 0
  BY <1>1, HeadFacts
<1> HIDE DEF q
<1>3. /\ RingOfDB(db) /\ Program(db.length, OracleOf(db), isaPC) /\ isaPC \in PCs
  BY DEF FrontEndInv, RingsInv, ControlOK, DBOK, PathInv, PathOK
<1>4. db' = db /\ isaPC' = isaPC /\ fetching' = fetching
  BY <1>1
<1>5. db.length \in Nat \ {0} /\ db.length >= DebugSize - 1
  BY <1>2, SizesOK
<1>6. DBOK'
  BY <1>3, <1>4, <1>5 DEF DBOK
<1>7. /\ isaPC' \in PCs /\ db'.length \in Nat \ {0}
      /\ Program(db'.length, OracleOf(db'), isaPC') /\ OracleOf(db')[1].pc = q
  BY <1>2, <1>3, <1>4, <1>5
<1> QED
  BY <1>1, <1>2, <1>4, <1>6, <1>7, SquashInv

\* Where the program continues behind an instruction that traps.
LEMMA TrapNext ==
  ASSUME FrontEndInv, HeadReady, window[1].exception
  PROVE  Oracle.next = Handler
<1> DEFINE x == PathFn[1]
           o == Oracle
<1>1. /\ o.next \in ArchNext(x.pc) /\ o.exception = Traps(x.pc, o.next)
      /\ window[1].exception = o.exception
  BY HeadFacts
<1> HIDE DEF x, o
<1>2. Traps(x.pc, o.next)
  BY <1>1
<1>3. code[x.pc] \in {"syscall", "fault"} => o.next = Handler
  BY <1>1 DEF ArchNext
<1>4. code[x.pc] = "load" /\ o.next # IncrementPC(x.pc) => o.next = Handler
  BY <1>1 DEF ArchNext
<1>5. o.next = Handler
  BY <1>2, <1>3, <1>4 DEF Traps
<1> QED
  BY <1>5 DEF o

LEMMA RetireExceptionInv ==
  ASSUME FrontEndInv, RetireException, code' = code
  PROVE  FrontEndInv'
<1> DEFINE q == IF window[1].exception THEN Handler ELSE InsnAt(1).pc
<1>1. /\ HeadReady /\ StepAndPop /\ SquashComplete(q) /\ fetching' = fetching
      /\ window[1].exception \/ Serializes
  BY DEF RetireException
<1>2. ~fetching /\ InsnAt(1).pc \in PCs
  BY <1>1, HeadFacts
<1>3. q \in PCs
  BY <1>2, EmptyTypes
<1>4. q = Oracle.next
  <2>1. CASE window[1].exception
    BY <2>1, <1>1, TrapNext
  <2>2. CASE ~window[1].exception
    BY <2>2, <1>1 DEF Serializes
  <2> QED
    BY <2>1, <2>2
<1> HIDE DEF q
<1>5. /\ DBOK' /\ isaPC' \in PCs /\ db'.length \in Nat \ {0}
      /\ Program(db'.length, OracleOf(db'), isaPC') /\ OracleOf(db')[1].pc = Oracle.next
  BY <1>1, RetirePop
<1> QED
  BY <1>1, <1>2, <1>3, <1>4, <1>5, SquashInv

\* Where the program continues behind an instruction that commits.
LEMMA CommitNext ==
  ASSUME FrontEndInv, HeadReady, ~window[1].exception, ~Serializes
  PROVE  LET x == PathFn[1]
         IN /\ x.kind \in {"amo", "csr"} => Oracle.next = IncrementPC(x.pc)
            /\ x.kind \notin {"amo", "csr", "sret"} =>
                 x.c_next = Oracle.next /\ ~Serializing(x)
<1> DEFINE x == PathFn[1]
           o == Oracle
<1>1. /\ o.next \in ArchNext(x.pc) /\ o.exception = Traps(x.pc, o.next)
      /\ window[1].exception = o.exception /\ InsnAt(1) = x
      /\ x.kind \in Kinds /\ x.kind = code[x.pc]
      /\ x.kind \notin BranchKinds => x.c_next = IncrementPC(x.pc)
      /\ x.kind \in BranchKinds => x.c_next = o.next
  BY HeadFacts
<1>2. ~(x.kind = "csr" /\ o.next = x.pc)
  BY <1>1 DEF Serializes
<1> HIDE DEF x, o
<1>3. ~Traps(x.pc, o.next)
  BY <1>1
<1>4. x.kind \notin {"syscall", "fault"} /\ (x.kind = "load" => o.next = IncrementPC(x.pc))
  BY <1>1, <1>3 DEF Traps
<1>5. x.kind \in {"amo", "csr"} => o.next = IncrementPC(x.pc)
  BY <1>1, <1>2 DEF ArchNext
<1>6. ASSUME x.kind \notin {"amo", "csr", "sret"}
      PROVE  x.c_next = o.next /\ ~Serializing(x)
  <2>1. x.kind \in {"alu", "load"} \cup BranchKinds
    BY <1>1, <1>4, <1>6 DEF Kinds, BranchKinds
  <2>2. ~Serializing(x)
    BY <2>1 DEF Serializing, StallOf, BranchKinds
  <2>3. CASE x.kind \in BranchKinds
    BY <2>2, <2>3, <1>1
  <2>4. CASE x.kind = "load"
    BY <2>2, <2>4, <1>1, <1>4 DEF BranchKinds
  <2>5. CASE x.kind = "alu"
    <3>1. o.next = IncrementPC(x.pc)
      BY <2>5, <1>1 DEF ArchNext
    <3> QED
      BY <2>2, <2>5, <3>1, <1>1 DEF BranchKinds
  <2> QED
    BY <2>1, <2>3, <2>4, <2>5
<1> QED
  BY <1>5, <1>6 DEF x, o

\* The head leaves the window and PAY.
LEMMA PopInv ==
  ASSUME FrontEndInv, code' = code, HeadReady, StepAndPop,
         ~window[1].load_viol, PathFn[1].c_next = Oracle.next, ~Serializing(PathFn[1]),
         window' = Tail(window), pay' = PayPop,
         UNCHANGED <<pc, stalls, decode, fq, rename2, fetching>>
  PROVE  FrontEndInv'
<1> DEFINE n == InFlightCount
           P == PathFn
           E == OracleOf(db)
           l == Len(window)
<1>1. RingsInv /\ PathInv
  BY DEF FrontEndInv
<1>2. /\ window \in Seq(Slot) /\ l \in 1..n /\ n \in 1..MaxInFlight /\ MaxInFlight \in Nat
      /\ db.length \in Nat \ {0} /\ n <= db.length /\ Oracle = E[1] /\ ~fetching
      /\ db.head \in 0..DebugSize-1 /\ n <= DebugSize
  <2>1. /\ window \in Seq(Slot) /\ l \in 1..n /\ n \in 1..MaxInFlight
        /\ db.length \in DebugSize-1..DebugSize /\ db.length > 0 /\ db.length >= n
        /\ Oracle = E[1] /\ ~fetching
    BY HeadFacts
  <2>2. db.head \in 0..DebugSize-1
    BY <1>1 DEF RingsInv, DBOK, RingOfDB, DBRings
  <2>3. db.length \in Nat \ {0} /\ n <= DebugSize /\ n <= db.length
    <3> DEFINE b == db.length
    <3>1. n \in 1..MaxInFlight /\ b \in DebugSize-1..DebugSize /\ b >= n
      BY <2>1
    <3>2. MaxInFlight \in Nat /\ DebugSize \in Nat /\ MaxInFlight < DebugSize
      BY SizesOK
    <3> HIDE DEF n, b
    <3>3. b \in Nat \ {0} /\ n <= DebugSize /\ n <= b
      BY <3>1, <3>2
    <3> QED
      BY <3>3 DEF b
  <2> QED
    BY <2>1, <2>2, <2>3, SizesOK
<1>3. /\ DBOK' /\ isaPC' \in PCs
      /\ db'.length \in Nat \ {0} /\ db'.head = Place(DebugSize, db.head, 1)
      /\ Program(db'.length, OracleOf(db'), isaPC')
      /\ \A k \in 1..db.length-1 : OracleOf(db')[k] = E[k + 1]
      /\ OracleOf(db')[1].pc = Oracle.next
  BY RetirePop
<1>4. /\ window' \in Seq(Slot) /\ Len(window') = l - 1
      /\ \A k \in 1..l-1 : window'[k] = window[k + 1]
  <2>1. window # <<>>
    BY <1>2
  <2>2. /\ Tail(window) \in Seq(Slot) /\ Len(Tail(window)) = l - 1
        /\ \A k \in 1..Len(Tail(window)) : Tail(window)[k] = window[k + 1]
    BY <2>1, <1>2, HeadTailProperties
  <2> QED
    BY <2>2
<1>5. /\ pay' \in PayRings /\ pay'.length = 2 * (n - 1)
      /\ pay'.tail = Place(PaySize, pay'.head, 2 * (n - 1))
      /\ \A k \in 1..n-1 : IndexIn(pay', k) = IndexIn(pay, k + 1)
      /\ \A k \in 1..n-1 : InsnIn(pay', k) = InsnIn(pay, k + 1)
  <2>1. pay \in PayRings /\ pay.tail = Place(PaySize, pay.head, pay.length) /\ pay.length = 2 * n
    BY <1>1 DEF RingsInv, PayOK
  <2> HIDE DEF n
  <2> QED
    BY <2>1, <1>2, PayPopOK
<1>6. /\ Len(rename2) \in Nat /\ fq.length \in Nat /\ Len(decode) \in Nat /\ l \in Nat \ {0}
      /\ n = l + Len(rename2) + fq.length + Len(decode)
      /\ BeforeFQ = l + Len(rename2) /\ BeforeDecode = BeforeFQ + fq.length
  BY <1>1, <1>2, Counts, SizesOK DEF InFlightCount, BeforeFQ, BeforeDecode
<1>7. /\ InFlightCount' = n - 1 /\ BeforeFQ' = BeforeFQ - 1 /\ BeforeDecode' = BeforeDecode - 1
  <2>1. Len(window') = l - 1 /\ rename2' = rename2 /\ fq' = fq /\ decode' = decode
    BY <1>4
  <2>2. /\ InFlightCount' = (l - 1) + Len(rename2) + fq.length + Len(decode)
        /\ BeforeFQ' = (l - 1) + Len(rename2)
        /\ BeforeDecode' = (l - 1) + Len(rename2) + fq.length
    BY <2>1 DEF InFlightCount, BeforeFQ, BeforeDecode
  <2> DEFINE r == Len(rename2)
             f == fq.length
             d == Len(decode)
  <2> HIDE DEF n, l, r, f, d
  <2>3. r \in Nat /\ f \in Nat /\ d \in Nat /\ l \in Nat \ {0}
    BY <1>6 DEF r, f, d
  <2>4. /\ (l - 1) + r + f + d = (l + r + f + d) - 1 /\ (l - 1) + r = (l + r) - 1
        /\ (l - 1) + r + f = (l + r + f) - 1
    BY <2>3
  <2>5. /\ n = l + r + f + d /\ BeforeFQ = l + r /\ BeforeDecode = (l + r) + f
    BY <1>6 DEF r, f, d
  <2> QED
    BY <2>2, <2>4, <2>5 DEF r, f, d
<1>8. ControlOK'
  <2>1. fetching' = FALSE
    <3>1. fetching \in BOOLEAN /\ fetching' = fetching
      BY <1>1 DEF RingsInv, ControlOK
    <3> QED
      BY <1>2, <3>1
  <2>2. /\ code' \in Programs /\ pc' \in PCs /\ stalls' \in SUBSET {"exception", "amo", "csr"}
        /\ decode' \in Seq(Indexes) /\ Len(decode') <= FetchWidth
        /\ rename2' \in Seq(Indexes) /\ Len(rename2') \in {0, DispatchWidth}
    BY <1>1 DEF RingsInv, ControlOK
  <2>3. Len(window') <= ActiveSize
    <3>1. l \in 0..ActiveSize
      BY <1>1, Counts
    <3> QED
      BY <3>1, <1>4, SizesOK
  <2> QED
    BY <1>3, <1>4, <2>1, <2>2, <2>3 DEF ControlOK
<1>9. PayOK'
  <2>1. ASSUME NEW k \in 1..n-1, NEW j, j = IndexIn(pay, k + 1) PROVE j = IndexIn(pay', k)
    BY <2>1, <1>5
  <2>2. ASSUME NEW k \in 1..l-1 PROVE window'[k].index = IndexIn(pay', k)
    <3>1. k + 1 \in 1..l /\ k \in 1..n-1
      BY <1>2, <1>6
    <3>2. window[k + 1].index = IndexIn(pay, k + 1)
      BY <3>1, <1>1 DEF RingsInv, PayOK
    <3> QED
      BY <3>1, <3>2, <1>4, <1>5
  <2>3. ASSUME NEW k \in 1..Len(rename2) PROVE rename2[k] = IndexIn(pay', (l - 1) + k)
    <3>1. (l - 1) + k \in 1..n-1 /\ ((l - 1) + k) + 1 = l + k
      <4> DEFINE r == Len(rename2)
                 f == fq.length
                 d == Len(decode)
      <4> HIDE DEF n, l, r, f, d
      <4>1. /\ r \in Nat /\ f \in Nat /\ d \in Nat /\ l \in Nat \ {0} /\ k \in 1..r
            /\ n = l + r + f + d
        BY <1>6 DEF r, f, d
      <4> QED
        BY <4>1
    <3>2. rename2[k] = IndexIn(pay, l + k)
      BY <1>1 DEF RingsInv, PayOK
    <3>3. IndexIn(pay', (l - 1) + k) = IndexIn(pay, ((l - 1) + k) + 1)
      BY <3>1, <1>5
    <3> QED
      BY <3>1, <3>2, <3>3
  <2>4. ASSUME NEW k \in 1..fq.length PROVE QueuedIn(fq, k) = IndexIn(pay', (BeforeFQ - 1) + k)
    <3>1. (BeforeFQ - 1) + k \in 1..n-1 /\ ((BeforeFQ - 1) + k) + 1 = BeforeFQ + k
      BY <1>6
    <3>2. QueuedIn(fq, k) = IndexIn(pay, BeforeFQ + k)
      BY <1>1 DEF RingsInv, PayOK
    <3>3. IndexIn(pay', (BeforeFQ - 1) + k) = IndexIn(pay, ((BeforeFQ - 1) + k) + 1)
      BY <3>1, <1>5
    <3> QED
      BY <3>1, <3>2, <3>3
  <2>5. ASSUME NEW k \in 1..Len(decode) PROVE decode[k] = IndexIn(pay', (BeforeDecode - 1) + k)
    <3>1. (BeforeDecode - 1) + k \in 1..n-1 /\ ((BeforeDecode - 1) + k) + 1 = BeforeDecode + k
      <4> HIDE DEF n, l
      <4> DEFINE r == Len(rename2)
                 f == fq.length
                 d == Len(decode)
      <4> HIDE DEF r, f, d
      <4>a. /\ r \in Nat /\ f \in Nat /\ d \in Nat /\ l \in Nat \ {0}
            /\ n = l + r + f + d /\ BeforeDecode = (l + r) + f
        BY <1>6 DEF r, f, d
      <4>b. BeforeDecode \in Nat \ {0} /\ n = BeforeDecode + d
        BY <4>a
      <4>1. BeforeDecode \in Nat \ {0} /\ n = BeforeDecode + Len(decode) /\ Len(decode) \in Nat
        BY <4>a, <4>b DEF d
      <4> QED
        BY <4>1
    <3>2. decode[k] = IndexIn(pay, BeforeDecode + k)
      BY <1>1 DEF RingsInv, PayOK
    <3>3. IndexIn(pay', (BeforeDecode - 1) + k) = IndexIn(pay, ((BeforeDecode - 1) + k) + 1)
      BY <3>1, <1>5
    <3> QED
      BY <3>1, <3>2, <3>3
  <2>6. rename2' = rename2 /\ fq' = fq /\ decode' = decode
    OBVIOUS
  <2> HIDE DEF n, l
  <2> QED
    BY <1>4, <1>5, <1>7, <2>2, <2>3, <2>4, <2>5, <2>6 DEF PayOK
<1>10. FQOK'
  BY <1>1 DEF RingsInv, FQOK
<1> DEFINE Q == [k \in 1..n-1 |-> InsnIn(pay', k)]
<1>11. Q = PathFn'
  BY <1>7 DEF PathFn
<1>12. \A k \in 1..n-1 : Q[k] = P[k + 1]
  <2> TAKE k \in 1..n-1
  <2>1. k + 1 \in 1..n
    BY <1>2
  <2>2. P[k + 1] = InsnIn(pay, k + 1)
    BY <2>1, PathAt
  <2> QED
    BY <2>2, <1>5
<1> DEFINE F == OracleOf(db')
<1>13. F = OracleOf(db)'
  BY DEF OracleOf, EntryIn
<1>14. PathOK(n, P, window, pc, stalls, db.length, E, db.head, isaPC)
  BY <1>1 DEF PathInv
<1> HIDE DEF Q, P, E, F, n, l
<1>15. PathOK(n - 1, Q, window', pc, stalls, db'.length, F, Place(DebugSize, db.head, 1), isaPC')
  <2>1. n \in Nat \ {0} /\ Len(window) \in 1..n /\ n <= db.length /\ n <= DebugSize
        /\ db.length \in Nat \ {0} /\ db.head \in 0..DebugSize-1 /\ db'.length \in Nat \ {0}
    BY <1>2, <1>3 DEF l
  <2>2. /\ Len(window') = Len(window) - 1
        /\ \A k \in 1..Len(window') : window'[k] = window[k + 1]
    BY <1>4 DEF l
  <2>3. /\ \A k \in 1..db.length-1 : F[k] = E[k + 1]
        /\ F[1].pc = E[1].next /\ Program(db'.length, F, isaPC')
    BY <1>2, <1>3 DEF F
  <2>4. P[1].c_next = E[1].next /\ ~Serializing(P[1]) /\ ~window[1].load_viol
    BY <1>2 DEF P
  <2>5. Popped(n, P, window, db.length, E, Q, window', F)
    BY <2>2, <2>3, <2>4, <1>12 DEF Popped
  <2>6. Program(db'.length, F, isaPC')
    BY <2>3
  <2> QED
    BY <2>1, <2>5, <2>6, <1>14, PopPath
<1>16. PathInv'
  <2>1. /\ n - 1 = InFlightCount' /\ Q = PathFn' /\ pc = pc' /\ stalls = stalls'
        /\ F = OracleOf(db)' /\ Place(DebugSize, db.head, 1) = db'.head
    BY <1>3, <1>7, <1>11, <1>13
  <2> QED
    BY <2>1, <1>15, PathInvNext
<1> QED
  BY <1>3, <1>8, <1>9, <1>10, <1>16 DEF FrontEndInv, RingsInv

LEMMA RetireCommitInv ==
  ASSUME FrontEndInv, RetireCommit, code' = code
  PROVE  FrontEndInv'
<1> DEFINE kind == InsnAt(1).kind
<1>1. /\ HeadReady /\ ~window[1].exception /\ ~window[1].load_viol /\ ~Serializes
      /\ StepAndPop /\ fetching' = fetching
  BY DEF RetireCommit
<1>2. /\ kind \in {"amo", "csr"} => SquashComplete(IncrementPC(InsnAt(1).pc))
      /\ kind = "sret" => SquashComplete(Oracle.next)
      /\ kind \notin {"amo", "csr", "sret"} =>
           /\ window' = Tail(window) /\ pay' = PayPop
           /\ UNCHANGED <<pc, stalls, decode, fq, rename2>>
  BY DEF RetireCommit
<1>3. /\ InsnAt(1) = PathFn[1] /\ ~fetching /\ PathFn[1].pc \in PCs
      /\ Oracle \in Actual
  BY <1>1, HeadFacts
<1>4. Oracle.next \in PCs
  BY <1>3 DEF Actual
<1>5. /\ kind \in {"amo", "csr"} => Oracle.next = IncrementPC(PathFn[1].pc)
      /\ kind \notin {"amo", "csr", "sret"} =>
           PathFn[1].c_next = Oracle.next /\ ~Serializing(PathFn[1])
  BY <1>1, <1>3, CommitNext
<1>6. /\ DBOK' /\ isaPC' \in PCs /\ db'.length \in Nat \ {0}
      /\ Program(db'.length, OracleOf(db'), isaPC') /\ OracleOf(db')[1].pc = Oracle.next
  BY <1>1, RetirePop
<1> HIDE DEF kind
<1>7. CASE kind \in {"amo", "csr", "sret"}
  <2>1. SquashComplete(Oracle.next)
    BY <1>2, <1>3, <1>5, <1>7
  <2> QED
    BY <2>1, <1>1, <1>3, <1>4, <1>6, SquashInv
<1>8. CASE kind \notin {"amo", "csr", "sret"}
  <2>1. /\ window' = Tail(window) /\ pay' = PayPop
        /\ UNCHANGED <<pc, stalls, decode, fq, rename2, fetching>>
        /\ PathFn[1].c_next = Oracle.next /\ ~Serializing(PathFn[1])
    BY <1>1, <1>2, <1>5, <1>8
  <2> QED
    BY <2>1, <1>1, PopInv
<1> QED
  BY <1>7, <1>8
-----------------------------------------------------------------------------
(* Every step.                                                             *)

LEMMA StutterInv ==
  ASSUME FrontEndInv, UNCHANGED vars
  PROVE  FrontEndInv'
<1>1. /\ code' = code /\ UNCHANGED <<pc, stalls, fetching, decode, fq, rename2, window, pay, db, isaPC>>
      /\ RingsInv /\ PathInv
  BY DEF vars, core, FrontEndInv
<1>2. InFlightCount' = InFlightCount /\ PayOK' /\ FQOK'
  BY <1>1, LayoutSame DEF RingsInv
<1>3. ControlOK'
  BY <1>1 DEF RingsInv, ControlOK
<1>4. DBOK'
  BY <1>1 DEF RingsInv, DBOK
<1>5. PathInv'
  BY <1>1, <1>2, PathMoves
<1> QED
  BY <1>2, <1>3, <1>4, <1>5 DEF FrontEndInv, RingsInv

\* FrontEndInv is inductive.
LEMMA NextInv == FrontEndInv /\ [Next]_vars => FrontEndInv'
<1> SUFFICES ASSUME FrontEndInv, [Next]_vars PROVE FrontEndInv'
  OBVIOUS
<1>1. CASE UNCHANGED vars
  BY <1>1, StutterInv
<1>2. CASE Next
  <2>1. Step /\ code' = code
    BY <1>2 DEF Next
  <2>2. CASE RunAhead
    BY <2>1, <2>2, RunAheadInv
  <2>3. CASE FetchOne
    BY <2>1, <2>3, FetchOneInv
  <2>4. CASE Decode
    BY <2>1, <2>4, DecodeInv
  <2>5. CASE Rename1
    BY <2>1, <2>5, Rename1Inv
  <2>6. CASE Dispatch
    BY <2>1, <2>6, DispatchInv
  <2>7. ASSUME NEW i \in 1..ActiveSize, Execute(i) PROVE FrontEndInv'
    <3>1. ExecuteOther(i) \/ ExecuteLoad(i) \/ ResolveCorrect(i) \/ ResolveMispredicted(i)
      BY <2>7 DEF Execute
    <3>2. CASE ExecuteOther(i)
      BY <2>1, <2>7, <3>2, ExecuteOtherInv
    <3>3. CASE ExecuteLoad(i)
      BY <2>1, <2>7, <3>3, ExecuteLoadInv
    <3>4. CASE ResolveCorrect(i)
      BY <2>1, <2>7, <3>4, ResolveCorrectInv
    <3>5. CASE ResolveMispredicted(i)
      BY <2>1, <2>7, <3>5, ResolveMispredictedInv
    <3> QED
      BY <3>1, <3>2, <3>3, <3>4, <3>5
  <2>8. CASE RetireCommit
    BY <2>1, <2>8, RetireCommitInv
  <2>9. CASE RetireViolation
    BY <2>1, <2>9, RetireViolationInv
  <2>10. CASE RetireException
    BY <2>1, <2>10, RetireExceptionInv
  <2> QED
    BY <2>1, <2>2, <2>3, <2>4, <2>5, <2>6, <2>7, <2>8, <2>9, <2>10 DEF Step
<1> QED
  BY <1>1, <1>2
-----------------------------------------------------------------------------
(* What the invariant says of the definitions that the runs check.         *)

LEMMA SequenceOf ==
  ASSUME NEW m \in Nat, NEW f \in [1..m -> Indexes]
  PROVE  f \in Seq(Indexes) /\ Len(f) = m
OBVIOUS

\* s holds l PAY indices, those behind the first m in flight.
Lays(s, m, l) ==
  s \in Seq(Indexes) /\ Len(s) = l /\ \A k \in 1..l : s[k] = IndexIn(pay, m + k)

LEMMA LaysConcat ==
  ASSUME NEW s, NEW t, NEW m \in Nat, NEW l \in Nat, Lays(s, 0, m), Lays(t, m, l)
  PROVE  Lays(s \o t, 0, m + l)
<1>a. s \in Seq(Indexes) /\ Len(s) = m /\ t \in Seq(Indexes) /\ Len(t) = l
  BY DEF Lays
<1>1. /\ s \o t \in Seq(Indexes) /\ Len(s \o t) = m + l
      /\ \A k \in 1..m+l : (s \o t)[k] = IF k <= m THEN s[k] ELSE t[k - m]
  BY <1>a, ConcatProperties
<1>2. ASSUME NEW k \in 1..m+l PROVE (s \o t)[k] = IndexIn(pay, 0 + k)
  <2>1. CASE k <= m
    <3>1. k \in 1..m
      BY <2>1
    <3> QED
      BY <2>1, <3>1, <1>1 DEF Lays
  <2>2. CASE ~(k <= m)
    <3>1. k - m \in 1..l /\ m + (k - m) = 0 + k
      BY <2>2
    <3>2. t[k - m] = IndexIn(pay, m + (k - m))
      BY <3>1 DEF Lays
    <3> QED
      BY <2>2, <3>1, <3>2, <1>1
  <2> QED
    BY <2>1, <2>2
<1> QED
  BY <1>1, <1>2 DEF Lays

LEMMA InFlightIs ==
  ASSUME RingsInv
  PROVE  /\ InFlight \in Seq(Indexes) /\ Len(InFlight) = InFlightCount
         /\ \A k \in 1..InFlightCount : InFlight[k] = IndexIn(pay, k)
<1>1. /\ Len(window) \in Nat /\ Len(rename2) \in Nat /\ fq.length \in Nat /\ fq.length <= FQSize
      /\ Len(decode) \in Nat /\ BeforeFQ \in Nat /\ BeforeDecode \in Nat /\ FQSize \in Nat
  BY Counts, SizesOK
<1>2. /\ BeforeFQ = Len(window) + Len(rename2) /\ BeforeDecode = BeforeFQ + fq.length
      /\ InFlightCount = BeforeDecode + Len(decode)
  BY <1>1, Counts DEF BeforeFQ, BeforeDecode
<1>3. rename2 \in Seq(Indexes) /\ decode \in Seq(Indexes) /\ window \in Seq(Slot)
  BY DEF RingsInv, ControlOK
<1>4. /\ \A k \in 1..Len(window) : window[k].index = IndexIn(pay, k)
      /\ \A k \in 1..Len(rename2) : rename2[k] = IndexIn(pay, Len(window) + k)
      /\ \A k \in 1..fq.length : QueuedIn(fq, k) = IndexIn(pay, BeforeFQ + k)
      /\ \A k \in 1..Len(decode) : decode[k] = IndexIn(pay, BeforeDecode + k)
  BY DEF RingsInv, PayOK
<1> DEFINE a == IndexesOf(window)
           c == [k \in 1..fq.length |-> fq.q[FQSlot(k)]]
<1>5. /\ a \in Seq(Indexes) /\ Len(a) = Len(window)
      /\ \A k \in 1..Len(window) : a[k] = IndexIn(pay, k)
  <2>1. \A k \in 1..Len(window) : window[k] \in Slot
    BY <1>3
  <2>2. \A k \in 1..Len(window) : window[k].index \in Indexes
    BY <2>1 DEF Slot, Indexes
  <2>3. a = [k \in 1..Len(window) |-> window[k].index]
    BY DEF IndexesOf
  <2>4. a \in [1..Len(window) -> Indexes] /\ \A k \in 1..Len(window) : a[k] = IndexIn(pay, k)
    BY <2>2, <2>3, <1>4
  <2> HIDE DEF a
  <2> QED
    BY <2>4, <1>1, SequenceOf
<1>6. /\ c \in Seq(Indexes) /\ Len(c) = fq.length
      /\ \A k \in 1..fq.length : c[k] = IndexIn(pay, BeforeFQ + k)
  <2>1. ASSUME NEW k \in 1..fq.length
        PROVE fq.q[FQSlot(k)] = IndexIn(pay, BeforeFQ + k) /\ fq.q[FQSlot(k)] \in Indexes
    <3>1. k \in 1..FQSize /\ FQOK
      BY <1>1 DEF RingsInv
    <3>2. FQSlot(k) = Place(FQSize, fq.head, k - 1) /\ FQSlot(k) \in 0..FQSize-1
      BY <3>1, FQSlotIs
    <3>3. QueuedIn(fq, k) = IndexIn(pay, BeforeFQ + k)
      BY <1>4
    <3> QED
      BY <3>1, <3>2, <3>3 DEF QueuedIn, FQOK, FQRings
  <2>2. c \in [1..fq.length -> Indexes]
    BY <2>1
  <2>3. \A k \in 1..fq.length : c[k] = IndexIn(pay, BeforeFQ + k)
    BY <2>1
  <2> HIDE DEF c
  <2> QED
    BY <2>2, <2>3, <1>1, SequenceOf
<1>7. InFlight = ((a \o rename2) \o c) \o decode
  BY DEF InFlight
<1> HIDE DEF a, c
<1>8. /\ Lays(a, 0, Len(window)) /\ Lays(rename2, Len(window), Len(rename2))
      /\ Lays(c, BeforeFQ, fq.length) /\ Lays(decode, BeforeDecode, Len(decode))
  <2>1. \A k \in 1..Len(window) : 0 + k = k
    BY <1>1
  <2> QED
    BY <2>1, <1>3, <1>4, <1>5, <1>6 DEF Lays
<1>9. Lays(a \o rename2, 0, BeforeFQ)
  <2>1. Lays(a \o rename2, 0, Len(window) + Len(rename2))
    BY <1>1, <1>8, LaysConcat
  <2> QED
    BY <2>1, <1>2
<1>10. Lays((a \o rename2) \o c, 0, BeforeDecode)
  <2>1. Lays((a \o rename2) \o c, 0, BeforeFQ + fq.length)
    BY <1>1, <1>8, <1>9, LaysConcat
  <2> QED
    BY <2>1, <1>2
<1>11. Lays(((a \o rename2) \o c) \o decode, 0, InFlightCount)
  <2>1. Lays(((a \o rename2) \o c) \o decode, 0, BeforeDecode + Len(decode))
    BY <1>1, <1>8, <1>10, LaysConcat
  <2> QED
    BY <2>1, <1>2
<1>12. Lays(InFlight, 0, InFlightCount)
  BY <1>7, <1>11
<1>13. \A k \in 1..InFlightCount : 0 + k = k
  BY <1>1, <1>2
<1> QED
  BY <1>12, <1>13 DEF Lays

LEMMA PathIs == RingsInv => Path = PathFn
<1> SUFFICES ASSUME RingsInv PROVE Path = PathFn
  OBVIOUS
<1> DEFINE s == InFlight
<1>1. /\ s \in Seq(Indexes) /\ Len(s) = InFlightCount
      /\ \A k \in 1..InFlightCount : s[k] = IndexIn(pay, k)
  BY InFlightIs
<1>2. Path = [k \in DOMAIN s |-> pay.buf[s[k]]]
  BY DEF Path
<1> HIDE DEF s
<1>3. DOMAIN s = 1..InFlightCount
  BY <1>1
<1> QED
  BY <1>1, <1>2, <1>3 DEF PathFn, InsnIn

LEMMA TypesOK ==
  ASSUME FrontEndInv
  PROVE  TypeOK
<1>1. RingsInv /\ PathInv
  BY DEF FrontEndInv
<1>2. /\ pc \in PCs /\ isaPC \in PCs /\ stalls \in SUBSET {"exception", "amo", "csr"}
      /\ fetching \in BOOLEAN /\ Len(decode) <= FetchWidth /\ Len(rename2) \in {0, DispatchWidth}
      /\ Len(window) <= ActiveSize
  BY <1>1 DEF RingsInv, ControlOK
<1>3. Cardinality(stalls) <= 1
  <2>1. stalls # {} => \E k \in 1..InFlightCount : Serializing(PathFn[k])
    BY <1>1 DEF PathInv, PathOK, StallsOK
  <2>2. \A k \in 1..InFlightCount : Serializing(PathFn[k]) => stalls = StallOf(PathFn[k].kind)
    BY <1>1 DEF PathInv, PathOK, StallsOK
  <2>3. \A kind : StallOf(kind) = {} \/ \E x : StallOf(kind) = {x}
    BY DEF StallOf
  <2>4. stalls = {} \/ \E x : stalls = {x}
    BY <2>1, <2>2, <2>3
  <2>5. CASE stalls = {}
    BY <2>5, FS_EmptySet
  <2>6. ASSUME NEW x, stalls = {x} PROVE Cardinality(stalls) <= 1
    <3>1. Cardinality({x}) = 1
      BY FS_Singleton
    <3> QED
      BY <2>6, <3>1
  <2> QED
    BY <2>4, <2>5, <2>6
<1>4. \A k \in DOMAIN window : window[k] \in Slot
  <2>1. window \in Seq(Slot)
    BY <1>1 DEF RingsInv, ControlOK
  <2> QED
    BY <2>1
<1>5. fq.length \in 0..FQSize /\ fq.head \in 0..FQSize-1 /\ fq.tail \in 0..FQSize-1
  BY <1>1 DEF RingsInv, FQOK, FQRings
<1>6. pay.length \in 0..PaySize /\ \A i \in 0..PaySize-1 : pay.buf[i] \in Insn
  BY <1>1 DEF RingsInv, PayOK, PayRings, Indexes
<1>7. db.length \in 0..DebugSize /\ \A i \in 0..DebugSize-1 : db.buf[i] \in Actual
  BY <1>1 DEF RingsInv, DBOK, RingOfDB, DBRings
<1> QED
  BY <1>2, <1>3, <1>4, <1>5, <1>6, <1>7 DEF TypeOK

LEMMA PayIsExact ==
  ASSUME FrontEndInv
  PROVE  PayExact
<1> DEFINE n == InFlightCount
<1>1. RingsInv
  BY DEF FrontEndInv
<1>2. pay.tail = (pay.head + pay.length) % PaySize /\ pay.length = 2 * n /\ n \in Nat
  BY <1>1, Counts, SizesOK DEF RingsInv, PayOK, Place
<1>3. pay.length \div 2 = n
  <2> HIDE DEF n
  <2>1. (2 * n) \div 2 = n
    BY <1>2
  <2> QED
    BY <1>2, <2>1
<1>4. InFlight = [k \in 1..n |-> (pay.head + 2 * (k - 1)) % PaySize]
  <2>1. /\ InFlight \in Seq(Indexes) /\ Len(InFlight) = n
        /\ \A k \in 1..n : InFlight[k] = IndexIn(pay, k)
    BY <1>1, InFlightIs
  <2>2. InFlight = [k \in 1..n |-> IndexIn(pay, k)]
    <3> DEFINE s == InFlight
    <3> HIDE DEF s, n
    <3>1. s \in Seq(Indexes) /\ Len(s) = n /\ \A k \in 1..n : s[k] = IndexIn(pay, k)
      BY <2>1 DEF s
    <3>2. s = [k \in 1..n |-> IndexIn(pay, k)]
      BY <3>1
    <3> QED
      BY <3>2 DEF s
  <2> QED
    BY <2>2 DEF IndexIn, Place
<1> QED
  BY <1>2, <1>3, <1>4, TypesOK DEF PayExact

LEMMA PathSequence ==
  ASSUME RingsInv
  PROVE  /\ Path = PathFn /\ Path \in Seq(Insn) /\ Len(Path) = InFlightCount
         /\ DOMAIN Path = 1..InFlightCount /\ InFlightCount \in Nat
<1> DEFINE n == InFlightCount
<1>1. n \in Nat /\ Path = PathFn
  BY PathIs, Counts, SizesOK
<1>2. \A k \in 1..n : PathFn[k] \in Insn
  BY PathType
<1>3. PathFn = [k \in 1..n |-> PathFn[k]]
  BY DEF PathFn
<1> HIDE DEF n
<1>4. PathFn \in [1..n -> Insn]
  BY <1>2, <1>3
<1>5. PathFn \in Seq(Insn) /\ Len(PathFn) = n /\ DOMAIN PathFn = 1..n
  BY <1>1, <1>4
<1> QED
  BY <1>1, <1>5 DEF n

LEMMA FollowsPath ==
  ASSUME FrontEndInv
  PROVE  InFlightIsPath
<1> DEFINE P == PathFn
           n == InFlightCount
<1>1. RingsInv /\ PathInv
  BY DEF FrontEndInv
<1>2. Path = P /\ Len(Path) = n /\ n \in Nat
  BY <1>1, PathSequence
<1>3. /\ Linked(n, P, pc)
      /\ db.length > 0 => Starts(n, P, pc, OracleOf(db)[1].pc)
  BY <1>1 DEF PathInv, PathOK
<1>4. ASSUME db.length > 0 PROVE Oracle = OracleOf(db)[1]
  <2>1. /\ db.length \in Nat /\ db.head \in 0..DebugSize-1 /\ DebugSize \in Nat \ {0}
        /\ 0 \in 0..DebugSize /\ 1 - 1 = 0
    BY <1>1, SizesOK DEF RingsInv, DBOK, RingOfDB, DBRings
  <2>2. db.head + 0 = db.head /\ db.head + 0 < DebugSize
    BY <2>1
  <2>3. Place(DebugSize, db.head, 0) = db.head
    BY <2>1, <2>2, PlaceIs
  <2>4. 1 \in 1..db.length
    BY <2>1, <1>4
  <2>5. OracleOf(db)[1] = EntryIn(db, 1)
    BY <2>1, <2>4, OracleAt
  <2> QED
    BY <2>1, <2>3, <2>5 DEF EntryIn, Oracle
<1> HIDE DEF P, n
<1>5. ASSUME NEW k \in 1..n-1 PROVE P[k + 1].pc = P[k].c_next
  <2>1. k \in 1..n /\ k # n
    BY <1>2
  <2> QED
    BY <2>1, <1>3 DEF Linked
<1>6. ASSUME n > 0 PROVE pc = P[n].c_next
  <2>1. n \in 1..n
    BY <1>2, <1>6
  <2> QED
    BY <2>1, <1>3 DEF Linked
<1>7. ASSUME n = 0, db.length > 0 PROVE pc = Oracle.pc
  BY <1>3, <1>4, <1>7 DEF Starts
<1> QED
  BY <1>2, <1>5, <1>6, <1>7 DEF InFlightIsPath

LEMMA MatchesExactly ==
  ASSUME FrontEndInv
  PROVE  GoodExact
<1> DEFINE P == PathFn
           E == OracleOf(db)
           n == InFlightCount
           Entry(k) == (db.head + k - 1) % DebugSize
           OnPath(k) == \A j \in 1..k : j <= db.length /\ P[j].pc = db.buf[Entry(j)].pc
<1>1. RingsInv /\ PathInv
  BY DEF FrontEndInv
<1>2. Path = P /\ DOMAIN Path = 1..n /\ n \in Nat
  BY <1>1, PathSequence
<1>3. ASSUME NEW k \in 1..n
      PROVE  /\ P[k].good <=> OnPath(k)
             /\ P[k].good => P[k].db_index = Entry(k)
  <2>1. /\ P[k].good <=> OnThePath(k, P, E)
        /\ P[k].good => P[k].db_index = Place(DebugSize, db.head, k - 1)
    BY <1>1 DEF PathInv, PathOK, Matched
  <2>2. /\ db.length \in Nat /\ n <= db.length /\ db.head \in Nat
    <3>1. n > 0 /\ n \in 0..MaxInFlight
      BY <1>1, <1>2, Counts
    <3>2. db.length >= MaxInFlight
      BY <1>1, <3>1, Started
    <3>3. db.length \in Nat /\ db.head \in Nat
      BY <1>1, SizesOK DEF RingsInv, DBOK, RingOfDB, DBRings
    <3> HIDE DEF n
    <3> QED
      BY <3>1, <3>2, <3>3, SizesOK
  <2>3. \A j \in 1..k : j \in 1..n /\ j \in 1..db.length /\ j <= db.length /\ db.head + j - 1 = db.head + (j - 1)
    <3> HIDE DEF n
    <3> QED
      BY <1>2, <2>2
  <2>4. \A j \in 1..k : Entry(j) = Place(DebugSize, db.head, j - 1)
    BY <2>3 DEF Place
  <2> HIDE DEF Entry
  <2>5. \A j \in 1..k : E[j] = db.buf[Entry(j)]
    <3> TAKE j \in 1..k
    <3>1. E[j] = EntryIn(db, j)
      BY <2>2, <2>3, OracleAt
    <3> QED
      BY <3>1, <2>4 DEF EntryIn
  <2>6. OnThePath(k, P, E) <=> OnPath(k)
    BY <2>3, <2>5 DEF OnThePath
  <2>7. k \in 1..k
    BY <1>2
  <2> QED
    BY <2>1, <2>4, <2>6, <2>7
<1> HIDE DEF n, P
<1>4. \A k \in 1..n : /\ P[k].good <=> \A j \in 1..k : j <= db.length /\ P[j].pc = db.buf[Entry(j)].pc
                      /\ P[k].good => P[k].db_index = Entry(k)
  BY <1>3
<1> QED
  BY <1>2, <1>4 DEF GoodExact

LEMMA RetiresRight ==
  ASSUME FrontEndInv
  PROVE  RetiresOracle
<1> SUFFICES ASSUME HeadReady, window[1].exception \/ ~window[1].load_viol
             PROVE  /\ InsnAt(1).kind # NopKind
                    /\ InsnAt(1).good /\ InsnAt(1).db_index = db.head /\ db.length > 0
                    /\ InsnAt(1).pc = Oracle.pc
                    /\ window[1].exception <=> Oracle.exception
                    /\ InsnAt(1).kind \in BranchKinds => InsnAt(1).c_next = Oracle.next
  BY DEF RetiresOracle
<1>1. /\ db.length > 0 /\ InsnAt(1) = PathFn[1] /\ PathFn[1].pc = Oracle.pc
      /\ PathFn[1].good /\ PathFn[1].db_index = db.head /\ PathFn[1].kind \in Kinds
      /\ PathFn[1].kind \in BranchKinds => PathFn[1].c_next = Oracle.next
      /\ window[1].exception = Oracle.exception
  BY HeadFacts
<1>2. PathFn[1].kind # NopKind
  BY <1>1 DEF Kinds, NopKind
<1> QED
  BY <1>1, <1>2

LEMMA FlagsExact ==
  ASSUME FrontEndInv
  PROVE  StallFlagsExact
<1> DEFINE P == PathFn
           n == InFlightCount
           S == {k \in 1..n : Serializing(P[k])}
<1>1. RingsInv /\ PathInv
  BY DEF FrontEndInv
<1>2. Path = P /\ DOMAIN Path = 1..n /\ n \in Nat
  BY <1>1, PathSequence
<1>3. /\ \A k \in 1..n : P[k].kind = NopKind <=> \E s \in 1..k-1 : Serializing(P[s])
      /\ \A k \in 1..n : Serializing(P[k]) => stalls = StallOf(P[k].kind)
      /\ stalls # {} => \E k \in 1..n : Serializing(P[k])
  BY <1>1 DEF PathInv, PathOK, StallsOK
<1> HIDE DEF P, n
<1>4. ASSUME NEW j \in 1..n, NEW k \in 1..n, j < k, Serializing(P[j]), Serializing(P[k])
      PROVE FALSE
  <2>1. j \in 1..k-1
    BY <1>2, <1>4
  <2>2. P[k].kind = NopKind
    BY <2>1, <1>3, <1>4
  <2> QED
    BY <2>2, <1>4, StallOfNop DEF Serializing
<1>5. \A j, k \in S : j = k
  BY <1>2, <1>4
<1>6. S = {} \/ \E x \in 1..n : S = {x} /\ Serializing(P[x])
  BY <1>5
<1>7. Cardinality(S) <= 1
  <2>1. CASE S = {}
    BY <2>1, FS_EmptySet
  <2>2. ASSUME NEW x, S = {x} PROVE Cardinality(S) <= 1
    <3>1. Cardinality({x}) = 1
      BY FS_Singleton
    <3> QED
      BY <3>1, <2>2
  <2> QED
    BY <2>1, <2>2, <1>6
<1>8. stalls = UNION {StallOf(P[k].kind) : k \in S}
  <2>1. CASE S = {}
    <3>1. stalls = {}
      BY <2>1, <1>3
    <3> QED
      BY <2>1, <3>1
  <2>2. ASSUME NEW x \in 1..n, S = {x}, Serializing(P[x])
        PROVE stalls = UNION {StallOf(P[k].kind) : k \in S}
    <3>1. stalls = StallOf(P[x].kind)
      BY <2>2, <1>3
    <3>2. {StallOf(P[k].kind) : k \in S} = {StallOf(P[x].kind)}
      BY <2>2
    <3> QED
      BY <3>1, <3>2
  <2> QED
    BY <2>1, <2>2, <1>6
<1>9. ASSUME NEW k \in 1..n PROVE P[k].kind = NopKind <=> \E s \in S : s < k
  <2>1. P[k].kind = NopKind <=> \E s \in 1..k-1 : Serializing(P[s])
    BY <1>3
  <2>2. ASSUME NEW s \in 1..k-1, Serializing(P[s]) PROVE s \in S /\ s < k
    BY <1>2, <2>2
  <2>3. ASSUME NEW s \in S, s < k PROVE s \in 1..k-1 /\ Serializing(P[s])
    BY <1>2, <2>3
  <2> QED
    BY <2>1, <2>2, <2>3
<1>10. {k \in DOMAIN Path : StallOf(Path[k].kind) # {}} = S
  BY <1>2 DEF Serializing
<1> HIDE DEF S
<1> QED
  BY <1>2, <1>7, <1>8, <1>9, <1>10 DEF StallFlagsExact
-----------------------------------------------------------------------------
(* Theorems.                                                               *)

\* FrontEndInv holds of every state of the specification.
LEMMA FrontEndAlways == Spec => []FrontEndInv
BY InitInv, NextInv, PTL DEF Spec

\* Types, and the live part of PAY is what is in flight, in program order,
\* whatever was rolled back, popped or cleared before (payload.cc: push, pop,
\* rollback).
THEOREM FrontEndPay == Spec => []PayExact
<1>1. FrontEndInv => PayExact
  BY PayIsExact
<1> QED
  BY <1>1, FrontEndAlways, PTL

\* What is in flight is one path from the next instruction of the program to
\* the PC of fetch: no recovery of writeback() or retire() leaves an
\* instruction of another path behind.
THEOREM FrontEndPath == Spec => []InFlightIsPath
<1>1. FrontEndInv => InFlightIsPath
  BY FollowsPath
<1> QED
  BY <1>1, FrontEndAlways, PTL

\* map_to_actual() links exactly the instructions on the path of the program,
\* each to its own entry of the debug buffer, and what retires is the next
\* instruction of the program with its outcome and its trap: the assertions of
\* checker() and of debug_buffer_t::pop() hold.
THEOREM FrontEndChecker == Spec => []CheckerAgrees
<1>1. FrontEndInv => CheckerAgrees
  BY MatchesExactly, RetiresRight DEF CheckerAgrees
<1> QED
  BY <1>1, FrontEndAlways, PTL

\* A flag of fetch is set exactly while the instruction that set it is in
\* flight, and only NOPs follow it.
THEOREM FrontEndStalls == Spec => []StallFlagsExact
<1>1. FrontEndInv => StallFlagsExact
  BY FlagsExact
<1> QED
  BY <1>1, FrontEndAlways, PTL
=============================================================================
