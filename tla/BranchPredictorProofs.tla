----------------------- MODULE BranchPredictorProofs -----------------------
(***************************************************************************)
(* Theorems about BranchPredictor.tla, for every size of its queue and its *)
(* tables, every program and every width of the history.                   *)
(***************************************************************************)
EXTENDS BranchPredictor, FiniteSetTheorems, TLAPS

-----------------------------------------------------------------------------
(* Sizes, places of the ring, and induction up to a bound.                 *)

LEMMA Sizes ==
  /\ CTIQ_SIZE \in Nat \ {0} /\ BTB_SIZE \in Nat \ {0} /\ HIST_BIT \in Nat \ {0}
  /\ MaxInFlight \in Nat /\ MaxInFlight < CTIQ_SIZE
<1>1. \A bit \in Bits : bit \in Nat \ {0}
  BY DEF Bits
<1> QED
  BY <1>1, BranchPredictorAssumption

Places == 0 .. CTIQ_SIZE - 1

LEMMA ModIn ==
  ASSUME NEW n \in Nat \ {0}
  PROVE  /\ \A a \in Int : a % n \in 0 .. n - 1
         /\ \A a \in 0 .. n - 1 : a % n = a
         /\ \A a \in n .. n + n - 1 : a % n = a - n
         /\ \A a \in -n .. -1 : a % n = a + n
OBVIOUS

LEMMA WrapIs ==
  /\ \A a \in Int : Wrap(a) \in Places
  /\ \A a \in 0 .. CTIQ_SIZE - 1 : Wrap(a) = a
  /\ \A a \in CTIQ_SIZE .. CTIQ_SIZE + CTIQ_SIZE - 1 : Wrap(a) = a - CTIQ_SIZE
  /\ \A a \in -CTIQ_SIZE .. -1 : Wrap(a) = a + CTIQ_SIZE
BY Sizes, ModIn DEF Wrap, Places

(* The place k after the head.                                             *)
LEMMA WrapAhead ==
  ASSUME NEW h \in Places, NEW k \in Places
  PROVE  Wrap(h + k) = IF h + k < CTIQ_SIZE THEN h + k ELSE h + k - CTIQ_SIZE
BY Sizes, WrapIs DEF Places

LEMMA WrapStep ==
  ASSUME NEW h \in Places, NEW k \in Nat, k < CTIQ_SIZE
  PROVE  Wrap(Wrap(h + k) + 1) = Wrap(h + k + 1)
<1>1. k \in Places
  BY Sizes DEF Places
<1>2. PICK w \in Places : w = Wrap(h + k)
  BY WrapIs, <1>1 DEF Places
<1>3. w = IF h + k < CTIQ_SIZE THEN h + k ELSE h + k - CTIQ_SIZE
  BY <1>1, <1>2, WrapAhead
<1>4. Wrap(w + 1) = IF w + 1 < CTIQ_SIZE THEN w + 1 ELSE 0
  BY Sizes, WrapIs DEF Places
<1>5. CASE h + k + 1 < CTIQ_SIZE
  BY <1>1, <1>2, <1>3, <1>4, <1>5, Sizes, WrapIs DEF Places
<1>6. CASE h + k + 1 >= CTIQ_SIZE /\ h + k + 1 < CTIQ_SIZE + CTIQ_SIZE
  BY <1>1, <1>2, <1>3, <1>4, <1>6, Sizes, WrapIs DEF Places
<1>7. h + k + 1 < CTIQ_SIZE + CTIQ_SIZE
  BY <1>1, Sizes DEF Places
<1> QED
  BY <1>1, <1>5, <1>6, <1>7, Sizes DEF Places

LEMMA WrapBack ==
  ASSUME NEW h \in Places, NEW m \in Places, NEW k \in 0 .. m
  PROVE  /\ Wrap(Wrap(h + m) - h) = m
         /\ Wrap(Wrap(h + m) - k) = Wrap(h + (m - k))
<1>1. PICK w \in Places : w = Wrap(h + m)
  BY WrapIs, Sizes DEF Places
<1>2. w = IF h + m < CTIQ_SIZE THEN h + m ELSE h + m - CTIQ_SIZE
  BY <1>1, WrapAhead
<1>3. m - k \in Places
  BY Sizes DEF Places
<1>4. Wrap(h + (m - k)) = IF h + (m - k) < CTIQ_SIZE THEN h + (m - k) ELSE h + (m - k) - CTIQ_SIZE
  BY <1>3, WrapAhead
<1>5. Wrap(w - h) = IF w >= h THEN w - h ELSE w - h + CTIQ_SIZE
  BY Sizes, WrapIs DEF Places
<1>6. Wrap(w - k) = IF w >= k THEN w - k ELSE w - k + CTIQ_SIZE
  BY Sizes, WrapIs DEF Places
<1> QED
  BY <1>1, <1>2, <1>4, <1>5, <1>6, Sizes DEF Places

LEMMA WrapInjective ==
  ASSUME NEW h \in Places, NEW j \in Places, NEW k \in Places, Wrap(h + j) = Wrap(h + k)
  PROVE  j = k
BY WrapAhead, Sizes DEF Places

LEMMA LeastElement ==
  ASSUME NEW T, T \subseteq Nat, T # {}
  PROVE  \E x \in T : \A y \in T : x <= y
<1>1. PICK x \in T : \A y \in T : ~(<<y, x>> \in OpToRel(<, Nat))
  BY NatLessThanWellFounded, WFMin
<1>2. ASSUME NEW y \in T PROVE x <= y
  <2>1. ~(<<y, x>> \in OpToRel(<, Nat)) /\ <<y, x>> \in Nat \X Nat
    BY <1>1
  <2>2. ~(y < x)
    BY <2>1 DEF OpToRel
  <2> QED
    BY <2>2
<1> QED
  BY <1>2

LEMMA UpTo ==
  ASSUME NEW n \in Nat, NEW G, 0 \in G, \A k \in 0 .. n - 1 : k \in G => k + 1 \in G
  PROVE  \A k \in 0 .. n : k \in G
<1> DEFINE T == {k \in 0 .. n : k \notin G}
<1> SUFFICES ASSUME T # {} PROVE FALSE
  OBVIOUS
<1>0. T \subseteq Nat
  OBVIOUS
<1>1. PICK x \in T : \A y \in T : x <= y
  <2> HIDE DEF T
  <2> QED
    BY <1>0, LeastElement
<1>2. x \in 1 .. n /\ x - 1 \in 0 .. n - 1 /\ x - 1 \notin T
  BY <1>1
<1>3. x - 1 \in G /\ x = (x - 1) + 1
  BY <1>2
<1> QED
  BY <1>1, <1>2, <1>3

-----------------------------------------------------------------------------
(* The stack that a sequence of predictions leaves, and what going back    *)
(* through them finds.                                                     *)

Histories == 0 .. 2 * HIST_BIT - 1
Entry ==
  [kind : Kinds, pc : Addresses, target : Addresses, original_pred : Addresses,
   taken : BOOLEAN, history : Histories, RAS_action : -1 .. 1, RAS_address : Addresses,
   flush_RAS : BOOLEAN, state : {0, 1}]

Stack == Seq(Addresses)
Top(s) == IF s = <<>> THEN NotFound ELSE Found(s[1])

(* What is popped is what is there.                                        *)
PopFits(s, e) == e.RAS_action = -1 /\ ~e.flush_RAS => s # <<>> /\ s[1] = e.RAS_address

(* S[i] is what the first i entries of E leave.                            *)
Leaves(S, E, n) ==
  \A i \in 1 .. n : S[i] = UpdatedRAS(S[i - 1], E[i]) /\ PopFits(S[i - 1], E[i])

LEMMA UpdatedIs ==
  ASSUME NEW s \in Stack, NEW e \in Entry, PopFits(s, e)
  PROVE  /\ UpdatedRAS(s, e) \in Stack
         /\ e.flush_RAS => UpdatedRAS(s, e) = <<>>
         /\ ~e.flush_RAS /\ e.RAS_action = -1 =>
              /\ Len(UpdatedRAS(s, e)) = Len(s) - 1 /\ Len(s) > 0
              /\ \A i \in 1 .. Len(s) - 1 : UpdatedRAS(s, e)[i] = s[i + 1]
         /\ ~e.flush_RAS /\ e.RAS_action = 1 =>
              /\ Len(UpdatedRAS(s, e)) = Len(s) + 1
              /\ UpdatedRAS(s, e)[1] = e.RAS_address
              /\ \A i \in 1 .. Len(s) : UpdatedRAS(s, e)[i + 1] = s[i]
         /\ ~e.flush_RAS /\ e.RAS_action = 0 => UpdatedRAS(s, e) = s
<1>1. e.RAS_action \in -1 .. 1 /\ e.RAS_address \in Addresses /\ e.flush_RAS \in BOOLEAN
  BY DEF Entry
<1>2. CASE e.flush_RAS
  BY <1>2 DEF UpdatedRAS, Stack
<1>3. CASE ~e.flush_RAS /\ e.RAS_action = -1
  <2>1. UpdatedRAS(s, e) = Tail(s) /\ s # <<>>
    BY <1>3 DEF UpdatedRAS, PopFits
  <2> QED
    BY <1>3, <2>1 DEF Stack
<1>4. CASE ~e.flush_RAS /\ e.RAS_action = 1
  <2>1. UpdatedRAS(s, e) = <<e.RAS_address>> \o s
    BY <1>4 DEF UpdatedRAS
  <2> QED
    BY <1>1, <1>4, <2>1 DEF Stack
<1>5. CASE ~e.flush_RAS /\ e.RAS_action = 0
  BY <1>5 DEF UpdatedRAS
<1> QED
  BY <1>1, <1>2, <1>3, <1>4, <1>5

(* Pushes less pops among the k youngest of m entries.                     *)
Those(E, m, k, action) == {j \in 1 .. k : E[m + 1 - j].RAS_action = action}
Balance(E, m, k) == Cardinality(Those(E, m, k, 1)) - Cardinality(Those(E, m, k, -1))

LEMMA ThoseStep ==
  ASSUME NEW E, NEW m \in Nat, NEW k \in Nat, NEW action
  PROVE  /\ Cardinality(Those(E, m, k, action)) \in Nat
         /\ Cardinality(Those(E, m, k + 1, action)) =
              IF E[m + 1 - (k + 1)].RAS_action = action
              THEN Cardinality(Those(E, m, k, action)) + 1 ELSE Cardinality(Those(E, m, k, action))
<1>1. IsFiniteSet(Those(E, m, k, action))
  <2>1. IsFiniteSet(1 .. k)
    BY FS_Interval
  <2> QED
    BY <2>1, FS_Subset DEF Those
<1>2. CASE E[m + 1 - (k + 1)].RAS_action = action
  <2>1. /\ Those(E, m, k + 1, action) = Those(E, m, k, action) \cup {k + 1}
        /\ k + 1 \notin Those(E, m, k, action)
    BY <1>2 DEF Those
  <2> QED
    BY <1>1, <1>2, <2>1, FS_AddElement, FS_CardinalityType
<1>3. CASE E[m + 1 - (k + 1)].RAS_action # action
  <2>1. Those(E, m, k + 1, action) = Those(E, m, k, action)
    BY <1>3 DEF Those
  <2> QED
    BY <1>1, <1>3, <2>1, FS_CardinalityType
<1> QED
  BY <1>2, <1>3

LEMMA BalanceType ==
  ASSUME NEW E, NEW m \in Nat, NEW k \in Nat
  PROVE  Balance(E, m, k) \in Int
<1>1. Cardinality(Those(E, m, k, 1)) \in Nat /\ Cardinality(Those(E, m, k, -1)) \in Nat
  BY ThoseStep
<1> QED
  BY <1>1 DEF Balance

LEMMA BalanceNone ==
  ASSUME NEW E, NEW m \in Nat
  PROVE  Balance(E, m, 0) = 0
<1>1. Those(E, m, 0, 1) = {} /\ Those(E, m, 0, -1) = {}
  BY DEF Those
<1> QED
  BY <1>1, FS_EmptySet DEF Balance

LEMMA BalanceStep ==
  ASSUME NEW E, NEW m \in Nat, NEW k \in Nat, NEW i, i = m - k, E[i].RAS_action \in -1 .. 1
  PROVE  Balance(E, m, k + 1) = Balance(E, m, k) + E[i].RAS_action
<1>1. m + 1 - (k + 1) = i
  OBVIOUS
<1> QED
  BY <1>1, ThoseStep DEF Balance

Stops(E, m, k) == E[m + 1 - k].flush_RAS \/ Balance(E, m, k) = 1

(* Having gone back k entries without a stop, the top of the stack is as   *)
(* deep in the stack there as pops were met more than pushes.              *)
Deep(S, E, m, k) ==
  (\A j \in 1 .. k : ~Stops(E, m, j)) =>
    LET depth == 1 - Balance(E, m, k)
    IN  /\ depth >= 1
        /\ Len(S[m]) = 0 <=> Len(S[m - k]) < depth
        /\ Len(S[m]) # 0 => S[m][1] = S[m - k][depth]

LEMMA GoBack ==
  ASSUME NEW m \in Nat, NEW E, \A i \in 1 .. m : E[i] \in Entry,
         NEW S \in [0 .. m -> Stack], Leaves(S, E, m)
  PROVE  \A k \in 0 .. m : Deep(S, E, m, k)
<1>1. Deep(S, E, m, 0)
  <2>1. S[m] \in Stack /\ m - 0 = m
    OBVIOUS
  <2> QED
    BY <2>1, BalanceNone DEF Deep, Stack
<1>2. ASSUME NEW k \in 0 .. m - 1, Deep(S, E, m, k), \A j \in 1 .. k + 1 : ~Stops(E, m, j)
      PROVE  LET depth == 1 - Balance(E, m, k + 1)
             IN  /\ depth >= 1
                 /\ Len(S[m]) = 0 <=> Len(S[m - (k + 1)]) < depth
                 /\ Len(S[m]) # 0 => S[m][1] = S[m - (k + 1)][depth]
  <2>1. PICK i \in 1 .. m : i = m - k
    OBVIOUS
  <2>2. /\ E[i] \in Entry /\ S[i] \in Stack /\ S[i - 1] \in Stack /\ S[m] \in Stack
        /\ S[i] = UpdatedRAS(S[i - 1], E[i]) /\ PopFits(S[i - 1], E[i])
    BY DEF Leaves
  <2>3. ~E[i].flush_RAS /\ Balance(E, m, k + 1) # 1
    BY <1>2, <2>1 DEF Stops
  <2>4. E[i].RAS_action \in -1 .. 1
    BY <2>2 DEF Entry
  <2>5. PICK c \in Int : c = 1 - Balance(E, m, k)
    <3>1. k \in Nat
      OBVIOUS
    <3>2. Balance(E, m, k) \in Int
      BY <3>1, BalanceType
    <3> QED
      BY <3>2
  <2>6. PICK d \in Int : d = 1 - Balance(E, m, k + 1) /\ d = c - E[i].RAS_action /\ d # 0
    <3>1. Balance(E, m, k) \in Int /\ Balance(E, m, k + 1) = Balance(E, m, k) + E[i].RAS_action
      <4>1. k \in Nat
        OBVIOUS
      <4> QED
        BY <2>1, <2>4, <4>1, BalanceType, BalanceStep
    <3>2. Balance(E, m, k) = 1 - c
      BY <2>5, <3>1
    <3> QED
      BY <2>3, <2>4, <3>1, <3>2, 1 - (1 - c + E[i].RAS_action) = c - E[i].RAS_action
  <2>7. /\ c >= 1 /\ (Len(S[m]) = 0 <=> Len(S[i]) < c)
        /\ Len(S[m]) # 0 => S[m][1] = S[i][c]
    BY <1>2, <2>1, <2>5 DEF Deep
  <2>8. Len(S[i]) \in Nat /\ Len(S[i - 1]) \in Nat /\ Len(S[m]) \in Nat
    BY <2>2 DEF Stack
  <2>9. m - (k + 1) = i - 1
    BY <2>1
  <2>13. SUFFICES /\ d >= 1 /\ (Len(S[m]) = 0 <=> Len(S[i - 1]) < d)
                  /\ Len(S[m]) # 0 => S[m][1] = S[i - 1][d]
    BY <2>6, <2>9
  <2>10. CASE E[i].RAS_action = -1
    <3>1. /\ Len(S[i]) = Len(S[i - 1]) - 1
          /\ \A j \in 1 .. Len(S[i - 1]) - 1 : S[i][j] = S[i - 1][j + 1]
      BY <2>2, <2>3, <2>10, UpdatedIs
    <3>2. Len(S[m]) # 0 => c \in 1 .. Len(S[i - 1]) - 1
      BY <2>7, <2>8, <3>1
    <3> QED
      BY <2>6, <2>7, <2>8, <2>10, <3>1, <3>2
  <2>11. CASE E[i].RAS_action = 1
    <3>1. /\ Len(S[i]) = Len(S[i - 1]) + 1
          /\ \A j \in 1 .. Len(S[i - 1]) : S[i][j + 1] = S[i - 1][j]
      BY <2>2, <2>3, <2>11, UpdatedIs
    <3>2. c - 1 >= 1
      BY <2>6, <2>7, <2>11
    <3>3. Len(S[m]) # 0 => c - 1 \in 1 .. Len(S[i - 1]) /\ (c - 1) + 1 = c
      BY <2>7, <2>8, <3>1, <3>2
    <3> QED
      BY <2>6, <2>7, <2>8, <2>11, <3>1, <3>2, <3>3
  <2>12. CASE E[i].RAS_action = 0
    <3>1. S[i] = S[i - 1]
      BY <2>2, <2>3, <2>12, UpdatedIs
    <3> QED
      BY <2>6, <2>7, <2>8, <2>12, <3>1
  <2> QED
    BY <2>4, <2>10, <2>11, <2>12
<1>3. ASSUME NEW k \in 0 .. m - 1, Deep(S, E, m, k)
      PROVE  Deep(S, E, m, k + 1)
  BY <1>2, <1>3 DEF Deep
<1> DEFINE G == {k \in 0 .. m : Deep(S, E, m, k)}
<1>4. 0 \in G /\ \A k \in 0 .. m - 1 : k \in G => k + 1 \in G
  BY <1>1, <1>3
<1> HIDE DEF G
<1>5. \A k \in 0 .. m : k \in G
  BY <1>4, UpTo
<1> QED
  BY <1>5 DEF G

(* What RAS_lookup() computes, with its loop back to the oldest of the m   *)
(* entries and then to the committed stack.                                *)
Lookup(E, m, committed) ==
  LET stops == {k \in 1 .. m : Stops(E, m, k)}
  IN  IF stops # {}
      THEN LET k == Min(stops)
           IN  IF E[m + 1 - k].flush_RAS THEN NotFound ELSE Found(E[m + 1 - k].RAS_address)
      ELSE LET n == 1 - Balance(E, m, m)
           IN  IF n <= Len(committed) THEN Found(committed[n]) ELSE NotFound

LEMMA LookupFindsTop ==
  ASSUME NEW m \in Nat, NEW E, \A i \in 1 .. m : E[i] \in Entry,
         NEW S \in [0 .. m -> Stack], Leaves(S, E, m)
  PROVE  Lookup(E, m, S[0]) = Top(S[m])
<1> DEFINE stops == {k \in 1 .. m : Stops(E, m, k)}
<1>0. S[m] \in Stack /\ S[0] \in Stack /\ (S[m] = <<>> <=> Len(S[m]) = 0)
  BY DEF Stack
<1>1. CASE stops # {}
  <2>0. stops \subseteq Nat
    OBVIOUS
  <2> HIDE DEF stops
  <2>1. PICK k \in stops : \A j \in stops : k <= j
    BY <1>1, <2>0, LeastElement
  <2>2. Min(stops) \in stops /\ \A j \in stops : Min(stops) <= j
    BY <2>1 DEF Min
  <2>3. Min(stops) = k
    <3>1. PICK n \in stops : n = Min(stops)
      BY <2>2
    <3>2. n \in Nat /\ k \in Nat /\ n <= k /\ k <= n
      BY <2>0, <2>1, <2>2, <3>1
    <3> QED
      BY <3>1, <3>2
  <2>4. k \in 1 .. m /\ Stops(E, m, k) /\ \A j \in 1 .. k - 1 : ~Stops(E, m, j)
    BY <2>1 DEF stops
  <2>5. PICK i \in 1 .. m : i = m + 1 - k
    BY <2>4
  <2>6. /\ E[i] \in Entry /\ S[i] \in Stack /\ S[i - 1] \in Stack
        /\ S[i] = UpdatedRAS(S[i - 1], E[i]) /\ PopFits(S[i - 1], E[i])
    BY DEF Leaves
  <2>7. Deep(S, E, m, k - 1) /\ m - (k - 1) = i
    BY <2>4, <2>5, GoBack
  <2>8. PICK c \in Int : c = 1 - Balance(E, m, k - 1)
    <3>1. k - 1 \in Nat
      BY <2>4
    <3>2. Balance(E, m, k - 1) \in Int
      BY <3>1, BalanceType
    <3> QED
      BY <3>2
  <2>9. /\ c >= 1 /\ (Len(S[m]) = 0 <=> Len(S[i]) < c)
        /\ Len(S[m]) # 0 => S[m][1] = S[i][c]
    BY <2>4, <2>7, <2>8 DEF Deep
  <2>10. Lookup(E, m, S[0]) = IF E[i].flush_RAS THEN NotFound ELSE Found(E[i].RAS_address)
    BY <1>1, <2>3, <2>5 DEF Lookup, stops
  <2>11. CASE E[i].flush_RAS
    <3>1. S[i] = <<>>
      BY <2>6, <2>11, UpdatedIs
    <3>2. Len(S[m]) = 0
      BY <1>0, <2>9, <3>1
    <3> QED
      BY <1>0, <2>10, <2>11, <3>2 DEF Top
  <2>12. CASE ~E[i].flush_RAS
    <3>1. Balance(E, m, k) = 1
      BY <2>4, <2>5, <2>12 DEF Stops
    <3>2. E[i].RAS_action \in -1 .. 1
      BY <2>6 DEF Entry
    <3>3. Balance(E, m, k) = Balance(E, m, k - 1) + E[i].RAS_action
      <4>1. k - 1 \in Nat /\ (k - 1) + 1 = k /\ m - (k - 1) = i
        BY <2>4, <2>5
      <4> QED
        BY <4>1, <3>2, BalanceStep
    <3>4. E[i].RAS_action = 1 /\ c = 1
      <4>1. k - 1 \in Nat
        BY <2>4
      <4>2. Balance(E, m, k - 1) \in Int
        BY <4>1, BalanceType
      <4> QED
        BY <2>8, <2>9, <3>1, <3>2, <3>3, <4>2
    <3>5. Len(S[i]) = Len(S[i - 1]) + 1 /\ S[i][1] = E[i].RAS_address /\ Len(S[i - 1]) \in Nat
      BY <2>6, <2>12, <3>4, UpdatedIs DEF Stack
    <3>6. Len(S[m]) # 0 /\ S[m][1] = E[i].RAS_address
      BY <2>9, <3>4, <3>5
    <3> QED
      BY <1>0, <2>10, <2>12, <3>6 DEF Top
  <2> QED
    BY <2>11, <2>12
<1>2. CASE stops = {}
  <2>1. Deep(S, E, m, m) /\ m - m = 0
    BY GoBack
  <2>2. \A j \in 1 .. m : ~Stops(E, m, j)
    BY <1>2 DEF stops
  <2> HIDE DEF stops
  <2>0. Balance(E, m, m) \in Int
    BY BalanceType
  <2>3. PICK c \in Int : c = 1 - Balance(E, m, m)
    BY <2>0
  <2>4. /\ c >= 1 /\ (Len(S[m]) = 0 <=> Len(S[0]) < c)
        /\ Len(S[m]) # 0 => S[m][1] = S[0][c]
    BY <2>1, <2>2, <2>3 DEF Deep
  <2>5. Lookup(E, m, S[0]) = IF c <= Len(S[0]) THEN Found(S[0][c]) ELSE NotFound
    BY <1>2, <2>3 DEF Lookup, stops
  <2>6. Len(S[0]) \in Nat
    BY <1>0 DEF Stack
  <2>7. CASE Len(S[m]) = 0
    <3>1. Len(S[0]) < c /\ S[m] = <<>>
      BY <1>0, <2>4, <2>7
    <3> QED
      BY <2>5, <2>6, <3>1 DEF Top
  <2>8. CASE Len(S[m]) # 0
    <3>1. c <= Len(S[0]) /\ S[m][1] = S[0][c] /\ S[m] # <<>>
      BY <1>0, <2>4, <2>6, <2>8
    <3> QED
      BY <2>5, <3>1 DEF Top
  <2> QED
    BY <2>7, <2>8
<1> QED
  BY <1>1, <1>2

-----------------------------------------------------------------------------
(* The invariant.                                                          *)

Lead(f) == IF f.c_next_pc = Unknown THEN f.next_pc ELSE f.c_next_pc
NextHistory(e) == IF IsCond(e) THEN Shift(e.history, e.taken) ELSE e.history

Indices == {TableIndex(h, p) : h \in Histories, p \in Addresses}
InFlight == [tag : Places, pc : CTIs, next_pc : Addresses,
             c_next_pc : Addresses \cup {Unknown}, index : Indices]
Directions == [0 .. BP_TABLE_SIZE - 1 -> [pred : BOOLEAN, hyst : BOOLEAN]]
Targets == [0 .. BTB_SIZE - 1 -> [pred : Addresses, hyst : BOOLEAN]]

Types ==
  /\ cti_Q \in [Places -> Entry] /\ cti_head \in Places /\ cti_tail \in Places
  /\ flight \in Seq(InFlight) /\ Len(flight) <= MaxInFlight
  /\ RAS \in Stack /\ history \in Histories
  /\ pred_table \in Directions /\ BTB \in Targets

(* The entry i places after the head.                                      *)
At(i) == cti_Q[Wrap(cti_head + i)]

(* Entry e is the one of f, in flight, and h follows from it.              *)
Fits(f, e, h) ==
  /\ e.pc = f.pc /\ e.kind = Kind[f.pc] /\ e.state = 1
  /\ e.original_pred = f.next_pc /\ e.target = Lead(f)
  /\ IsCond(e) => (e.taken <=> e.target # IncrementPC(e.pc))
  /\ TableIndex(e.history, e.pc) = f.index
  /\ h = NextHistory(e)

Matches(i) ==
  /\ flight[i].tag = Wrap(cti_head + (i - 1))
  /\ Fits(flight[i], At(i - 1), At(i).history)

QueueInv ==
  /\ Types
  /\ cti_tail = Wrap(cti_head + Len(flight))
  /\ At(0).history = history
  /\ \A i \in 1 .. Len(flight) : Matches(i)

Entries == [i \in 1 .. Len(flight) |-> At(i - 1)]

(* S is the stack after each prediction in flight.                         *)
StacksAre(S) ==
  /\ S \in [0 .. Len(flight) -> Stack] /\ S[0] = RAS
  /\ Leaves(S, Entries, Len(flight))

RASInv == \E S : StacksAre(S)

-----------------------------------------------------------------------------
(* Types of what the handlers compute.                                     *)

LEMMA AddressesAre ==
  /\ Addresses \subseteq Nat /\ 0 \in Addresses /\ CTIs \subseteq Addresses
  /\ \A p \in CTIs : /\ IncrementPC(p) \in Addresses /\ Target[p] \in Addresses
                     /\ p \in Nat \ {0} /\ Kind[p] \in Kinds
                     /\ Outcomes(p) \subseteq Addresses
                     /\ Kind[p] = "cond" => Target[p] # IncrementPC(p)
  /\ Unknown \notin Addresses
<1>1. Addresses \subseteq Nat /\ 0 \in Addresses /\ CTIs \subseteq Addresses
  <2>1. /\ CTIs \subseteq Nat /\ Landings \subseteq Nat
        /\ \A p \in CTIs : Target[p] \in Nat /\ IncrementPC(p) \in Nat
    BY BranchPredictorAssumption DEF IncrementPC
  <2> DEFINE T == {Target[p] : p \in CTIs}
             I == {IncrementPC(p) : p \in CTIs}
  <2>2. T \subseteq Nat /\ I \subseteq Nat
    BY <2>1
  <2>3. Addresses = {0} \cup CTIs \cup I \cup Landings \cup T
    BY DEF Addresses
  <2> HIDE DEF T, I
  <2> QED
    BY <2>1, <2>2, <2>3
<1>2. ASSUME NEW p \in CTIs
      PROVE  /\ IncrementPC(p) \in Addresses /\ Target[p] \in Addresses
             /\ p \in Nat \ {0} /\ Kind[p] \in Kinds
             /\ Outcomes(p) \subseteq Addresses
             /\ Kind[p] = "cond" => Target[p] # IncrementPC(p)
  <2>1. IncrementPC(p) \in Addresses /\ Target[p] \in Addresses /\ Landings \subseteq Addresses
    BY DEF Addresses
  <2>2. p \in Nat \ {0} /\ Kind[p] \in Kinds /\ (Kind[p] = "cond" => Target[p] # IncrementPC(p))
    BY BranchPredictorAssumption DEF IncrementPC
  <2>3. Outcomes(p) \subseteq Addresses
    BY <2>1 DEF Outcomes
  <2> QED
    BY <2>1, <2>2, <2>3
<1> QED
  BY <1>1, <1>2 DEF Unknown

LEMMA ShiftType ==
  ASSUME NEW h \in Histories, NEW taken
  PROVE  Shift(h, taken) \in Histories
<1>1. HIST_BIT \in Nat \ {0} /\ h \in 0 .. 2 * HIST_BIT - 1
  BY Sizes DEF Histories
<1>2. h \div 2 \in 0 .. HIST_BIT - 1
  BY <1>1
<1>3. CASE taken
  BY <1>1, <1>2, <1>3 DEF Shift, Histories
<1>4. CASE ~taken
  BY <1>1, <1>2, <1>4 DEF Shift, Histories
<1> QED
  BY <1>3, <1>4

LEMMA NextHistoryType ==
  ASSUME NEW e \in Entry
  PROVE  NextHistory(e) \in Histories
<1>1. e.history \in Histories
  BY DEF Entry
<1> QED
  BY <1>1, ShiftType DEF NextHistory

LEMMA TopType ==
  ASSUME NEW s \in Stack
  PROVE  /\ Top(s).found \in BOOLEAN /\ Top(s).address \in Addresses
         /\ Top(s).found => s # <<>> /\ Top(s).address = s[1]
<1>1. CASE s = <<>>
  BY <1>1, AddressesAre DEF Top, NotFound, NoAddress
<1>2. CASE s # <<>>
  <2>1. s[1] \in Addresses
    BY <1>2 DEF Stack
  <2> QED
    BY <1>2, <2>1 DEF Top, Found
<1> QED
  BY <1>1, <1>2

LEMMA EntriesAre ==
  ASSUME QueueInv
  PROVE  /\ Len(flight) \in Nat /\ Len(flight) \in Places
         /\ \A i \in 0 .. Len(flight) : At(i) \in Entry /\ Wrap(cti_head + i) \in Places
         /\ \A i \in 1 .. Len(flight) : Entries[i] = At(i - 1) /\ Entries[i] \in Entry
         /\ \A i \in 1 .. Len(flight) : flight[i] \in InFlight /\ Matches(i)
<1>1. Len(flight) \in Nat /\ Len(flight) \in Places
  BY Sizes DEF QueueInv, Types, Places
<1>2. ASSUME NEW i \in 0 .. Len(flight) PROVE At(i) \in Entry /\ Wrap(cti_head + i) \in Places
  <2>1. cti_head + i \in Int
    BY <1>1 DEF QueueInv, Types, Places
  <2>2. Wrap(cti_head + i) \in Places
    BY <2>1, WrapIs
  <2> QED
    BY <2>2 DEF QueueInv, Types, At
<1>3. ASSUME NEW i \in 1 .. Len(flight)
      PROVE  /\ Entries[i] = At(i - 1) /\ Entries[i] \in Entry
             /\ flight[i] \in InFlight /\ Matches(i)
  <2>1. i - 1 \in 0 .. Len(flight)
    BY <1>1
  <2>2. flight[i] \in InFlight
    BY <1>1 DEF QueueInv, Types
  <2> QED
    BY <1>2, <2>1, <2>2 DEF Entries, QueueInv
<1> QED
  BY <1>1, <1>2, <1>3

-----------------------------------------------------------------------------
(* RAS_lookup() goes back through the entries.                             *)

LEMMA LookupIs ==
  ASSUME QueueInv, NEW m \in 0 .. Len(flight)
  PROVE  RAS_lookup(Wrap(cti_head + m)) = Lookup(Entries, m, RAS)
<1> DEFINE t == Wrap(cti_head + m)
           older == Older(t)
<1>1. /\ Len(flight) \in Nat /\ m \in Places /\ cti_head \in Places
  BY EntriesAre, Sizes DEF QueueInv, Types, Places
<1>2. older = [k \in 1 .. m |-> Wrap(t - k)]
  BY <1>1, WrapBack DEF Older
<1>3. DOMAIN older = 1 .. m /\ Len(older) = m
  <2> HIDE DEF older
  <2> QED
    BY <1>1, <1>2 DEF Places
<1>4. ASSUME NEW k \in 1 .. m PROVE cti_Q[older[k]] = Entries[m + 1 - k]
  <2>1. older[k] = Wrap(t - k)
    BY <1>2
  <2>2. Wrap(t - k) = Wrap(cti_head + (m - k))
    BY <1>1, WrapBack
  <2>3. m + 1 - k \in 1 .. Len(flight) /\ (m + 1 - k) - 1 = m - k
    BY <1>1
  <2>4. Entries[m + 1 - k] = At(m - k)
    BY <2>3 DEF Entries
  <2> QED
    BY <2>1, <2>2, <2>4 DEF At
<1> HIDE DEF t
<1>5. ASSUME NEW k \in 0 .. m PROVE Count(t, k) = Balance(Entries, m, k)
  <2>1. ASSUME NEW action
        PROVE  {j \in 1 .. k : cti_Q[Older(t)[j]].RAS_action = action} = Those(Entries, m, k, action)
    <3>1. \A j \in 1 .. k : j \in 1 .. m
      BY <1>1
    <3>2. \A j \in 1 .. k : cti_Q[Older(t)[j]] = Entries[m + 1 - j]
      BY <1>4, <3>1
    <3> QED
      BY <3>2 DEF Those
  <2> QED
    BY <2>1 DEF Count, Balance
<1>6. \A k \in 1 .. m : Count(t, k) = Balance(Entries, m, k)
  BY <1>5
<1>7. Count(t, m) = Balance(Entries, m, m)
  BY <1>1, <1>5
<1> HIDE DEF older
<1> DEFINE stops == {k \in DOMAIN older : cti_Q[older[k]].flush_RAS \/ Count(t, k) = 1}
<1>8. stops = {k \in 1 .. m : Stops(Entries, m, k)}
  BY <1>3, <1>4, <1>6 DEF Stops
<1>9. RAS_lookup(t) =
        IF stops # {}
        THEN LET k == Min(stops)
             IN  IF cti_Q[older[k]].flush_RAS THEN NotFound
                 ELSE Found(cti_Q[older[k]].RAS_address)
        ELSE LET n == 1 - Count(t, m)
             IN  IF n <= Len(RAS) THEN Found(RAS[n]) ELSE NotFound
  BY <1>3 DEF RAS_lookup, CommittedPlace, older
<1> HIDE DEF stops
<1>10. CASE stops = {}
  BY <1>7, <1>8, <1>9, <1>10 DEF Lookup, t
<1>11. CASE stops # {}
  <2>1. stops \subseteq Nat /\ stops \subseteq 1 .. m
    BY <1>8
  <2>2. PICK k \in stops : \A j \in stops : k <= j
    BY <1>11, <2>1, LeastElement
  <2>3. Min(stops) \in stops
    BY <2>2 DEF Min
  <2>4. PICK k0 \in 1 .. m : k0 = Min(stops)
    BY <2>1, <2>3
  <2>5. cti_Q[older[k0]] = Entries[m + 1 - k0]
    BY <1>4
  <2>6. RAS_lookup(t) = IF cti_Q[older[k0]].flush_RAS THEN NotFound
                        ELSE Found(cti_Q[older[k0]].RAS_address)
    BY <1>9, <1>11, <2>4
  <2>7. Lookup(Entries, m, RAS) = IF Entries[m + 1 - k0].flush_RAS THEN NotFound
                                  ELSE Found(Entries[m + 1 - k0].RAS_address)
    BY <1>8, <1>11, <2>4 DEF Lookup
  <2> QED
    BY <2>5, <2>6, <2>7 DEF t
<1> QED
  BY <1>10, <1>11

LEMMA LookupIsTop ==
  ASSUME QueueInv, NEW S, StacksAre(S), NEW m \in 0 .. Len(flight)
  PROVE  RAS_lookup(Wrap(cti_head + m)) = Top(S[m])
<1>1. Len(flight) \in Nat /\ m \in Nat /\ \A i \in 1 .. m : i \in 1 .. Len(flight)
  BY EntriesAre
<1>2. \A i \in 1 .. m : Entries[i] \in Entry
  BY <1>1, EntriesAre
<1> DEFINE R == [i \in 0 .. m |-> S[i]]
<1>3. R \in [0 .. m -> Stack] /\ R[0] = RAS /\ R[m] = S[m]
  BY <1>1 DEF StacksAre
<1>4. Leaves(R, Entries, m)
  <2>1. ASSUME NEW i \in 1 .. m
        PROVE  R[i] = UpdatedRAS(R[i - 1], Entries[i]) /\ PopFits(R[i - 1], Entries[i])
    <3>1. i \in 1 .. Len(flight) /\ R[i] = S[i] /\ R[i - 1] = S[i - 1]
      BY <1>1
    <3> QED
      BY <3>1 DEF StacksAre, Leaves
  <2> QED
    BY <2>1 DEF Leaves
<1> HIDE DEF R
<1>5. Lookup(Entries, m, R[0]) = Top(R[m])
  BY <1>1, <1>2, <1>3, <1>4, LookupFindsTop
<1> QED
  BY <1>3, <1>5, LookupIs

-----------------------------------------------------------------------------
(* Predictions and repairs are entries that fit the stack.                 *)

(* The entry before it is predicted.                                       *)
Blank(k, p, h) == [NoEntry EXCEPT !.kind = k, !.pc = p, !.state = 1, !.history = h]

LEMMA BlankIs ==
  ASSUME NEW k \in Kinds, NEW p \in Addresses, NEW h \in Histories
  PROVE  /\ Blank(k, p, h) \in Entry
         /\ Blank(k, p, h).kind = k /\ Blank(k, p, h).pc = p /\ Blank(k, p, h).state = 1
         /\ Blank(k, p, h).history = h
<1>1. NoEntry \in Entry
  <2>1. 0 \in Addresses /\ 0 \in Histories /\ "jump" \in Kinds
    BY AddressesAre, Sizes DEF Histories, Kinds
  <2> QED
    BY <2>1 DEF NoEntry, Entry
<1> PICK n \in Entry : n = NoEntry
  BY <1>1
<1> QED
  BY DEF Entry, Blank

(* What get_pred() puts into the queue for the instruction at p.           *)
LEMMA PredictedIs ==
  ASSUME QueueInv, NEW S, StacksAre(S), NEW p \in CTIs
  PROVE  LET e == Predicted(p)
         IN  /\ e \in Entry /\ PopFits(S[Len(flight)], e)
             /\ e.pc = p /\ e.kind = Kind[p] /\ e.state = 1
             /\ e.original_pred = e.target /\ e.history = cti_Q[cti_tail].history
             /\ IsCond(e) => (e.taken <=> e.target # IncrementPC(p))
<1> DEFINE e == Predicted(p)
           h == cti_Q[cti_tail].history
           ras == RAS_lookup(cti_tail)
           taken == Kind[p] # "cond" \/ pred_table[TableIndex(h, p)].pred
           target == CASE Kind[p] = "return" -> ras.address
                       [] Kind[p] # "return" /\ taken /\ Kind[p] \in {"jumpr", "callr"} -> BTB[BTBIndex(p)].pred
                       [] Kind[p] # "return" /\ taken /\ Kind[p] \notin {"jumpr", "callr"} -> Target[p]
                       [] OTHER -> IncrementPC(p)
           action == IF Kind[p] \in {"call", "callr"} THEN 1
                     ELSE IF Kind[p] = "return" /\ ras.found THEN -1 ELSE 0
           address == IF Kind[p] \in {"call", "callr"} THEN IncrementPC(p)
                      ELSE IF Kind[p] = "return" THEN ras.address ELSE NoAddress
<1>2. h \in Histories
  BY DEF QueueInv, Types, Entry
<1>3. /\ S[Len(flight)] \in Stack /\ ras = Top(S[Len(flight)])
  <2>1. Len(flight) \in 0 .. Len(flight) /\ cti_tail = Wrap(cti_head + Len(flight))
    BY EntriesAre DEF QueueInv
  <2> QED
    BY <2>1, LookupIsTop DEF StacksAre
<1>4. /\ ras.found \in BOOLEAN /\ ras.address \in Addresses
      /\ ras.found => S[Len(flight)] # <<>> /\ ras.address = S[Len(flight)][1]
  BY <1>3, TopType
<1>5. /\ IncrementPC(p) \in Addresses /\ Target[p] \in Addresses /\ p \in Addresses
      /\ p \in Nat /\ Kind[p] \in Kinds /\ NoAddress \in Addresses
      /\ Kind[p] = "cond" => Target[p] # IncrementPC(p)
  BY AddressesAre DEF NoAddress
<1>6. BTB[BTBIndex(p)].pred \in Addresses
  <2>1. BTBIndex(p) \in 0 .. BTB_SIZE - 1
    BY <1>5, Sizes, ModIn DEF BTBIndex
  <2> QED
    BY <2>1 DEF QueueInv, Types, Targets
<1>7. taken \in BOOLEAN
  OBVIOUS
<1>8. Kind[p] = "cond" => (taken <=> target # IncrementPC(p))
  BY <1>5
<1>9. target \in Addresses /\ address \in Addresses /\ action \in -1 .. 1
  <2> HIDE DEF ras, taken
  <2> QED
    BY <1>4, <1>5, <1>6
<1>10. action = -1 => S[Len(flight)] # <<>> /\ S[Len(flight)][1] = address
  <2> HIDE DEF ras
  <2> QED
    BY <1>4
<1> DEFINE b == Blank(Kind[p], p, h)
<1>11. /\ b \in Entry /\ b.kind = Kind[p] /\ b.pc = p /\ b.state = 1 /\ b.history = h
  <2>1. Kind[p] \in Kinds /\ p \in Addresses
    BY <1>5
  <2> HIDE DEF h
  <2> QED
    BY <1>2, <2>1, BlankIs
<1>12. e = [b EXCEPT !.taken = taken, !.target = target, !.original_pred = target,
                     !.RAS_action = action, !.RAS_address = address]
  <2> DEFINE taken2 == ~IsCond(b) \/ pred_table[TableIndex(b.history, p)].pred
             target2 == CASE IsReturn(b) -> ras.address
                          [] ~IsReturn(b) /\ taken2 /\ UseBTB(b) -> BTB[BTBIndex(p)].pred
                          [] ~IsReturn(b) /\ taken2 /\ ~UseBTB(b) -> Target[p]
                          [] OTHER -> IncrementPC(p)
             action2 == IF IsCall(b) THEN 1 ELSE IF IsReturn(b) /\ ras.found THEN -1 ELSE 0
             address2 == IF IsCall(b) THEN IncrementPC(p)
                         ELSE IF IsReturn(b) THEN ras.address ELSE NoAddress
  <2>1. e = [b EXCEPT !.taken = taken2, !.target = target2, !.original_pred = target2,
                      !.RAS_action = action2, !.RAS_address = address2]
    BY DEF Predicted, Blank
  <2> HIDE DEF b
  <2>2. /\ IsCond(b) <=> Kind[p] = "cond"
        /\ IsReturn(b) <=> Kind[p] = "return"
        /\ IsCall(b) <=> Kind[p] \in {"call", "callr"}
        /\ UseBTB(b) <=> Kind[p] \in {"jumpr", "callr"}
        /\ b.history = h
    BY <1>11 DEF IsCond, IsCall, IsReturn, UseBTB
  <2>3. (taken2 <=> taken) /\ action2 = action /\ address2 = address
    BY <2>2
  <2>4. taken2 = taken
    BY <2>3
  <2>5. target2 = target
    BY <2>2, <2>4
  <2> HIDE DEF taken2, target2, action2, address2, taken, target, action, address, e
  <2> QED
    BY <2>1, <2>3, <2>4, <2>5
<1> HIDE DEF h, ras, taken, target, action, address, e, b
<1>13. /\ e \in Entry
       /\ e.pc = p /\ e.kind = Kind[p] /\ e.state = 1 /\ e.original_pred = e.target
       /\ e.history = h /\ e.RAS_action = action /\ e.RAS_address = address
       /\ e.taken = taken /\ e.target = target
  BY <1>7, <1>9, <1>11, <1>12 DEF Entry
<1>14. PopFits(S[Len(flight)], e)
  BY <1>10, <1>13 DEF PopFits
<1>15. IsCond(e) => (e.taken <=> e.target # IncrementPC(p))
  BY <1>8, <1>13 DEF IsCond
<1> QED
  BY <1>13, <1>14, <1>15 DEF e, h

(* What fix_pred() makes of the entry at t.                                *)
LEMMA FixedIs ==
  ASSUME NEW e \in Entry, NEW t, NEW s \in Stack, RAS_lookup(t) = Top(s), PopFits(s, e),
         NEW next_pc \in Addresses
  PROVE  LET f == Fixed(t, e, next_pc)
         IN  /\ f \in Entry /\ PopFits(s, f)
             /\ f.pc = e.pc /\ f.kind = e.kind /\ f.state = e.state
             /\ f.original_pred = e.original_pred /\ f.target = next_pc
             /\ f.history = e.history
             /\ IsCond(f) => (f.taken <=> next_pc # IncrementPC(e.pc))
<1> DEFINE f == Fixed(t, e, next_pc)
           ras == RAS_lookup(t)
           right == ras.found /\ ras.address = next_pc
           taken == IF e.kind = "cond" THEN next_pc # IncrementPC(e.pc) ELSE e.taken
           action == IF e.kind # "return" THEN e.RAS_action ELSE IF right THEN -1 ELSE 0
           address == IF e.kind = "return" /\ right THEN next_pc ELSE e.RAS_address
           flush == IF e.kind # "return" THEN e.flush_RAS ELSE ~right
<1>1. /\ ras.found \in BOOLEAN
      /\ right => s # <<>> /\ next_pc = s[1]
  BY TopType
<1>2. /\ e.kind \in Kinds /\ e.pc \in Addresses /\ e.original_pred \in Addresses
      /\ e.taken \in BOOLEAN /\ e.history \in Histories /\ e.RAS_action \in -1 .. 1
      /\ e.RAS_address \in Addresses /\ e.flush_RAS \in BOOLEAN /\ e.state \in {0, 1}
      /\ e = [kind |-> e.kind, pc |-> e.pc, target |-> e.target,
              original_pred |-> e.original_pred, taken |-> e.taken, history |-> e.history,
              RAS_action |-> e.RAS_action, RAS_address |-> e.RAS_address,
              flush_RAS |-> e.flush_RAS, state |-> e.state]
  BY DEF Entry
<1>3. /\ right \in BOOLEAN /\ taken \in BOOLEAN /\ flush \in BOOLEAN
      /\ action \in -1 .. 1 /\ address \in Addresses
  <2>1. right \in BOOLEAN
    OBVIOUS
  <2> HIDE DEF right
  <2>2. taken \in BOOLEAN
    BY <1>2
  <2>3. flush \in BOOLEAN
    BY <1>2, <2>1
  <2>4. action \in -1 .. 1
    BY <1>2
  <2>5. address \in Addresses
    BY <1>2
  <2> QED
    BY <2>1, <2>2, <2>3, <2>4, <2>5
<1>4. f = [kind |-> e.kind, pc |-> e.pc, target |-> next_pc,
           original_pred |-> e.original_pred, taken |-> taken, history |-> e.history,
           RAS_action |-> action, RAS_address |-> address, flush_RAS |-> flush,
           state |-> e.state]
  <2>1. CASE e.kind # "return"
    BY <1>2, <2>1 DEF Fixed, IsReturn, IsCond, TakenFixed
  <2>2. CASE e.kind = "return"
    BY <1>2, <2>2 DEF Fixed, IsReturn, IsCond, TakenFixed
  <2> QED
    BY <2>1, <2>2
<1> HIDE DEF f, right, taken, action, address, flush
<1>5. f \in Entry
  BY <1>2, <1>3, <1>4 DEF Entry
<1>6. PopFits(s, f)
  BY <1>1, <1>3, <1>4 DEF PopFits, action, address, flush
<1>7. IsCond(f) => (f.taken <=> next_pc # IncrementPC(e.pc))
  BY <1>4 DEF IsCond, taken
<1> QED
  BY <1>4, <1>5, <1>6, <1>7 DEF f

(* update(): the entry, and the history after it.                          *)
LEMMA EnteredIs ==
  ASSUME cti_Q \in [Places -> Entry], NEW t \in Places, NEW u \in Places, u = Wrap(t + 1), t # u,
         NEW e \in Entry
  PROVE  LET q == Entered(t, e)
         IN  /\ q \in [Places -> Entry]
             /\ q[t] = e /\ q[u].history = NextHistory(e)
             /\ \A i \in Places : i # t /\ i # u => q[i] = cti_Q[i]
<1> DEFINE h == NextHistory(e)
           g == [cti_Q[u] EXCEPT !.history = h]
<1>1. h \in Histories /\ cti_Q[u] \in Entry
  BY NextHistoryType
<1>2. Entered(t, e) = [[cti_Q EXCEPT ![t] = e] EXCEPT ![u] = [@ EXCEPT !.history = h]]
  BY DEF Entered, NextHistory
<1> HIDE DEF h
<1>3. g \in Entry /\ g.history = h
  BY <1>1 DEF Entry
<1> HIDE DEF g
<1>4. Entered(t, e) = [i \in Places |-> IF i = t THEN e ELSE IF i = u THEN g ELSE cti_Q[i]]
  BY <1>2 DEF g
<1> QED
  BY <1>3, <1>4 DEF h

-----------------------------------------------------------------------------
(* Prediction and repair end with the new entry, after j that are kept.    *)

LEMMA EnterInv ==
  ASSUME QueueInv, NEW S, StacksAre(S), NEW j \in 0 .. Len(flight), j < MaxInFlight,
         NEW e \in Entry, PopFits(S[j], e), e.history = At(j).history,
         NEW f \in InFlight, f.tag = Wrap(cti_head + j), Fits(f, e, NextHistory(e)),
         cti_Q' = Entered(Wrap(cti_head + j), e),
         cti_tail' = Wrap(cti_head + (j + 1)),
         flight' \in Seq(InFlight), Len(flight') = j + 1, flight'[j + 1] = f,
         \A i \in 1 .. j : flight'[i] = flight[i],
         UNCHANGED <<cti_head, RAS, pred_table, BTB, history>>
  PROVE  (QueueInv /\ RASInv)'
<1> DEFINE t == Wrap(cti_head + j)
           u == Wrap(cti_head + (j + 1))
<1>1. /\ Len(flight) \in Nat /\ j \in Nat /\ cti_head \in Places /\ cti_Q \in [Places -> Entry]
      /\ MaxInFlight \in Nat /\ MaxInFlight < CTIQ_SIZE /\ CTIQ_SIZE \in Nat
  BY EntriesAre, Sizes DEF QueueInv, Types
<1>2. /\ \A i \in 0 .. j + 1 : i \in Places /\ cti_head + i \in Int
      /\ \A i \in 0 .. j + 1 : Wrap(cti_head + i) \in Places
  <2>1. \A i \in 0 .. j + 1 : i \in Places /\ cti_head + i \in Int
    BY <1>1 DEF Places
  <2> QED
    BY <2>1, WrapIs
<1>3. /\ t \in Places /\ u \in Places
      /\ \A i \in 0 .. j - 1 : Wrap(cti_head + i) # t /\ Wrap(cti_head + i) # u
      /\ t # u
  <2>1. t \in Places /\ u \in Places
    BY <1>1, <1>2
  <2>2. ASSUME NEW i \in 0 .. j - 1
        PROVE  Wrap(cti_head + i) # t /\ Wrap(cti_head + i) # u
    <3>1. i \in Places /\ j \in Places /\ j + 1 \in Places /\ i # j /\ i # j + 1
      BY <1>1, <1>2
    <3> QED
      BY <1>1, <3>1, WrapInjective
  <2>3. t # u
    <3>1. j \in Places /\ j + 1 \in Places /\ j # j + 1
      BY <1>1, <1>2
    <3> QED
      BY <1>1, <3>1, WrapInjective
  <2> QED
    BY <2>1, <2>2, <2>3
<1>4. u = Wrap(t + 1)
  <2>1. cti_head + j + 1 = cti_head + (j + 1) /\ j < CTIQ_SIZE
    BY <1>1 DEF Places
  <2> QED
    BY <1>1, <2>1, WrapStep
<1> HIDE DEF t, u
<1>5. /\ cti_Q' \in [Places -> Entry]
      /\ cti_Q'[t] = e /\ cti_Q'[u].history = NextHistory(e)
      /\ \A i \in Places : i # t /\ i # u => cti_Q'[i] = cti_Q[i]
  <2>1. cti_Q' = Entered(t, e)
    BY DEF t
  <2> QED
    BY <1>1, <1>3, <1>4, <2>1, EnteredIs
<1>6. /\ \A i \in 0 .. j - 1 : At(i)' = At(i)
      /\ At(j)' = e /\ At(j + 1)'.history = NextHistory(e)
  <2>1. \A i \in 0 .. j - 1 : Wrap(cti_head + i) \in Places
    BY <1>1, <1>2
  <2> QED
    BY <1>3, <1>5, <2>1 DEF At, t, u
<1>7. Types'
  <2>1. Len(flight') <= MaxInFlight
    BY <1>1
  <2>2. cti_tail' \in Places
    BY <1>3 DEF u
  <2> QED
    BY <1>5, <2>1, <2>2 DEF QueueInv, Types
<1>8. At(0)'.history = history'
  <2>1. CASE j = 0
    BY <1>6, <2>1 DEF QueueInv
  <2>2. CASE j # 0
    <3>1. At(0)' = At(0)
      BY <1>1, <1>6, <2>2
    <3> QED
      BY <3>1 DEF QueueInv
  <2> QED
    BY <2>1, <2>2
<1>9. \A i \in 0 .. j : At(i)'.history = At(i).history
  <2>1. \A i \in 0 .. j : i \in 0 .. j - 1 \/ i = j
    BY <1>1
  <2> QED
    BY <1>6, <2>1
<1>10. ASSUME NEW i \in 1 .. j + 1 PROVE Matches(i)'
  <2>1. CASE i = j + 1
    <3>1. i - 1 = j
      BY <1>1, <2>1
    <3>2. flight'[i].tag = Wrap(cti_head' + (i - 1)) /\ flight'[i] = f
      BY <2>1, <3>1
    <3>3. At(i - 1)' = e /\ At(i)'.history = NextHistory(e)
      BY <1>6, <2>1, <3>1
    <3>4. Fits(flight'[i], At(i - 1)', At(i)'.history)
      BY <3>2, <3>3
    <3> QED
      BY <3>2, <3>4 DEF Matches, Fits, NextHistory, Lead, IsCond
  <2>2. CASE i # j + 1
    <3>1. i \in 1 .. j /\ i - 1 \in 0 .. j - 1 /\ i \in 1 .. Len(flight) /\ i \in 0 .. j
      BY <1>1, <2>2
    <3>2. flight'[i] = flight[i] /\ At(i - 1)' = At(i - 1) /\ At(i)'.history = At(i).history
      BY <1>6, <1>9, <3>1
    <3>3. Matches(i)
      BY <3>1, EntriesAre
    <3>4. /\ flight'[i].tag = Wrap(cti_head' + (i - 1))
          /\ Fits(flight'[i], At(i - 1)', At(i)'.history)
      BY <3>2, <3>3 DEF Matches
    <3> QED
      BY <3>4 DEF Matches, Fits, NextHistory, Lead, IsCond
  <2> QED
    BY <2>1, <2>2
<1>11. QueueInv'
  <2>1. cti_tail' = Wrap(cti_head' + Len(flight'))
    OBVIOUS
  <2>2. \A i \in 1 .. Len(flight') : Matches(i)'
    BY <1>10
  <2> QED
    BY <1>7, <1>8, <2>1, <2>2 DEF QueueInv
<1>12. RASInv'
  <2> DEFINE R == [i \in 0 .. j + 1 |-> IF i = j + 1 THEN UpdatedRAS(S[j], e) ELSE S[i]]
  <2>1. /\ S \in [0 .. Len(flight) -> Stack] /\ S[0] = RAS /\ Leaves(S, Entries, Len(flight))
    BY DEF StacksAre
  <2>2. R \in [0 .. j + 1 -> Stack] /\ R[0] = RAS
    <3>1. UpdatedRAS(S[j], e) \in Stack
      BY <1>1, <2>1, UpdatedIs
    <3>2. \A i \in 0 .. j + 1 : i # j + 1 => i \in 0 .. Len(flight)
      BY <1>1
    <3> QED
      BY <1>1, <2>1, <3>1, <3>2
  <2>3. ASSUME NEW i \in 1 .. j + 1
        PROVE  /\ R[i] = UpdatedRAS(R[i - 1], Entries'[i])
               /\ PopFits(R[i - 1], Entries'[i])
    <3>1. Entries'[i] = At(i - 1)'
      BY DEF Entries
    <3>2. CASE i = j + 1
      <4>1. i - 1 = j /\ R[i - 1] = S[j] /\ R[i] = UpdatedRAS(S[j], e)
        BY <1>1, <3>2
      <4> QED
        BY <1>6, <3>1, <4>1
    <3>3. CASE i # j + 1
      <4>1. i \in 1 .. j /\ i - 1 \in 0 .. j - 1 /\ i \in 1 .. Len(flight)
        BY <1>1, <3>3
      <4>2. R[i] = S[i] /\ R[i - 1] = S[i - 1]
        BY <1>1, <4>1
      <4>3. Entries'[i] = Entries[i]
        BY <1>6, <3>1, <4>1, EntriesAre
      <4>4. S[i] = UpdatedRAS(S[i - 1], Entries[i]) /\ PopFits(S[i - 1], Entries[i])
        BY <2>1, <4>1 DEF Leaves
      <4> QED
        BY <4>2, <4>3, <4>4
    <3> QED
      BY <3>2, <3>3
  <2> HIDE DEF R
  <2>4. Leaves(R, Entries', j + 1)
    BY <2>3 DEF Leaves
  <2>5. StacksAre(R)'
    BY <2>2, <2>4 DEF StacksAre, Leaves, UpdatedRAS, PopFits
  <2> QED
    BY <2>5 DEF RASInv
<1> QED
  BY <1>11, <1>12

-----------------------------------------------------------------------------
(* Each action keeps the invariant.                                        *)

LEMMA InitInv == Init => QueueInv /\ RASInv
<1> SUFFICES ASSUME Init PROVE QueueInv /\ RASInv
  OBVIOUS
<1>1. /\ cti_head = 0 /\ cti_tail = 0 /\ flight = <<>> /\ RAS = <<>> /\ history = 0
      /\ cti_Q = [i \in Places |-> NoEntry]
  BY DEF Init, Places
<1>2. NoEntry \in Entry /\ NoEntry.history = 0
  <2>1. 0 \in Addresses /\ 0 \in Histories /\ "jump" \in Kinds
    BY AddressesAre, Sizes DEF Histories, Kinds
  <2> QED
    BY <2>1 DEF NoEntry, Entry
<1>3. 0 \in Places /\ Wrap(0) = 0
  BY Sizes, WrapIs DEF Places
<1>4. Types
  <2>1. pred_table \in Directions
    BY DEF Init, Directions
  <2>2. BTB \in Targets
    BY AddressesAre DEF Init, Targets
  <2>3. cti_Q \in [Places -> Entry]
    BY <1>1, <1>2
  <2>4. 0 \in Histories /\ MaxInFlight \in Nat
    BY Sizes DEF Histories
  <2> QED
    BY <1>1, <1>3, <2>1, <2>2, <2>3, <2>4 DEF Types, Stack
<1>5. QueueInv
  <2>1. Len(flight) = 0 /\ cti_head + 0 = 0 /\ cti_head + Len(flight) = 0
    BY <1>1
  <2>2. At(0).history = 0
    BY <1>1, <1>2, <1>3, <2>1 DEF At
  <2> QED
    BY <1>1, <1>3, <1>4, <2>1, <2>2 DEF QueueInv
<1>6. StacksAre([i \in 0 .. 0 |-> RAS])
  BY <1>1 DEF StacksAre, Leaves, Stack
<1> QED
  BY <1>5, <1>6 DEF RASInv

LEMMA PredictInv ==
  ASSUME QueueInv, RASInv, NEW p \in CTIs, GetPred(p)
  PROVE  (QueueInv /\ RASInv)'
<1> PICK S : StacksAre(S)
  BY DEF RASInv
<1> PICK e : e = Predicted(p)
  OBVIOUS
<1>1. /\ e \in Entry /\ PopFits(S[Len(flight)], e)
      /\ e.pc = p /\ e.kind = Kind[p] /\ e.state = 1
      /\ e.original_pred = e.target /\ e.history = cti_Q[cti_tail].history
      /\ IsCond(e) => (e.taken <=> e.target # IncrementPC(p))
  BY PredictedIs
<1>2. PICK f : f = [tag |-> cti_tail, pc |-> p, next_pc |-> e.target,
                    c_next_pc |-> Unknown, index |-> TableIndex(e.history, p)]
  OBVIOUS
<1>3. f \in InFlight
  <2>1. e.target \in Addresses /\ e.history \in Histories /\ p \in Addresses
    BY <1>1, AddressesAre DEF Entry
  <2>2. TableIndex(e.history, p) \in Indices
    BY <2>1 DEF Indices
  <2> QED
    BY <1>2, <2>1, <2>2 DEF InFlight, QueueInv, Types
<1>4. Fits(f, e, NextHistory(e))
  BY <1>1, <1>2 DEF Fits, Lead
<1>5. /\ Len(flight) \in Nat /\ Len(flight) \in 0 .. Len(flight) /\ Len(flight) < MaxInFlight
      /\ cti_tail = Wrap(cti_head + Len(flight)) /\ flight \in Seq(InFlight)
      /\ cti_head \in Places /\ Len(flight) < CTIQ_SIZE
  <2>1. Len(flight) \in Nat /\ Len(flight) \in Places
    BY EntriesAre
  <2>2. Len(flight) < MaxInFlight
    BY DEF GetPred
  <2>3. /\ cti_tail = Wrap(cti_head + Len(flight)) /\ flight \in Seq(InFlight)
        /\ cti_head \in Places
    BY DEF QueueInv, Types
  <2> QED
    BY <2>1, <2>2, <2>3, Sizes DEF Places
<1>6. /\ cti_Q' = Entered(cti_tail, e) /\ flight' = Append(flight, f)
      /\ cti_tail' = Wrap(cti_tail + 1)
      /\ UNCHANGED <<cti_head, RAS, pred_table, BTB, history>>
  BY <1>2 DEF GetPred
<1>7. cti_tail' = Wrap(cti_head + (Len(flight) + 1))
  <2>1. cti_head + Len(flight) + 1 = cti_head + (Len(flight) + 1)
    BY <1>5 DEF Places
  <2> QED
    BY <1>5, <1>6, <2>1, WrapStep
<1>8. /\ flight' \in Seq(InFlight) /\ Len(flight') = Len(flight) + 1
      /\ flight'[Len(flight) + 1] = f
      /\ \A i \in 1 .. Len(flight) : flight'[i] = flight[i]
  BY <1>3, <1>5, <1>6
<1>9. f.tag = Wrap(cti_head + Len(flight)) /\ e.history = At(Len(flight)).history
  BY <1>1, <1>2, <1>5 DEF At
<1> HIDE DEF QueueInv, RASInv
<1> QED
  BY <1>1, <1>3, <1>4, <1>5, <1>6, <1>7, <1>8, <1>9, EnterInv

LEMMA FixInv ==
  ASSUME QueueInv, RASInv, NEW i \in 1 .. MaxInFlight, FixPred(i)
  PROVE  (QueueInv /\ RASInv)'
<1> PICK S : StacksAre(S)
  BY DEF RASInv
<1> DEFINE t == flight[i].tag
<1>1. PICK c \in Outcomes(flight[i].pc) \ {flight[i].next_pc} :
        /\ cti_Q' = Entered(t, Fixed(t, cti_Q[t], c))
        /\ cti_tail' = TailAfterFix(t)
        /\ flight' = [SubSeq(flight, 1, i) EXCEPT ![i].c_next_pc = c]
  BY DEF FixPred
<1>2. /\ UNCHANGED <<cti_head, RAS, pred_table, BTB, history>>
      /\ i <= Len(flight)
  BY DEF FixPred, Unresolved
<1>3. /\ Len(flight) \in Nat /\ i \in 1 .. Len(flight) /\ i - 1 \in 0 .. Len(flight)
      /\ i - 1 < MaxInFlight /\ flight \in Seq(InFlight) /\ cti_head \in Places
      /\ i - 1 < CTIQ_SIZE /\ i - 1 \in Nat /\ MaxInFlight \in Nat
  BY <1>2, EntriesAre, Sizes DEF QueueInv, Types
<1>4. /\ flight[i] \in InFlight /\ t = Wrap(cti_head + (i - 1)) /\ At(i - 1) = cti_Q[t]
      /\ Entries[i] = cti_Q[t] /\ cti_Q[t] \in Entry
      /\ Fits(flight[i], cti_Q[t], At(i).history)
  BY <1>3, EntriesAre DEF Matches, At
<1>5. c \in Addresses /\ c # Unknown
  BY <1>4, AddressesAre DEF InFlight
<1>6. PICK e : e = Fixed(t, cti_Q[t], c)
  OBVIOUS
<1>7. S[i - 1] \in Stack /\ PopFits(S[i - 1], cti_Q[t])
  BY <1>3, <1>4 DEF StacksAre, Leaves
<1>8. RAS_lookup(t) = Top(S[i - 1])
  BY <1>3, <1>4, LookupIsTop
<1> HIDE DEF t
<1>9. /\ e \in Entry /\ PopFits(S[i - 1], e)
      /\ e.pc = cti_Q[t].pc /\ e.kind = cti_Q[t].kind /\ e.state = cti_Q[t].state
      /\ e.original_pred = cti_Q[t].original_pred /\ e.target = c
      /\ e.history = cti_Q[t].history
      /\ IsCond(e) => (e.taken <=> c # IncrementPC(cti_Q[t].pc))
  BY <1>4, <1>5, <1>6, <1>7, <1>8, FixedIs
<1>10. PICK f : f = [flight[i] EXCEPT !.c_next_pc = c]
  OBVIOUS
<1>11. /\ f \in InFlight /\ f.tag = flight[i].tag /\ f.pc = flight[i].pc
       /\ f.next_pc = flight[i].next_pc /\ f.c_next_pc = c /\ f.index = flight[i].index
  BY <1>4, <1>5, <1>10 DEF InFlight
<1>12. Fits(f, e, NextHistory(e))
  BY <1>4, <1>5, <1>9, <1>11 DEF Fits, Lead
<1>13. /\ flight' \in Seq(InFlight) /\ Len(flight') = (i - 1) + 1 /\ flight'[(i - 1) + 1] = f
       /\ \A j \in 1 .. i - 1 : flight'[j] = flight[j]
  <2> DEFINE s == SubSeq(flight, 1, i)
  <2>1. s \in Seq(InFlight) /\ Len(s) = i /\ \A j \in 1 .. i : s[j] = flight[j]
    BY <1>3
  <2>4. flight' = [s EXCEPT ![i].c_next_pc = c]
    BY <1>1
  <2> HIDE DEF s
  <2>5. s[i] = flight[i]
    BY <1>3, <2>1
  <2>2. flight' = [s EXCEPT ![i] = f]
    BY <1>10, <2>4, <2>5
  <2>3. (i - 1) + 1 = i
    BY <1>3
  <2> QED
    BY <1>3, <1>11, <2>1, <2>2, <2>3
<1>14. /\ cti_tail' = Wrap(cti_head + ((i - 1) + 1))
       /\ cti_Q' = Entered(Wrap(cti_head + (i - 1)), e)
       /\ f.tag = Wrap(cti_head + (i - 1))
       /\ e.history = At(i - 1).history
  <2>1. cti_head + (i - 1) + 1 = cti_head + ((i - 1) + 1)
    BY <1>3 DEF Places
  <2>2. cti_tail' = Wrap(t + 1)
    BY <1>1 DEF TailAfterFix, t
  <2>3. Wrap(t + 1) = Wrap(cti_head + ((i - 1) + 1))
    BY <1>3, <1>4, <2>1, WrapStep
  <2> QED
    BY <1>1, <1>4, <1>6, <1>9, <1>11, <2>2, <2>3 DEF t
<1> HIDE DEF QueueInv, RASInv
<1> QED
  BY <1>2, <1>3, <1>9, <1>11, <1>12, <1>13, <1>14, EnterInv

LEMMA ResolveInv ==
  ASSUME QueueInv, RASInv, NEW i \in 1 .. MaxInFlight, ResolveCorrect(i)
  PROVE  (QueueInv /\ RASInv)'
<1>1. /\ UNCHANGED <<cti_Q, cti_head, cti_tail, RAS, pred_table, BTB, history>>
      /\ i <= Len(flight) /\ flight[i].c_next_pc = Unknown
      /\ flight' = [flight EXCEPT ![i].c_next_pc = flight[i].next_pc]
  BY DEF ResolveCorrect, Unresolved
<1>2. /\ Len(flight) \in Nat /\ i \in 1 .. Len(flight) /\ flight \in Seq(InFlight)
      /\ flight[i] \in InFlight
  BY <1>1, EntriesAre, Sizes DEF QueueInv, Types
<1>3. PICK f : f = [flight[i] EXCEPT !.c_next_pc = flight[i].next_pc]
  OBVIOUS
<1>4. /\ f \in InFlight /\ f.tag = flight[i].tag /\ f.pc = flight[i].pc
      /\ f.next_pc = flight[i].next_pc /\ f.c_next_pc = flight[i].next_pc
      /\ f.index = flight[i].index
  BY <1>2, <1>3 DEF InFlight
<1>5. /\ flight' \in Seq(InFlight) /\ Len(flight') = Len(flight) /\ flight'[i] = f
      /\ \A j \in 1 .. Len(flight) : j # i => flight'[j] = flight[j]
  <2>1. flight' = [flight EXCEPT ![i] = f]
    BY <1>1, <1>2, <1>3
  <2> QED
    BY <1>2, <1>4, <2>1
<1>6. \A j : At(j)' = At(j)
  BY <1>1 DEF At
<1>7. ASSUME NEW j \in 1 .. Len(flight) PROVE Matches(j)'
  <2>1. Matches(j)
    BY EntriesAre
  <2>2. /\ flight'[j].tag = flight[j].tag /\ flight'[j].pc = flight[j].pc
        /\ flight'[j].next_pc = flight[j].next_pc /\ flight'[j].index = flight[j].index
        /\ Lead(flight'[j]) = Lead(flight[j])
    <3>1. CASE j = i
      BY <1>1, <1>4, <1>5, <3>1 DEF Lead
    <3>2. CASE j # i
      BY <1>5, <3>2
    <3> QED
      BY <3>1, <3>2
  <2>3. Fits(flight'[j], At(j - 1), At(j).history)
    BY <2>1, <2>2 DEF Matches, Fits
  <2>4. Fits(flight'[j], At(j - 1)', At(j)'.history)
    BY <1>6, <2>3
  <2> QED
    BY <1>1, <2>1, <2>2, <2>4 DEF Matches, Fits, NextHistory, Lead, IsCond
<1>8. QueueInv'
  BY <1>1, <1>5, <1>6, <1>7 DEF QueueInv, Types
<1>9. RASInv'
  <2> PICK S : StacksAre(S)
    BY DEF RASInv
  <2>1. Entries' = Entries
    BY <1>5, <1>6 DEF Entries
  <2>2. StacksAre(S)'
    BY <1>1, <1>5, <2>1 DEF StacksAre, Leaves, UpdatedRAS, PopFits
  <2> QED
    BY <2>2 DEF RASInv
<1> QED
  BY <1>8, <1>9

LEMMA TrainedTypes ==
  ASSUME Types, NEW e \in Entry
  PROVE  TrainedTable(e) \in Directions /\ TrainedBTB(e) \in Targets
<1>1. /\ e.taken \in BOOLEAN /\ e.target \in Addresses
      /\ pred_table \in Directions /\ BTB \in Targets
  BY DEF Types, Entry
<1>2. ASSUME NEW D, NEW a \in [pred : D, hyst : BOOLEAN], NEW outcome \in D
      PROVE  Automaton(a, outcome) \in [pred : D, hyst : BOOLEAN]
  BY DEF Automaton
<1>3. TrainedTable(e) \in Directions
  <2> DEFINE k == TableIndex(e.history, e.pc)
             new == Automaton(pred_table[k], e.taken)
  <2>1. TrainedTable(e) = IF IsCond(e) THEN [pred_table EXCEPT ![k] = new] ELSE pred_table
    BY DEF TrainedTable
  <2>2. k \in 0 .. BP_TABLE_SIZE - 1 => new \in [pred : BOOLEAN, hyst : BOOLEAN]
    BY <1>1, <1>2 DEF Directions
  <2> HIDE DEF k, new
  <2> QED
    BY <1>1, <2>1, <2>2 DEF Directions
<1>4. TrainedBTB(e) \in Targets
  <2> DEFINE k == BTBIndex(e.pc)
             new == Automaton(BTB[k], e.target)
  <2>1. TrainedBTB(e) = IF UseBTB(e) THEN [BTB EXCEPT ![k] = new] ELSE BTB
    BY DEF TrainedBTB
  <2>2. k \in 0 .. BTB_SIZE - 1 => new \in [pred : Addresses, hyst : BOOLEAN]
    BY <1>1, <1>2 DEF Targets
  <2> HIDE DEF k, new
  <2> QED
    BY <1>1, <2>1, <2>2 DEF Targets
<1> QED
  BY <1>3, <1>4

LEMMA ClearedIs ==
  ASSUME NEW e \in Entry
  PROVE  Cleared(e) \in Entry /\ Cleared(e).history = e.history
<1>1. NoEntry \in Entry
  <2>1. 0 \in Addresses /\ 0 \in Histories /\ "jump" \in Kinds
    BY AddressesAre, Sizes DEF Histories, Kinds
  <2> QED
    BY <2>1 DEF NoEntry, Entry
<1> PICK n \in Entry : n = NoEntry
  BY <1>1
<1> QED
  BY DEF Entry, Cleared

(* The oldest leaves: every place is one nearer to the head.               *)
LEMMA VerifyInv ==
  ASSUME QueueInv, RASInv, VerifyPred
  PROVE  (QueueInv /\ RASInv)'
<1> PICK S : StacksAre(S)
  BY DEF RASInv
<1> PICK e : e = cti_Q[cti_head]
  OBVIOUS
<1> PICK n \in Nat : n = Len(flight)
  BY EntriesAre
<1>1. /\ flight \in Seq(InFlight) /\ flight # <<>> /\ n >= 1 /\ n <= MaxInFlight
      /\ cti_head \in Places /\ cti_Q \in [Places -> Entry] /\ e \in Entry
      /\ MaxInFlight \in Nat /\ MaxInFlight < CTIQ_SIZE /\ CTIQ_SIZE \in Nat
      /\ RAS \in Stack
  BY Sizes DEF QueueInv, Types, VerifyPred
<1>2. /\ pred_table' = TrainedTable(e) /\ BTB' = TrainedBTB(e)
      /\ RAS' = UpdatedRAS(RAS, e)
      /\ cti_Q' = [cti_Q EXCEPT ![cti_head] = Cleared(e)]
      /\ history' = IF Kind[flight[1].pc] = "cond"
                    THEN Shift(history, flight[1].c_next_pc # IncrementPC(flight[1].pc))
                    ELSE history
      /\ cti_head' = Wrap(cti_head + 1) /\ flight' = Tail(flight) /\ cti_tail' = cti_tail
      /\ flight[1].c_next_pc # Unknown
  BY DEF VerifyPred
<1>3. /\ flight' \in Seq(InFlight) /\ Len(flight') = n - 1
      /\ \A i \in 1 .. n - 1 : flight'[i] = flight[i + 1]
  BY <1>1, <1>2
<1>4. At(0) = e /\ Entries[1] = e /\ Matches(1)
  <2>1. cti_head + 0 = cti_head /\ Wrap(cti_head) = cti_head
    BY <1>1, WrapIs DEF Places
  <2>2. At(0) = e
    BY <2>1 DEF At
  <2>3. 1 \in 1 .. Len(flight) /\ 1 - 1 = 0
    BY <1>1
  <2>4. Entries[1] = At(0) /\ Matches(1)
    BY <2>3, EntriesAre
  <2> QED
    BY <2>2, <2>4
<1>5. ASSUME NEW i \in 0 .. n - 1
      PROVE  /\ Wrap(cti_head' + i) = Wrap(cti_head + (i + 1))
             /\ At(i)' = At(i + 1)
  <2>1. i + 1 \in Places /\ 0 \in Places /\ i \in Nat /\ i + 1 # 0
    BY <1>1 DEF Places
  <2>2. Wrap(Wrap(cti_head + 1) + i) = Wrap(cti_head + (i + 1))
    <3>1. PICK h \in Places : h = Wrap(cti_head + 1)
      BY <1>1, WrapIs DEF Places
    <3>2. h = IF cti_head + 1 < CTIQ_SIZE THEN cti_head + 1 ELSE cti_head + 1 - CTIQ_SIZE
      BY <1>1, <3>1, Sizes, WrapIs DEF Places
    <3>3. i \in Places
      BY <1>1, <2>1, Sizes DEF Places
    <3>4. Wrap(h + i) = IF h + i < CTIQ_SIZE THEN h + i ELSE h + i - CTIQ_SIZE
      BY <3>3, WrapAhead
    <3>5. Wrap(cti_head + (i + 1)) = IF cti_head + (i + 1) < CTIQ_SIZE THEN cti_head + (i + 1)
                                     ELSE cti_head + (i + 1) - CTIQ_SIZE
      BY <1>1, <2>1, WrapAhead
    <3> QED
      BY <1>1, <2>1, <3>1, <3>2, <3>4, <3>5 DEF Places
  <2>3. Wrap(cti_head + (i + 1)) # cti_head
    <3>1. Wrap(cti_head + 0) = cti_head
      BY <1>1, WrapIs DEF Places
    <3> QED
      BY <1>1, <2>1, <3>1, WrapInjective
  <2>4. Wrap(cti_head + (i + 1)) \in Places
    BY <1>1, <2>1, WrapIs DEF Places
  <2>5. cti_Q'[Wrap(cti_head + (i + 1))] = cti_Q[Wrap(cti_head + (i + 1))]
    BY <1>1, <1>2, <2>3, <2>4
  <2> QED
    BY <1>2, <2>2, <2>5 DEF At
<1>6. history' = At(1).history
  <2>1. /\ e.pc = flight[1].pc /\ e.kind = Kind[flight[1].pc] /\ e.target = flight[1].c_next_pc
        /\ IsCond(e) => (e.taken <=> e.target # IncrementPC(e.pc))
        /\ At(1).history = NextHistory(e) /\ e.history = history
    BY <1>2, <1>4 DEF Matches, Fits, Lead, QueueInv
  <2>2. CASE IsCond(e)
    <3>1. e.taken = (flight[1].c_next_pc # IncrementPC(flight[1].pc))
      BY <1>1, <2>1, <2>2 DEF Entry
    <3> QED
      BY <1>2, <2>1, <2>2, <3>1 DEF NextHistory, IsCond
  <2>3. CASE ~IsCond(e)
    BY <1>2, <2>1, <2>3 DEF NextHistory, IsCond
  <2> QED
    BY <2>2, <2>3
<1>7. Types'
  <2>1. cti_Q' \in [Places -> Entry]
    BY <1>1, <1>2, ClearedIs
  <2>2. cti_head' \in Places
    BY <1>1, <1>2, WrapIs DEF Places
  <2>3. RAS' \in Stack
    <3>1. PopFits(RAS, e)
      <4>1. 1 \in 1 .. Len(flight) /\ 1 - 1 = 0
        BY <1>1
      <4> QED
        BY <1>4, <4>1 DEF StacksAre, Leaves
    <3> QED
      BY <1>1, <1>2, <3>1, UpdatedIs
  <2>4. history' \in Histories
    <3>1. At(1) \in Entry
      BY <1>1, EntriesAre
    <3> QED
      BY <1>6, <3>1 DEF Entry
  <2>5. pred_table' \in Directions /\ BTB' \in Targets
    BY <1>1, <1>2, TrainedTypes DEF QueueInv
  <2>6. cti_tail' \in Places
    BY <1>2 DEF QueueInv, Types
  <2> QED
    BY <1>1, <1>3, <2>1, <2>2, <2>3, <2>4, <2>5, <2>6 DEF Types
<1>8. ASSUME NEW i \in 1 .. n - 1 PROVE Matches(i)'
  <2>1. i + 1 \in 1 .. Len(flight) /\ (i + 1) - 1 = i /\ i \in 0 .. n - 1
        /\ i - 1 \in 0 .. n - 1 /\ (i - 1) + 1 = i
    BY <1>1
  <2>2. Matches(i + 1)
    BY <2>1, EntriesAre
  <2>3. flight'[i] = flight[i + 1] /\ At(i - 1)' = At(i) /\ At(i)' = At(i + 1)
    BY <1>3, <1>5, <2>1
  <2>4. Wrap(cti_head' + (i - 1)) = Wrap(cti_head + i)
    BY <1>5, <2>1
  <2>5. /\ flight'[i].tag = Wrap(cti_head' + (i - 1))
        /\ Fits(flight'[i], At(i - 1)', At(i)'.history)
    BY <2>1, <2>2, <2>3, <2>4 DEF Matches
  <2> QED
    BY <2>5 DEF Matches, Fits, NextHistory, Lead, IsCond
<1>9. QueueInv'
  <2>1. 0 \in 0 .. n - 1 /\ 0 + 1 = 1 /\ n - 1 \in 0 .. n - 1 /\ (n - 1) + 1 = n
    BY <1>1
  <2>2. At(0)' = At(1)
    BY <1>5, <2>1
  <2>3. cti_tail' = Wrap(cti_head' + Len(flight'))
    BY <1>2, <1>3, <1>5, <2>1 DEF QueueInv
  <2> QED
    BY <1>3, <1>6, <1>7, <1>8, <2>2, <2>3 DEF QueueInv
<1>10. RASInv'
  <2> DEFINE R == [i \in 0 .. n - 1 |-> S[i + 1]]
  <2>1. /\ S \in [0 .. n -> Stack] /\ S[0] = RAS
        /\ \A i \in 1 .. n : S[i] = UpdatedRAS(S[i - 1], Entries[i]) /\ PopFits(S[i - 1], Entries[i])
    BY DEF StacksAre, Leaves
  <2>2. R \in [0 .. n - 1 -> Stack]
    BY <2>1
  <2>3. R[0] = RAS'
    <3>1. 1 \in 1 .. n /\ 1 - 1 = 0 /\ 0 \in 0 .. n - 1 /\ 0 + 1 = 1
      BY <1>1
    <3>2. S[1] = UpdatedRAS(RAS, e)
      BY <1>4, <2>1, <3>1
    <3> QED
      BY <1>2, <3>1, <3>2
  <2>4. ASSUME NEW i \in 1 .. n - 1
        PROVE  R[i] = UpdatedRAS(R[i - 1], Entries'[i]) /\ PopFits(R[i - 1], Entries'[i])
    <3>1. /\ i + 1 \in 1 .. n /\ (i + 1) - 1 = i /\ i - 1 \in 0 .. n - 1 /\ (i - 1) + 1 = i
          /\ i \in 0 .. n - 1
      BY <1>1
    <3>2. R[i] = S[i + 1] /\ R[i - 1] = S[i]
      BY <3>1
    <3>3. Entries'[i] = At(i - 1)' /\ At(i - 1)' = At(i)
      BY <1>3, <1>5, <3>1 DEF Entries
    <3>4. Entries[i + 1] = At(i)
      BY <3>1, EntriesAre
    <3>5. S[i + 1] = UpdatedRAS(S[i], Entries[i + 1]) /\ PopFits(S[i], Entries[i + 1])
      BY <2>1, <3>1
    <3> QED
      BY <3>2, <3>3, <3>4, <3>5
  <2> HIDE DEF R
  <2>5. StacksAre(R)'
    BY <1>3, <2>2, <2>3, <2>4 DEF StacksAre, Leaves, UpdatedRAS, PopFits
  <2> QED
    BY <2>5 DEF RASInv
<1> QED
  BY <1>9, <1>10

LEMMA FlushInv ==
  ASSUME QueueInv, RASInv, Flush
  PROVE  (QueueInv /\ RASInv)'
<1>1. /\ cti_tail' = cti_head /\ flight' = <<>>
      /\ UNCHANGED <<cti_Q, cti_head, RAS, pred_table, BTB, history>>
  BY DEF Flush
<1>2. cti_head \in Places /\ Wrap(cti_head + 0) = cti_head /\ cti_head \in Int
  BY WrapIs DEF QueueInv, Types, Places
<1>3. At(0)' = At(0)
  BY <1>1 DEF At
<1>4. Types'
  BY <1>1, Sizes DEF QueueInv, Types
<1>5. QueueInv'
  BY <1>1, <1>2, <1>3, <1>4 DEF QueueInv
<1>6. StacksAre([i \in 0 .. 0 |-> RAS])'
  BY <1>1 DEF StacksAre, Leaves, QueueInv, Types
<1> QED
  BY <1>5, <1>6 DEF RASInv

LEMMA NextInv == QueueInv /\ RASInv /\ [Next]_vars => (QueueInv /\ RASInv)'
<1> SUFFICES ASSUME QueueInv, RASInv, [Next]_vars
             PROVE  (QueueInv /\ RASInv)'
  OBVIOUS
<1>1. ASSUME NEW p \in CTIs, GetPred(p) PROVE (QueueInv /\ RASInv)'
  BY <1>1, PredictInv
<1>2. ASSUME NEW i \in 1 .. MaxInFlight, ResolveCorrect(i) PROVE (QueueInv /\ RASInv)'
  BY <1>2, ResolveInv
<1>3. ASSUME NEW i \in 1 .. MaxInFlight, FixPred(i) PROVE (QueueInv /\ RASInv)'
  BY <1>3, FixInv
<1>4. CASE VerifyPred
  BY <1>4, VerifyInv
<1>5. CASE Flush
  BY <1>5, FlushInv
<1>6. CASE UNCHANGED vars
  <2>1. QueueInv'
    BY <1>6 DEF vars, QueueInv, Types, At, Matches, Fits, NextHistory, Lead
  <2>2. Entries' = Entries /\ flight' = flight /\ RAS' = RAS
    BY <1>6 DEF vars, Entries, At
  <2>3. PICK S : StacksAre(S)
    BY DEF RASInv
  <2>4. StacksAre(S)'
    BY <2>2, <2>3 DEF StacksAre, Leaves, UpdatedRAS, PopFits
  <2>5. RASInv'
    BY <2>4 DEF RASInv
  <2> QED
    BY <2>1, <2>5
<1> QED
  BY <1>1, <1>2, <1>3, <1>4, <1>5, <1>6 DEF Next

-----------------------------------------------------------------------------
(* What it says of the properties.                                         *)

LEMMA QueueIsExact == QueueInv => QueueExact
<1> SUFFICES ASSUME QueueInv PROVE QueueExact
  OBVIOUS
<1>1. TypeOK
  BY DEF QueueInv, Types, TypeOK, Places, Entry, Histories, Directions, Targets
<1>2. Wrap(cti_tail - cti_head) = Len(flight)
  <2>1. Len(flight) \in Places /\ 0 \in 0 .. Len(flight) /\ cti_head \in Places
    BY EntriesAre DEF QueueInv, Types
  <2> QED
    BY <2>1, WrapBack DEF QueueInv
<1>3. ASSUME NEW i \in DOMAIN flight
      PROVE  LET e == cti_Q[flight[i].tag]
             IN  /\ flight[i].tag = Wrap(cti_head + i - 1)
                 /\ e.pc = flight[i].pc /\ e.state = 1
                 /\ e.original_pred = flight[i].next_pc
                 /\ e.target = IF flight[i].c_next_pc = Unknown THEN flight[i].next_pc
                                                                ELSE flight[i].c_next_pc
  <2>1. i \in 1 .. Len(flight) /\ cti_head + i - 1 = cti_head + (i - 1)
    BY DEF QueueInv, Types, Places
  <2>2. Matches(i)
    BY <2>1, EntriesAre
  <2> QED
    BY <2>1, <2>2 DEF Matches, Fits, Lead, At
<1> QED
  BY <1>1, <1>2, <1>3 DEF QueueExact

LEMMA HistoryIsExact == QueueInv => HistoryExact
<1> SUFFICES ASSUME QueueInv PROVE HistoryExact
  OBVIOUS
<1>1. cti_Q[Wrap(cti_head + 0)].history = history
  BY DEF QueueInv, At
<1>2. ASSUME NEW i \in DOMAIN flight
      PROVE  At(i).history =
               IF Kind[flight[i].pc] = "cond"
               THEN Shift(At(i - 1).history, Lead(flight[i]) # IncrementPC(flight[i].pc))
               ELSE At(i - 1).history
  <2>1. i \in 1 .. Len(flight) /\ i - 1 \in 0 .. Len(flight)
    BY EntriesAre DEF QueueInv, Types
  <2>2. Matches(i) /\ At(i - 1) \in Entry
    BY <2>1, EntriesAre
  <2> PICK e \in Entry : e = At(i - 1)
    BY <2>2
  <2>3. Fits(flight[i], e, At(i).history)
    BY <2>2 DEF Matches
  <2>4. CASE IsCond(e)
    <3>1. e.taken = (Lead(flight[i]) # IncrementPC(flight[i].pc))
      BY <2>3, <2>4 DEF Fits, Entry
    <3> QED
      BY <2>3, <2>4, <3>1 DEF Fits, NextHistory, IsCond
  <2>5. CASE ~IsCond(e)
    BY <2>3, <2>5 DEF Fits, NextHistory, IsCond
  <2> QED
    BY <2>4, <2>5
<1> QED
  BY <1>1, <1>2 DEF HistoryExact, At, Lead

LEMMA TrainingIsRight == QueueInv => TrainsWhatPredicted
<1> SUFFICES ASSUME QueueInv, NEW i \in DOMAIN flight
             PROVE  TableIndex(cti_Q[flight[i].tag].history, cti_Q[flight[i].tag].pc) = flight[i].index
  BY DEF TrainsWhatPredicted
<1>1. i \in 1 .. Len(flight)
  BY DEF QueueInv, Types
<1>2. Matches(i)
  BY <1>1, EntriesAre
<1> QED
  BY <1>2 DEF Matches, Fits, At

LEMMA StacksIs ==
  ASSUME QueueInv, NEW S, StacksAre(S)
  PROVE  Stacks = S
<1> DEFINE Made(f) == f = [i \in 0 .. Len(flight) |->
                             IF i = 0 THEN RAS ELSE UpdatedRAS(f[i - 1], cti_Q[flight[i].tag])]
<1>1. Len(flight) \in Nat
  BY EntriesAre
<1>2. \A i \in 1 .. Len(flight) : Entries[i] = cti_Q[flight[i].tag]
  BY EntriesAre DEF Matches, At
<1>3. Made(S)
  <2>1. /\ S \in [0 .. Len(flight) -> Stack] /\ S[0] = RAS
        /\ \A i \in 1 .. Len(flight) : S[i] = UpdatedRAS(S[i - 1], cti_Q[flight[i].tag])
    BY <1>2 DEF StacksAre, Leaves
  <2>2. \A i \in 0 .. Len(flight) : i = 0 \/ i \in 1 .. Len(flight)
    BY <1>1
  <2> QED
    BY <2>1, <2>2
<1>4. Stacks = CHOOSE f : Made(f)
  BY DEF Stacks
<1>5. Made(Stacks)
  <2> HIDE DEF Made
  <2> QED
    BY <1>3, <1>4
<1> DEFINE G == {i \in 0 .. Len(flight) : Stacks[i] = S[i]}
<1>6. \A i \in 0 .. Len(flight) : i \in G
  <2>1. 0 \in G
    BY <1>1, <1>3, <1>5
  <2>2. ASSUME NEW i \in 0 .. Len(flight) - 1, i \in G PROVE i + 1 \in G
    <3>1. i + 1 \in 0 .. Len(flight) /\ i + 1 # 0 /\ (i + 1) - 1 = i
      BY <1>1
    <3>2. Stacks[i + 1] = UpdatedRAS(Stacks[i], cti_Q[flight[i + 1].tag])
      BY <1>5, <3>1
    <3>3. S[i + 1] = UpdatedRAS(S[i], cti_Q[flight[i + 1].tag])
      BY <1>3, <3>1
    <3> QED
      BY <2>2, <3>1, <3>2, <3>3
  <2> HIDE DEF G
  <2> QED
    BY <1>1, <2>1, <2>2, UpTo
<1> QED
  BY <1>3, <1>5, <1>6

LEMMA LookupIsRight == QueueInv /\ RASInv => LookupIsTopOfStack
<1> SUFFICES ASSUME QueueInv, RASInv, NEW i \in 0 .. Len(flight)
             PROVE  RAS_lookup(Wrap(cti_head + i)) = Top(Stacks[i])
  BY DEF LookupIsTopOfStack, Top
<1> PICK S : StacksAre(S)
  BY DEF RASInv
<1> QED
  BY StacksIs, LookupIsTop

LEMMA VerifyIsRight == QueueInv /\ RASInv => VerifyAssertions
<1> SUFFICES ASSUME QueueInv, RASInv, flight # <<>>, flight[1].c_next_pc # Unknown
             PROVE  LET e == cti_Q[cti_head]
                    IN /\ flight[1].tag = cti_head
                       /\ e.state = 1
                       /\ e.target = flight[1].c_next_pc
                       /\ e.RAS_action = -1 /\ ~e.flush_RAS => RAS # <<>> /\ RAS[1] = e.RAS_address
  BY DEF VerifyAssertions
<1> PICK S : StacksAre(S)
  BY DEF RASInv
<1>1. 1 \in 1 .. Len(flight) /\ 1 - 1 = 0
  BY DEF QueueInv, Types
<1>2. Wrap(cti_head + 0) = cti_head
  BY WrapIs DEF QueueInv, Types, Places
<1>3. Matches(1) /\ Entries[1] = At(0) /\ At(0) = cti_Q[cti_head]
  BY <1>1, <1>2, EntriesAre DEF At
<1>4. PopFits(RAS, cti_Q[cti_head])
  BY <1>1, <1>3 DEF StacksAre, Leaves
<1> QED
  BY <1>1, <1>2, <1>3, <1>4 DEF Matches, Fits, Lead, PopFits

-----------------------------------------------------------------------------
(* Theorems.                                                               *)

LEMMA Invariant == Spec => [](QueueInv /\ RASInv)
BY InitInv, NextInv, PTL DEF Spec

(* cti_Q holds exactly the predictions in flight, each at its tag, whatever *)
(* was repaired, retired or flushed before, though nothing in the code      *)
(* tests whether the queue is full (get_pred, fix_pred, verify_pred and     *)
(* flush in bpred_interface.cc); and every variable stays in its domain.    *)
THEOREM BranchPredictorQueue == Spec => []QueueExact
BY Invariant, QueueIsExact, PTL

(* The histories that the queue holds are those of the path, through every  *)
(* repair and flush (update in bpred_interface.cc).                         *)
THEOREM BranchPredictorHistory == Spec => []HistoryExact
BY Invariant, HistoryIsExact, PTL

(* RAS_lookup(), counting calls and returns backwards through the queue and *)
(* then down the committed stack, finds the top of the stack that the older *)
(* predictions leave, from the tail and from every entry.                   *)
THEOREM BranchPredictorLookup == Spec => []LookupIsTopOfStack
BY Invariant, LookupIsRight, PTL

(* update_predictions() trains the entry of the table that make_predictions *)
(* read.                                                                    *)
THEOREM BranchPredictorTraining == Spec => []TrainsWhatPredicted
BY Invariant, TrainingIsRight, PTL

(* The asserts of verify_pred() and RAS_update(): the tag is the head, the  *)
(* entry holds where the instruction led, and a pop finds on the committed  *)
(* stack the address it was predicted with.                                 *)
THEOREM BranchPredictorVerify == Spec => []VerifyAssertions
BY Invariant, VerifyIsRight, PTL
=============================================================================
