----------------------------- MODULE LSUProofs -----------------------------
(***************************************************************************)
(* Theorems about LSU.tla, for every size of the queues and of the window  *)
(* and every program.                                                      *)
(***************************************************************************)
EXTENDS LSU, FiniteSetTheorems, SequenceTheorems, WellFoundedInduction, TLAPS

-----------------------------------------------------------------------------
(* How many instructions of a kind come before a place of the window.      *)

LEMMA RankType ==
  ASSUME NEW w, NEW k \in Nat, NEW kind
  PROVE  IsFiniteSet(Earlier(w, k, kind)) /\ Rank(w, k, kind) \in Nat
<1>1. IsFiniteSet(1 .. k - 1)
  BY FS_Interval
<1>2. Earlier(w, k, kind) \in SUBSET (1 .. k - 1)
  BY DEF Earlier
<1>3. IsFiniteSet(Earlier(w, k, kind))
  BY <1>1, <1>2, FS_Subset
<1> QED
  BY <1>3, FS_CardinalityType DEF Rank

LEMMA RankFirst ==
  ASSUME NEW w, NEW kind
  PROVE  Rank(w, 1, kind) = 0
<1>1. Earlier(w, 1, kind) = {}
  BY DEF Earlier
<1> QED
  BY <1>1, FS_EmptySet DEF Rank

LEMMA RankStep ==
  ASSUME NEW w, NEW k \in Nat \ {0}, NEW kind
  PROVE  Rank(w, k + 1, kind) = Rank(w, k, kind) + (IF w[k].kind = kind THEN 1 ELSE 0)
<1>1. IsFiniteSet(Earlier(w, k, kind)) /\ k \notin Earlier(w, k, kind)
  BY RankType DEF Earlier
<1>2. CASE w[k].kind = kind
  <2>1. Earlier(w, k + 1, kind) = Earlier(w, k, kind) \cup {k}
    BY <1>2 DEF Earlier
  <2> QED
    BY <2>1, <1>1, <1>2, FS_AddElement DEF Rank
<1>3. CASE w[k].kind # kind
  <2>1. Earlier(w, k + 1, kind) = Earlier(w, k, kind)
    BY <1>3 DEF Earlier
  <2> QED
    BY <2>1, <1>3, RankType DEF Rank
<1> QED
  BY <1>2, <1>3

LEMMA RankSame ==
  ASSUME NEW w, NEW u, NEW k \in Nat, NEW kind,
         \A j \in 1 .. k - 1 : w[j].kind = u[j].kind
  PROVE  Rank(w, k, kind) = Rank(u, k, kind)
<1>1. Earlier(w, k, kind) = Earlier(u, k, kind)
  BY DEF Earlier
<1> QED
  BY <1>1 DEF Rank

LEMMA RankMonotone ==
  ASSUME NEW w, NEW j \in Nat, NEW k \in Nat, j <= k, NEW kind
  PROVE  Rank(w, j, kind) <= Rank(w, k, kind)
<1>1. Earlier(w, j, kind) \in SUBSET Earlier(w, k, kind)
  BY DEF Earlier
<1> QED
  BY <1>1, RankType, FS_Subset DEF Rank

LEMMA RankAppendPrefix ==
  ASSUME NEW S, NEW w \in Seq(S), NEW x \in S, NEW kind
  PROVE  \A k \in 1 .. Len(w) + 1 : Rank(Append(w, x), k, kind) = Rank(w, k, kind)
<1> TAKE k \in 1 .. Len(w) + 1
<1>1. k \in Nat /\ \A j \in 1 .. k - 1 : Append(w, x)[j] = w[j]
  BY AppendProperties, LenProperties
<1>2. \A j \in 1 .. k - 1 : Append(w, x)[j].kind = w[j].kind
  BY <1>1
<1> DEFINE u == Append(w, x)
<1>3. k \in Nat /\ \A j \in 1 .. k - 1 : u[j].kind = w[j].kind
  BY <1>1, <1>2
<1> HIDE DEF u
<1>4. Rank(u, k, kind) = Rank(w, k, kind)
  <2>1. Earlier(u, k, kind) = Earlier(w, k, kind)
    BY <1>3 DEF Earlier
  <2> QED
    BY <2>1 DEF Rank
<1> QED
  BY <1>4 DEF u

LEMMA RankAppend ==
  ASSUME NEW S, NEW w \in Seq(S), NEW x \in S, NEW kind
  PROVE  Rank(Append(w, x), Len(Append(w, x)) + 1, kind)
           = Rank(w, Len(w) + 1, kind) + (IF x.kind = kind THEN 1 ELSE 0)
<1> DEFINE u == Append(w, x)
           m == Len(w) + 1
<1>1. m \in Nat \ {0} /\ Len(u) = m /\ u[m] = x
  BY AppendProperties, LenProperties
<1>2. Rank(u, m + 1, kind) = Rank(u, m, kind) + (IF u[m].kind = kind THEN 1 ELSE 0)
  BY <1>1, RankStep
<1>3. Rank(u, m, kind) = Rank(w, m, kind)
  BY <1>1, RankAppendPrefix
<1> QED
  BY <1>1, <1>2, <1>3

LEMMA RankTail ==
  ASSUME NEW S, NEW w \in Seq(S), w # <<>>, NEW k \in 1 .. Len(w), NEW kind
  PROVE  Rank(w, k + 1, kind) = Rank(Tail(w), k, kind) + (IF Head(w).kind = kind THEN 1 ELSE 0)
<1> DEFINE A == Earlier(w, k + 1, kind)
           B == Earlier(Tail(w), k, kind)
           f == [j \in B |-> j + 1]
<1>1. /\ Len(w) \in Nat \ {0} /\ \A j \in 1 .. Len(w) - 1 : Tail(w)[j] = w[j + 1]
      /\ Head(w) = w[1]
  BY HeadTailProperties, LenProperties, EmptySeq
<1>2. k \in Nat /\ k >= 1 /\ k <= Len(w)
  BY <1>1
<1>3. IsFiniteSet(A) /\ IsFiniteSet(B) /\ Cardinality(A) \in Nat /\ Cardinality(B) \in Nat
  BY <1>2, RankType DEF Rank
<1>4. \A j \in 1 .. k - 1 : Tail(w)[j] = w[j + 1]
  BY <1>1, <1>2
<1>5. f \in Bijection(B, A \ {1})
  <2>1. f \in [B -> A \ {1}]
    BY <1>2, <1>4 DEF Earlier
  <2>2. \A x, y \in B : f[x] = f[y] => x = y
    BY <1>2 DEF Earlier
  <2>3. \A y \in A \ {1} : \E x \in B : f[x] = y
    <3> TAKE y \in A \ {1}
    <3>1. y - 1 \in B
      BY <1>2, <1>4 DEF Earlier
    <3>2. y \in Nat
      BY <1>2 DEF Earlier
    <3> QED
      BY <3>1, <3>2
  <2> QED
    BY <2>1, <2>2, <2>3 DEF Bijection, Injection, Surjection, IsInjective
<1>6. Cardinality(A \ {1}) = Cardinality(B)
  BY <1>3, <1>5, FS_Bijection DEF ExistsBijection
<1>7. Cardinality(A \ {1}) = IF 1 \in A THEN Cardinality(A) - 1 ELSE Cardinality(A)
  BY <1>3, FS_RemoveElement
<1>8. 1 \in A <=> Head(w).kind = kind
  BY <1>1, <1>2 DEF Earlier
<1> QED
  BY <1>3, <1>6, <1>7, <1>8 DEF Rank

-----------------------------------------------------------------------------
(* The operations on a ring, whatever its entries are.                     *)

LEMMA NamesPop ==
  ASSUME NEW n \in Nat \ {0}, NEW E, NEW q \in Ring(0 .. n - 1, E, n),
         NEW i, NEW p, NEW r \in 1 .. n, Names(i, p, q, n, r)
  PROVE  Names(i, p, Pop(q, n), n, r - 1)
BY DEF Names, Pop, Ring, MOD_S, Phase

LEMMA NamesPush ==
  ASSUME NEW n \in Nat \ {0}, NEW E, NEW q \in Ring(0 .. n - 1, E, n), q.length < n,
         NEW e \in E, Names(q.tail, q.tail_phase, q, n, q.length)
  PROVE  Names(Push(q, n, e).tail, Push(q, n, e).tail_phase, q, n, q.length + 1)
BY DEF Names, Push, Ring, MOD_S, Phase

LEMMA HoldsPop ==
  ASSUME NEW n \in Nat \ {0}, NEW h \in 0 .. n - 1, NEW i \in 0 .. n - 1, NEW len \in 1 .. n
  PROVE  MOD_S(n + i - MOD_S(h + 1, n), n) < len - 1
           <=> i # h /\ MOD_S(n + i - h, n) < len
BY DEF MOD_S

LEMMA DistanceIsRank ==
  ASSUME NEW n \in Nat \ {0}, NEW E, NEW q \in Ring(0 .. n - 1, E, n),
         NEW i, NEW p, NEW r \in 0 .. n, Names(i, p, q, n, r)
  PROVE  Distance(q.head, q.head_phase, i, p, n) = r
BY DEF Names, Distance, Ring, MOD_S, Phase

-----------------------------------------------------------------------------
(* What each operation does to a ring that holds exactly the instructions  *)
(* of its kind.                                                            *)

SamePlaces(a, b, len) == \A k \in 1 .. len : a[k] = b[k]
SameKinds(u, w, len)  == \A k \in 1 .. len : u[k].kind = w[k].kind
EntriesOf(E) ==
  \A e \in E, b \in BOOLEAN :
     [e EXCEPT !.valid = b] \in E /\ [e EXCEPT !.valid = b].valid = b

LEMMA NextPlace == \A n \in Nat \ {0} : \A h \in 0 .. n - 1 : MOD_S(h + 1, n) \in 0 .. n - 1
BY DEF MOD_S

LEMMA AtTail ==
  ASSUME NEW n \in Nat \ {0}, NEW h \in 0 .. n - 1, NEW l \in 0 .. n - 1
  PROVE  MOD_S(n + MOD_S(h + l, n) - h, n) < l + 1
<1>1. CASE h + l >= n
  BY <1>1 DEF MOD_S
<1>2. CASE ~(h + l >= n)
  BY <1>2 DEF MOD_S
<1> QED
  BY <1>1, <1>2

LEMMA BehindTail ==
  ASSUME NEW n \in Nat \ {0}, NEW h \in 0 .. n - 1, NEW l \in 0 .. n - 1, NEW i \in 0 .. n - 1,
         i # MOD_S(h + l, n)
  PROVE  MOD_S(n + i - h, n) < l + 1 <=> MOD_S(n + i - h, n) < l
BY DEF MOD_S

LEMMA RingAfterPush ==
  ASSUME NEW n \in Nat \ {0}, NEW E, NEW q \in Ring(0 .. n - 1, E, n), q.length < n,
         NEW e \in E, e.valid = TRUE,
         NEW S, NEW w \in Seq(S), NEW x \in S, NEW kind, x.kind = kind,
         NEW places, NEW places2, RingExact(q, n, w, kind, places),
         \A k \in 1 .. Len(w) : places2[k] = places[k],
         places2[Len(w) + 1] = <<q.tail, q.tail_phase>>
  PROVE  /\ Push(q, n, e) \in Ring(0 .. n - 1, E, n)
         /\ RingExact(Push(q, n, e), n, Append(w, x), kind, places2)
<1> DEFINE p == Push(q, n, e)
           u == Append(w, x)
<1>1. /\ Len(w) \in Nat /\ DOMAIN w = 1 .. Len(w)
      /\ u \in Seq(S) /\ Len(u) = Len(w) + 1 /\ DOMAIN u = 1 .. Len(w) + 1
      /\ \A k \in 1 .. Len(w) : u[k] = w[k]
      /\ u[Len(w) + 1] = x
  BY AppendProperties, LenProperties
<1>2. p \in Ring(0 .. n - 1, E, n)
  <2>1. p.buf \in [0 .. n - 1 -> E] /\ p.head \in 0 .. n - 1 /\ p.head_phase \in Phase
    BY DEF Push, Ring
  <2>2. p.tail \in 0 .. n - 1 /\ p.tail_phase \in Phase /\ p.length \in 0 .. n
    BY DEF Push, Ring, MOD_S, Phase
  <2> QED
    BY <2>1, <2>2 DEF Push, Ring
<1>3. p.head = q.head /\ p.head_phase = q.head_phase /\ p.length = q.length + 1
  BY DEF Push, Ring
<1>4. \A k \in 1 .. Len(w) + 1 : Rank(u, k, kind) = Rank(w, k, kind)
  BY RankAppendPrefix
<1>5. Rank(u, Len(u) + 1, kind) = Rank(w, Len(w) + 1, kind) + 1
  BY RankAppend
<1>6. p.length = Rank(u, Len(u) + 1, kind)
  BY <1>3, <1>5 DEF RingExact
<1>7. Names(p.tail, p.tail_phase, p, n, p.length)
  BY <1>3, NamesPush DEF RingExact, Names
<1>8. ASSUME NEW k \in DOMAIN u
      PROVE  Names(places2[k][1], places2[k][2], p, n, Rank(u, k, kind))
  <2>1. CASE k \in 1 .. Len(w)
    BY <2>1, <1>1, <1>3, <1>4 DEF RingExact, Names
  <2>2. CASE k = Len(w) + 1
    BY <2>2, <1>1, <1>3, <1>4 DEF RingExact, Names
  <2> QED
    BY <2>1, <2>2, <1>1
<1>9. ASSUME NEW i \in 0 .. n - 1
      PROVE  p.buf[i].valid <=> Holds(p, n, i)
  <2>1. Names(q.tail, q.tail_phase, q, n, q.length) /\ (q.buf[i].valid <=> Holds(q, n, i))
    BY DEF RingExact
  <2>2. CASE i = q.tail
    <3>1. p.buf[i] = e
      BY <2>2 DEF Push, Ring
    <3>2. Holds(p, n, i)
      <4>1. /\ i = MOD_S(q.head + q.length, n) /\ q.head \in 0 .. n - 1 /\ q.length \in 0 .. n - 1
            /\ p.head = q.head /\ p.length = q.length + 1
        BY <2>1, <2>2, <1>3 DEF Names, Ring
      <4> HIDE DEF p
      <4>2. MOD_S(n + i - q.head, n) < q.length + 1
        BY <4>1, AtTail
      <4> QED
        BY <4>1, <4>2 DEF Holds
    <3> QED
      BY <3>1, <3>2
  <2>3. CASE i # q.tail
    <3>1. p.buf[i] = q.buf[i]
      BY <2>3 DEF Push, Ring
    <3>2. Holds(p, n, i) <=> Holds(q, n, i)
      <4>1. /\ q.tail = MOD_S(q.head + q.length, n) /\ q.head \in 0 .. n - 1
            /\ q.length \in 0 .. n - 1 /\ p.head = q.head /\ p.length = q.length + 1
        BY <2>1, <1>3 DEF Names, Ring
      <4>2. /\ Holds(p, n, i) <=> MOD_S(n + i - q.head, n) < q.length + 1
            /\ Holds(q, n, i) <=> MOD_S(n + i - q.head, n) < q.length
        BY <4>1 DEF Holds
      <4>3. i # MOD_S(q.head + q.length, n)
        BY <4>1, <2>3
      <4>4. MOD_S(n + i - q.head, n) < q.length + 1 <=> MOD_S(n + i - q.head, n) < q.length
        BY <4>1, <4>3, BehindTail
      <4> QED
        BY <4>2, <4>4
    <3> QED
      BY <3>1, <3>2, <2>1
  <2> QED
    BY <2>2, <2>3
<1> QED
  BY <1>2, <1>6, <1>7, <1>8, <1>9 DEF RingExact

LEMMA RingAfterOtherAppend ==
  ASSUME NEW n \in Nat \ {0}, NEW E, NEW q \in Ring(0 .. n - 1, E, n),
         NEW S, NEW w \in Seq(S), NEW x \in S, NEW kind, x.kind # kind,
         NEW places, NEW places2, RingExact(q, n, w, kind, places),
         \A k \in 1 .. Len(w) : places2[k] = places[k],
         places2[Len(w) + 1] = <<q.tail, q.tail_phase>>
  PROVE  RingExact(q, n, Append(w, x), kind, places2)
<1> DEFINE u == Append(w, x)
<1>1. /\ Len(w) \in Nat /\ DOMAIN w = 1 .. Len(w)
      /\ u \in Seq(S) /\ Len(u) = Len(w) + 1 /\ DOMAIN u = 1 .. Len(w) + 1
      /\ \A k \in 1 .. Len(w) : u[k] = w[k]
      /\ u[Len(w) + 1] = x
  BY AppendProperties, LenProperties
<1>2. \A k \in 1 .. Len(w) + 1 : Rank(u, k, kind) = Rank(w, k, kind)
  BY RankAppendPrefix
<1>3. Rank(u, Len(u) + 1, kind) = Rank(w, Len(w) + 1, kind)
  BY <1>1, RankAppend, RankType
<1>4. ASSUME NEW k \in DOMAIN u
      PROVE  Names(places2[k][1], places2[k][2], q, n, Rank(u, k, kind))
  <2>1. CASE k \in 1 .. Len(w)
    BY <2>1, <1>1, <1>2 DEF RingExact
  <2>2. CASE k = Len(w) + 1
    BY <2>2, <1>1, <1>2 DEF RingExact
  <2> QED
    BY <2>1, <2>2, <1>1
<1> QED
  BY <1>3, <1>4 DEF RingExact

LEMMA RingAfterPop ==
  ASSUME NEW n \in Nat \ {0}, NEW E, NEW q \in Ring(0 .. n - 1, E, n),
         EntriesOf(E),
         NEW S, NEW w \in Seq(S), w # <<>>, NEW kind, Head(w).kind = kind,
         NEW places, NEW places2, RingExact(q, n, w, kind, places),
         \A k \in 1 .. Len(w) - 1 : places2[k] = places[k + 1]
  PROVE  /\ Pop(q, n) \in Ring(0 .. n - 1, E, n)
         /\ RingExact(Pop(q, n), n, Tail(w), kind, places2)
<1> DEFINE p == Pop(q, n)
           u == Tail(w)
<1>1. /\ Len(w) \in Nat \ {0} /\ DOMAIN w = 1 .. Len(w)
      /\ u \in Seq(S) /\ Len(u) = Len(w) - 1 /\ DOMAIN u = 1 .. Len(w) - 1
  BY HeadTailProperties, LenProperties, EmptySeq
<1>2. \A k \in 1 .. Len(w) : Rank(u, k, kind) \in Nat /\ Rank(w, k + 1, kind) = Rank(u, k, kind) + 1
  BY RankTail, RankType
<1>3. q.length = Rank(w, Len(w) + 1, kind) /\ q.length \in 1 .. n
  <2>1. Rank(w, Len(w) + 1, kind) \in Nat /\ Rank(w, Len(w) + 1, kind) >= 1
    BY <1>1, <1>2
  <2>2. q.length = Rank(w, Len(w) + 1, kind) /\ q.length \in 0 .. n
    BY DEF RingExact, Ring
  <2> QED
    BY <2>1, <2>2
<1>4. p \in Ring(0 .. n - 1, E, n)
  <2>1. p.buf \in [0 .. n - 1 -> E]
    BY DEF Pop, Ring, EntriesOf
  <2>a. /\ p.head = MOD_S(q.head + 1, n) /\ p.length = q.length - 1
        /\ p.head_phase = IF p.head = 0 THEN 1 - q.head_phase ELSE q.head_phase
    BY DEF Pop, Ring
  <2>b. q.head \in 0 .. n - 1 /\ q.head_phase \in Phase
    BY DEF Ring
  <2>c. MOD_S(q.head + 1, n) \in 0 .. n - 1
    BY <2>b, NextPlace
  <2>d. p.head_phase \in Phase
    BY <2>a, <2>b DEF Phase
  <2>e. p.length \in 0 .. n
    BY <2>a, <1>3
  <2>2. p.head \in 0 .. n - 1 /\ p.head_phase \in Phase /\ p.length \in 0 .. n
    BY <2>a, <2>c, <2>d, <2>e
  <2>3. p.tail \in 0 .. n - 1 /\ p.tail_phase \in Phase
    BY DEF Pop, Ring
  <2> QED
    BY <2>1, <2>2, <2>3 DEF Pop, Ring
<1>5. p.tail = q.tail /\ p.tail_phase = q.tail_phase /\ p.length = q.length - 1
  BY DEF Pop, Ring
<1>6. p.length = Rank(u, Len(u) + 1, kind)
  BY <1>1, <1>2, <1>3, <1>5
<1>7. Names(p.tail, p.tail_phase, p, n, p.length)
  BY <1>3, <1>5, NamesPop DEF RingExact
<1>8. ASSUME NEW k \in DOMAIN u
      PROVE  Names(places2[k][1], places2[k][2], p, n, Rank(u, k, kind))
  <2>1. k + 1 \in DOMAIN w /\ k \in 1 .. Len(w) /\ places2[k] = places[k + 1]
    BY <1>1
  <2>2. Rank(w, k + 1, kind) \in 1 .. n
    <3>1. Rank(w, k + 1, kind) <= Rank(w, Len(w) + 1, kind)
      BY <2>1, <1>1, RankMonotone
    <3> QED
      BY <3>1, <2>1, <1>2, <1>3
  <2>3. Names(places[k + 1][1], places[k + 1][2], p, n, Rank(w, k + 1, kind) - 1)
    BY <2>1, <2>2, NamesPop DEF RingExact
  <2> QED
    BY <2>1, <2>3, <1>2
<1>9. ASSUME NEW i \in 0 .. n - 1
      PROVE  p.buf[i].valid <=> Holds(p, n, i)
  <2>1. q.buf[i].valid <=> Holds(q, n, i)
    BY DEF RingExact
  <2>2. p.head = MOD_S(q.head + 1, n)
    BY DEF Pop, Ring
  <2>3. CASE i = q.head
    <3>1. p.buf[i].valid = FALSE
      BY <2>3 DEF Pop, Ring, EntriesOf
    <3>2. ~(MOD_S(n + i - MOD_S(i + 1, n), n) < q.length - 1)
      BY <1>3 DEF MOD_S
    <3>3. ~Holds(p, n, i)
      BY <3>2, <2>2, <2>3, <1>5 DEF Holds
    <3> QED
      BY <3>1, <3>3
  <2>4. CASE i # q.head
    <3>1. p.buf[i] = q.buf[i]
      BY <2>4 DEF Pop, Ring
    <3>2. q.head \in 0 .. n - 1
      BY DEF Ring
    <3>3. MOD_S(n + i - MOD_S(q.head + 1, n), n) < q.length - 1
            <=> MOD_S(n + i - q.head, n) < q.length
      BY <3>2, <2>4, <1>3, HoldsPop
    <3>4. Holds(p, n, i) <=> Holds(q, n, i)
      BY <3>3, <2>2, <1>5 DEF Holds
    <3> QED
      BY <3>1, <3>4, <2>1
  <2> QED
    BY <2>3, <2>4
<1> QED
  BY <1>4, <1>6, <1>7, <1>8, <1>9 DEF RingExact

LEMMA RingAfterOtherTail ==
  ASSUME NEW n \in Nat \ {0}, NEW q,
         NEW S, NEW w \in Seq(S), w # <<>>, NEW kind, Head(w).kind # kind,
         NEW places, NEW places2, RingExact(q, n, w, kind, places),
         \A k \in 1 .. Len(w) - 1 : places2[k] = places[k + 1]
  PROVE  RingExact(q, n, Tail(w), kind, places2)
<1> DEFINE u == Tail(w)
<1>1. /\ Len(w) \in Nat \ {0} /\ DOMAIN w = 1 .. Len(w)
      /\ u \in Seq(S) /\ Len(u) = Len(w) - 1 /\ DOMAIN u = 1 .. Len(w) - 1
  BY HeadTailProperties, LenProperties, EmptySeq
<1>2. \A k \in 1 .. Len(w) : Rank(u, k, kind) \in Nat /\ Rank(w, k + 1, kind) = Rank(u, k, kind)
  BY RankTail, RankType
<1>3. Rank(u, Len(u) + 1, kind) = Rank(w, Len(w) + 1, kind)
  BY <1>1, <1>2
<1>4. ASSUME NEW k \in DOMAIN u
      PROVE  Names(places2[k][1], places2[k][2], q, n, Rank(u, k, kind))
  <2>1. k + 1 \in DOMAIN w /\ k \in 1 .. Len(w) /\ places2[k] = places[k + 1]
    BY <1>1
  <2> QED
    BY <2>1, <1>2 DEF RingExact
<1> QED
  BY <1>3, <1>4 DEF RingExact

(* Recovery keeps the first k instructions, the k-th being the branch.     *)
LEMMA RingAfterRestore ==
  ASSUME NEW n \in Nat \ {0}, NEW E, NEW q \in Ring(0 .. n - 1, E, n),
         EntriesOf(E),
         NEW S, NEW w \in Seq(S), NEW k \in 1 .. Len(w), NEW kind, w[k].kind # kind,
         NEW u \in Seq(S), Len(u) = k, SameKinds(u, w, k),
         NEW places, NEW places2, RingExact(q, n, w, kind, places),
         SamePlaces(places2, places, k),
         NEW t \in 0 .. n - 1, NEW tphase \in Phase, places[k] = <<t, tphase>>
  PROVE  /\ Restore(q, n, t, tphase) \in Ring(0 .. n - 1, E, n)
         /\ RingExact(Restore(q, n, t, tphase), n, u, kind, places2)
<1> DEFINE p == Restore(q, n, t, tphase)
           r == Rank(w, k, kind)
<1>1. /\ Len(w) \in Nat /\ DOMAIN w = 1 .. Len(w) /\ DOMAIN u = 1 .. k
      /\ k \in Nat \ {0} /\ k <= Len(w) + 1
      /\ \A j \in 1 .. k : u[j].kind = w[j].kind /\ places2[j] = places[j]
  BY LenProperties DEF SameKinds, SamePlaces
<1>2. r \in 0 .. n
  <2>1. r \in Nat /\ r <= Rank(w, Len(w) + 1, kind)
    BY <1>1, RankType, RankMonotone
  <2>2. Rank(w, Len(w) + 1, kind) \in 0 .. n
    BY DEF RingExact, Ring
  <2> QED
    BY <2>1, <2>2
<1>3. Names(t, tphase, q, n, r)
  BY <1>1 DEF RingExact
<1>4. Distance(q.head, q.head_phase, t, tphase, n) = r
  BY <1>2, <1>3, DistanceIsRank
<1>5. /\ p.tail = t /\ p.tail_phase = tphase /\ p.length = r
      /\ p.head = q.head /\ p.head_phase = q.head_phase
      /\ p.buf = [i \in 0 .. n - 1 |-> [q.buf[i] EXCEPT !.valid = MOD_S(n + i - q.head, n) < r]]
  BY <1>4 DEF Restore, Ring
<1>6. ASSUME NEW i \in 0 .. n - 1
      PROVE  /\ p.buf[i] \in E
             /\ p.buf[i].valid <=> MOD_S(n + i - q.head, n) < r
  <2> DEFINE b == MOD_S(n + i - q.head, n) < r
  <2>1. q.buf[i] \in E /\ b \in BOOLEAN
    BY DEF Ring
  <2>2. p.buf[i] = [q.buf[i] EXCEPT !.valid = b]
    BY <1>5
  <2> HIDE DEF b
  <2>3. [q.buf[i] EXCEPT !.valid = b] \in E /\ [q.buf[i] EXCEPT !.valid = b].valid = b
    BY <2>1 DEF EntriesOf
  <2>4. p.buf[i] \in E /\ p.buf[i].valid = b
    BY <2>2, <2>3
  <2> QED
    BY <2>4 DEF b
<1>7. p \in Ring(0 .. n - 1, E, n)
  <2>1. p.buf \in [0 .. n - 1 -> E]
    BY <1>5, <1>6
  <2> QED
    BY <2>1, <1>2, <1>5 DEF Restore, Ring
<1>8. Names(p.tail, p.tail_phase, p, n, p.length)
  BY <1>3, <1>5 DEF Names
<1>9. \A j \in 1 .. k : Rank(u, j, kind) = Rank(w, j, kind)
  <2> TAKE j \in 1 .. k
  <2>1. j \in Nat /\ \A i \in 1 .. j - 1 : u[i].kind = w[i].kind
    BY <1>1
  <2> QED
    BY <2>1, RankSame
<1>10. Rank(u, Len(u) + 1, kind) = r
  <2>1. Rank(u, k + 1, kind) = Rank(u, k, kind) + (IF u[k].kind = kind THEN 1 ELSE 0)
    BY <1>1, RankStep
  <2>2. u[k].kind # kind /\ Rank(u, k, kind) = r
    BY <1>1, <1>9
  <2> QED
    BY <2>1, <2>2, <1>2
<1>11. ASSUME NEW j \in DOMAIN u
       PROVE  Names(places2[j][1], places2[j][2], p, n, Rank(u, j, kind))
  BY <1>1, <1>5, <1>9 DEF RingExact, Names
<1>12. ASSUME NEW i \in 0 .. n - 1
       PROVE  p.buf[i].valid <=> Holds(p, n, i)
  BY <1>5, <1>6 DEF Holds
<1> QED
  BY <1>5, <1>7, <1>8, <1>10, <1>11, <1>12 DEF RingExact

(* An action that changes neither the kinds in the window nor a place, and *)
(* of the ring only the entries' contents.                                 *)
SameRing(p, q, n) ==
  /\ p.head = q.head /\ p.head_phase = q.head_phase
  /\ p.tail = q.tail /\ p.tail_phase = q.tail_phase /\ p.length = q.length
  /\ \A i \in 0 .. n - 1 : p.buf[i].valid = q.buf[i].valid

SameWindow(u, w) ==
  /\ Len(u) = Len(w)
  /\ \A k \in 1 .. Len(w) :
       /\ u[k].kind = w[k].kind
       /\ u[k].LQ_index = w[k].LQ_index /\ u[k].LQ_phase = w[k].LQ_phase
       /\ u[k].SQ_index = w[k].SQ_index /\ u[k].SQ_phase = w[k].SQ_phase

LEMMA RingUnmoved ==
  ASSUME NEW n \in Nat \ {0}, NEW q, NEW p, SameRing(p, q, n),
         NEW S, NEW w \in Seq(S), NEW u \in Seq(S), SameWindow(u, w), NEW kind,
         NEW places, NEW places2, RingExact(q, n, w, kind, places),
         SamePlaces(places2, places, Len(w))
  PROVE  RingExact(p, n, u, kind, places2)
<1>1. /\ Len(w) \in Nat /\ DOMAIN w = 1 .. Len(w) /\ DOMAIN u = 1 .. Len(w)
      /\ Len(u) = Len(w) /\ \A k \in 1 .. Len(w) : u[k].kind = w[k].kind
  BY LenProperties DEF SameWindow
<1>2. \A k \in 1 .. Len(w) + 1 : Rank(u, k, kind) = Rank(w, k, kind)
  <2> TAKE k \in 1 .. Len(w) + 1
  <2>1. k \in Nat /\ \A j \in 1 .. k - 1 : u[j].kind = w[j].kind
    BY <1>1
  <2> QED
    BY <2>1, RankSame
<1>3. Rank(u, Len(u) + 1, kind) = Rank(w, Len(w) + 1, kind)
  BY <1>1, <1>2
<1>4. ASSUME NEW k \in DOMAIN u
      PROVE  Names(places2[k][1], places2[k][2], p, n, Rank(u, k, kind))
  BY <1>1, <1>2 DEF RingExact, Names, SameRing, SamePlaces
<1> QED
  BY <1>3, <1>4 DEF RingExact, Names, Holds, SameRing

LEMMA RingEmpty ==
  ASSUME NEW n \in Nat \ {0}, NEW E, NEW b \in [0 .. n - 1 -> E],
         \A i \in 0 .. n - 1 : b[i].valid = FALSE, NEW kind, NEW places
  PROVE  /\ EmptyRing(b) \in Ring(0 .. n - 1, E, n)
         /\ RingExact(EmptyRing(b), n, <<>>, kind, places)
<1>1. Rank(<<>>, Len(<<>>) + 1, kind) = 0
  BY RankFirst, EmptySeq
<1>2. EmptyRing(b) \in Ring(0 .. n - 1, E, n)
  BY DEF EmptyRing, Ring, Phase
<1>3. DOMAIN <<>> = {}
  OBVIOUS
<1> QED
  BY <1>1, <1>2, <1>3 DEF RingExact, EmptyRing, Names, Holds, MOD_S

-----------------------------------------------------------------------------
(* The entries of the two queues.                                          *)

LEMMA LoadEntries == EntriesOf(Load)
BY DEF Load, EntriesOf

LEMMA StoreEntries == EntriesOf(Store)
BY DEF Store, EntriesOf

LEMMA SizesAreNat == \A n \in Sizes : n \in Nat \ {0}
BY LSUAssumption

LEMMA AddrOfType == \A n : AddrOf(n) \subseteq Addr
BY DEF AddrOf

LEMMA DatumOfType == \A n \in Sizes : DatumOf(n) \subseteq Datum
BY DEF DatumOf, Datum

LEMMA ReadType ==
  ASSUME NEW m \in [0 .. MemSize - 1 -> Byte], NEW a \in Addr, NEW n \in Sizes, ~Faults(a, n)
  PROVE  Read(m, a, n) \in Datum
<1>1. n \in Nat \ {0} /\ a \in Nat /\ MemSize \in Nat /\ a + n <= MemSize
  BY SizesAreNat, LSUAssumption DEF Addr, Faults
<1>2. \A i \in 1 .. n : m[a + i - 1] \in Byte
  BY <1>1
<1>3. Read(m, a, n) \in [1 .. n -> Byte]
  BY <1>2 DEF Read
<1> QED
  BY <1>3 DEF Datum

LEMMA WriteType ==
  ASSUME NEW m \in [0 .. MemSize - 1 -> Byte], NEW a \in Addr, NEW v \in Datum \cup {<<>>}
  PROVE  Write(m, a, v) \in [0 .. MemSize - 1 -> Byte]
<1>1. v \in Seq(Byte)
  <2>1. CASE v = <<>>
    BY <2>1
  <2>2. CASE v \in Datum
    <3>1. PICK n \in Sizes : v \in [1 .. n -> Byte]
      BY <2>2 DEF Datum
    <3> QED
      BY <3>1, SizesAreNat
  <2> QED
    BY <2>1, <2>2
<1>2. Len(v) \in Nat /\ \A i \in 1 .. Len(v) : v[i] \in Byte
  BY <1>1, LenProperties, ElementOfSeq
<1>3. a \in Nat /\ MemSize \in Nat
  BY LSUAssumption DEF Addr
<1>4. ASSUME NEW b \in 0 .. MemSize - 1
      PROVE  (IF b \in a .. a + Len(v) - 1 THEN v[b - a + 1] ELSE m[b]) \in Byte
  BY <1>2, <1>3
<1> QED
  BY <1>4 DEF Write

LEMMA DistanceType ==
  ASSUME NEW n \in Nat \ {0}, NEW i \in 0 .. n - 1, NEW j \in 0 .. n - 1, NEW p, NEW r
  PROVE  Distance(i, p, j, r, n) \in 0 .. n
BY DEF Distance, MOD_S

LEMMA LeastElement ==
  ASSUME NEW T, T \subseteq Nat, T # {}
  PROVE  \E x \in T : \A y \in T : x <= y
<1>1. \E x \in T : \A y \in T : ~(<<y, x>> \in OpToRel(<, Nat))
  BY NatLessThanWellFounded, WFMin
<1>2. PICK x \in T : \A y \in T : ~(<<y, x>> \in OpToRel(<, Nat))
  BY <1>1
<1>3. ASSUME NEW y \in T PROVE x <= y
  <2>1. ~(<<y, x>> \in OpToRel(<, Nat)) /\ <<y, x>> \in Nat \X Nat
    BY <1>2
  <2>2. ~(y < x)
    BY <2>1 DEF OpToRel
  <2> QED
    BY <2>2
<1> QED
  BY <1>3

LEMMA DisambiguateType ==
  ASSUME LSUTypeOK, NEW l \in Load, Disambiguate(l).how = "forward"
  PROVE  Disambiguate(l).value \in Datum \cup {<<>>}
<1> DEFINE D == {j \in 1 .. PriorStores(l) :
                   LET s == StoreBefore(l, j)
                   IN  IF s.addr_avail THEN Conflict(s, l) ELSE l.mdp_stall}
           first == CHOOSE j \in D : \A i \in D : j <= i
           s == StoreBefore(l, first)
<1>1. /\ SQSize \in Nat \ {0} /\ l.sq_index \in 0 .. SQSize - 1
      /\ SQ.head \in 0 .. SQSize - 1 /\ SQ.buf \in [0 .. SQSize - 1 -> Store]
  BY LSUAssumption DEF LSUTypeOK, Ring, SQSlot, Load
<1>2. PriorStores(l) \in 0 .. SQSize
  BY <1>1, DistanceType DEF PriorStores
<1>3. CASE D = {}
  BY <1>3 DEF Disambiguate
<1>4. CASE D # {}
  <2>1. first \in 1 .. SQSize
    <3>1. D \subseteq Nat /\ D \subseteq 1 .. SQSize
      BY <1>1, <1>2
    <3>2. \E j \in D : \A i \in D : j <= i
      BY <1>4, <3>1, LeastElement
    <3>3. first \in D
      BY <3>2
    <3> QED
      BY <3>1, <3>3
  <2>2. MOD_S(l.sq_index + SQSize - first, SQSize) \in 0 .. SQSize - 1
    BY <1>1, <2>1 DEF MOD_S
  <2>3. s \in Store
    BY <1>1, <2>2 DEF StoreBefore
  <2>4. Disambiguate(l) = IF s.addr_avail /\ s.size = l.size /\ s.value_avail
                          THEN [how |-> "forward", value |-> s.value]
                          ELSE [how |-> "stall"]
    BY <1>4 DEF Disambiguate
  <2>5. Disambiguate(l) = [how |-> "forward", value |-> s.value]
    BY <2>4
  <2> QED
    BY <2>3, <2>5 DEF Store
<1> QED
  BY <1>3, <1>4

LEMMA ExecutedType ==
  ASSUME LSUTypeOK, NEW l \in Load, NEW waits \in BOOLEAN
  PROVE  Executed(l, waits) \in Load /\ Executed(l, waits).valid = l.valid
<1> DEFINE d == Disambiguate(l)
           v == IF d.how = "forward" THEN d.value
                ELSE IF Faults(l.addr, l.size) THEN l.value
                ELSE Read(mem, l.addr, l.size)
<1>1. v \in Datum \cup {<<>>}
  <2>1. l.addr \in Addr /\ l.size \in Sizes /\ l.value \in Datum \cup {<<>>}
        /\ mem \in [0 .. MemSize - 1 -> Byte]
    BY DEF Load, LSUTypeOK
  <2>2. CASE d.how = "forward"
    BY <2>2, DisambiguateType
  <2>3. CASE d.how # "forward"
    BY <2>1, <2>3, ReadType
  <2> QED
    BY <2>2, <2>3
<1> HIDE DEF v
<1>2. /\ [l EXCEPT !.value_avail = TRUE, !.value = v] \in Load
      /\ [l EXCEPT !.value_avail = TRUE, !.value = v].valid = l.valid
  BY <1>1 DEF Load
<1>3. Executed(l, waits) \in {l, [l EXCEPT !.value_avail = TRUE, !.value = v]}
  BY DEF Executed, v
<1> QED
  BY <1>2, <1>3

-----------------------------------------------------------------------------
(* The invariant: the types and the shape of the two queues together.      *)

LSUInv == LSUTypeOK /\ LQExact /\ SQExact

LEMMA QueuesAreRings ==
  ASSUME LSUTypeOK
  PROVE  /\ LQSize \in Nat \ {0} /\ LQ \in Ring(0 .. LQSize - 1, Load, LQSize)
         /\ SQSize \in Nat \ {0} /\ SQ \in Ring(0 .. SQSize - 1, Store, SQSize)
BY LSUAssumption DEF LSUTypeOK, LQSlot, SQSlot

LEMMA WindowType ==
  ASSUME LSUTypeOK
  PROVE  /\ window \in Seq(Flying) /\ Len(window) \in Nat
         /\ DOMAIN window = 1 .. Len(window)
         /\ \A k \in 1 .. Len(window) : window[k] \in Flying
BY LenProperties, ElementOfSeq DEF LSUTypeOK

LEMMA InitInv == Init => LSUInv
<1> SUFFICES ASSUME Init PROVE LSUInv
  OBVIOUS
<1> DEFINE lb == [i \in LQSlot |->
                    [valid |-> FALSE, size |-> NoSize, addr_avail |-> FALSE, addr |-> 0,
                     value_avail |-> FALSE, value |-> <<>>, missed |-> FALSE,
                     sq_index |-> 0, sq_index_phase |-> 0, mdp_stall |-> FALSE]]
           sb == [i \in SQSlot |->
                    [valid |-> FALSE, size |-> NoSize, addr_avail |-> FALSE, addr |-> 0,
                     value_avail |-> FALSE, value |-> <<>>]]
<1>1. NoSize \in Sizes /\ 0 \in Addr /\ 0 \in SQSlot /\ 0 \in Byte
  BY LSUAssumption DEF NoSize, Addr, SQSlot, Byte
<1>2. lb \in [0 .. LQSize - 1 -> Load] /\ \A i \in 0 .. LQSize - 1 : lb[i].valid = FALSE
  BY <1>1 DEF LQSlot, Load, Phase
<1>3. sb \in [0 .. SQSize - 1 -> Store] /\ \A i \in 0 .. SQSize - 1 : sb[i].valid = FALSE
  BY <1>1 DEF SQSlot, Store
<1>4. LQ = EmptyRing(lb) /\ SQ = EmptyRing(sb) /\ window = <<>>
      /\ mem = [b \in 0 .. MemSize - 1 |-> 0]
  BY DEF Init
<1> HIDE DEF lb, sb
<1>5. LQ \in Ring(0 .. LQSize - 1, Load, LQSize) /\ LQExact
  BY <1>2, <1>4, RingEmpty, LSUAssumption DEF LQExact
<1>6. SQ \in Ring(0 .. SQSize - 1, Store, SQSize) /\ SQExact
  BY <1>3, <1>4, RingEmpty, LSUAssumption DEF SQExact
<1>7. LSUTypeOK
  BY <1>1, <1>4, <1>5, <1>6, LSUAssumption DEF LSUTypeOK, LQSlot, SQSlot
<1> QED
  BY <1>5, <1>6, <1>7 DEF LSUInv

(* dispatch() of an instruction that remembers the two tails.              *)
LEMMA NewInsnType ==
  ASSUME LSUTypeOK, NEW kind \in {"load", "store", "branch"}
  PROVE  /\ NewInsn(kind) \in Flying /\ NewInsn(kind).kind = kind
         /\ NewInsn(kind).LQ_index = LQ.tail /\ NewInsn(kind).LQ_phase = LQ.tail_phase
         /\ NewInsn(kind).SQ_index = SQ.tail /\ NewInsn(kind).SQ_phase = SQ.tail_phase
BY DEF LSUTypeOK, Ring, NewInsn, Flying

LEMMA PlacesAppend ==
  ASSUME NEW S, NEW w \in Seq(S), NEW x \in S
  PROVE  /\ \A k \in 1 .. Len(w) :
              /\ LQPlaces(Append(w, x))[k] = LQPlaces(w)[k]
              /\ SQPlaces(Append(w, x))[k] = SQPlaces(w)[k]
         /\ LQPlaces(Append(w, x))[Len(w) + 1] = <<x.LQ_index, x.LQ_phase>>
         /\ SQPlaces(Append(w, x))[Len(w) + 1] = <<x.SQ_index, x.SQ_phase>>
<1>1. /\ Len(w) \in Nat /\ DOMAIN w = 1 .. Len(w)
      /\ DOMAIN Append(w, x) = 1 .. Len(w) + 1
      /\ \A k \in 1 .. Len(w) : Append(w, x)[k] = w[k]
      /\ Append(w, x)[Len(w) + 1] = x
  BY AppendProperties, LenProperties
<1> QED
  BY <1>1 DEF LQPlaces, SQPlaces

LEMMA PlacesTail ==
  ASSUME NEW S, NEW w \in Seq(S), w # <<>>
  PROVE  \A k \in 1 .. Len(w) - 1 :
            /\ LQPlaces(Tail(w))[k] = LQPlaces(w)[k + 1]
            /\ SQPlaces(Tail(w))[k] = SQPlaces(w)[k + 1]
<1>1. /\ Len(w) \in Nat /\ DOMAIN w = 1 .. Len(w)
      /\ DOMAIN Tail(w) = 1 .. Len(w) - 1
      /\ \A k \in 1 .. Len(w) - 1 : Tail(w)[k] = w[k + 1]
  BY HeadTailProperties, LenProperties, EmptySeq
<1> QED
  BY <1>1 DEF LQPlaces, SQPlaces

LEMMA LQAfterOtherAppend ==
  ASSUME LSUInv, NEW x \in Flying, x.kind # "load",
         x.LQ_index = LQ.tail, x.LQ_phase = LQ.tail_phase,
         window' = Append(window, x), LQ' = LQ
  PROVE  LQExact'
<1>1. LSUTypeOK /\ RingExact(LQ, LQSize, window, "load", LQPlaces(window))
  BY DEF LSUInv, LQExact
<1>2. /\ \A k \in 1 .. Len(window) : LQPlaces(Append(window, x))[k] = LQPlaces(window)[k]
      /\ LQPlaces(Append(window, x))[Len(window) + 1] = <<LQ.tail, LQ.tail_phase>>
  BY <1>1, WindowType, PlacesAppend
<1>3. RingExact(LQ, LQSize, Append(window, x), "load", LQPlaces(Append(window, x)))
  BY <1>1, <1>2, WindowType, QueuesAreRings, RingAfterOtherAppend
<1> QED
  BY <1>3 DEF LQExact

LEMMA SQAfterOtherAppend ==
  ASSUME LSUInv, NEW x \in Flying, x.kind # "store",
         x.SQ_index = SQ.tail, x.SQ_phase = SQ.tail_phase,
         window' = Append(window, x), SQ' = SQ
  PROVE  SQExact'
<1>1. LSUTypeOK /\ RingExact(SQ, SQSize, window, "store", SQPlaces(window))
  BY DEF LSUInv, SQExact
<1>2. /\ \A k \in 1 .. Len(window) : SQPlaces(Append(window, x))[k] = SQPlaces(window)[k]
      /\ SQPlaces(Append(window, x))[Len(window) + 1] = <<SQ.tail, SQ.tail_phase>>
  BY <1>1, WindowType, PlacesAppend
<1>3. RingExact(SQ, SQSize, Append(window, x), "store", SQPlaces(Append(window, x)))
  BY <1>1, <1>2, WindowType, QueuesAreRings, RingAfterOtherAppend
<1> QED
  BY <1>3 DEF SQExact

LEMMA DispatchLoadInv == LSUInv /\ DispatchLoad => LSUInv'
<1> SUFFICES ASSUME LSUInv, DispatchLoad PROVE LSUInv'
  OBVIOUS
<1> DEFINE x == NewInsn("load")
<1>1. LSUTypeOK /\ x \in Flying /\ x.kind = "load"
  BY NewInsnType DEF LSUInv
<1>2. PICK n \in Sizes, mdp \in BOOLEAN :
        LQ' = Push(LQ, LQSize,
                [valid |-> TRUE, size |-> n, addr_avail |-> FALSE, addr |-> 0,
                 value_avail |-> FALSE, value |-> <<>>, missed |-> FALSE,
                 sq_index |-> SQ.tail, sq_index_phase |-> SQ.tail_phase, mdp_stall |-> mdp])
  BY DEF DispatchLoad
<1> DEFINE e == [valid |-> TRUE, size |-> n, addr_avail |-> FALSE, addr |-> 0,
                 value_avail |-> FALSE, value |-> <<>>, missed |-> FALSE,
                 sq_index |-> SQ.tail, sq_index_phase |-> SQ.tail_phase, mdp_stall |-> mdp]
<1>3. e \in Load /\ e.valid = TRUE
  BY <1>1, LSUAssumption DEF Load, Addr, LSUTypeOK, Ring
<1> HIDE DEF e
<1>4. LQ.length < LQSize /\ window' = Append(window, x) /\ SQ' = SQ /\ mem' = mem
      /\ Len(window) < WindowSize /\ LQ' = Push(LQ, LQSize, e)
  BY <1>1, <1>2, QueuesAreRings DEF DispatchLoad, e, Ring
<1>5. LQ' \in Ring(0 .. LQSize - 1, Load, LQSize) /\ LQExact'
  <2>1. RingExact(LQ, LQSize, window, "load", LQPlaces(window))
    BY DEF LSUInv, LQExact
  <2>2. /\ \A k \in 1 .. Len(window) : LQPlaces(Append(window, x))[k] = LQPlaces(window)[k]
        /\ LQPlaces(Append(window, x))[Len(window) + 1] = <<LQ.tail, LQ.tail_phase>>
    BY <1>1, WindowType, PlacesAppend, NewInsnType
  <2>3. /\ Push(LQ, LQSize, e) \in Ring(0 .. LQSize - 1, Load, LQSize)
        /\ RingExact(Push(LQ, LQSize, e), LQSize, Append(window, x), "load", LQPlaces(Append(window, x)))
    BY <2>1, <2>2, <1>1, <1>3, <1>4, WindowType, QueuesAreRings, RingAfterPush
  <2> QED
    BY <2>3, <1>4 DEF LQExact
<1>6. SQExact'
  BY <1>1, <1>4, NewInsnType, SQAfterOtherAppend
<1>7. window' \in Seq(Flying) /\ Len(window)' <= WindowSize
  BY <1>1, <1>4, WindowType, AppendProperties, LSUAssumption
<1>8. LSUTypeOK'
  BY <1>1, <1>4, <1>5, <1>7 DEF LSUTypeOK, LQSlot, SQSlot
<1> QED
  BY <1>5, <1>6, <1>8 DEF LSUInv

LEMMA DispatchStoreInv == LSUInv /\ DispatchStore => LSUInv'
<1> SUFFICES ASSUME LSUInv, DispatchStore PROVE LSUInv'
  OBVIOUS
<1> DEFINE x == NewInsn("store")
<1>1. LSUTypeOK /\ x \in Flying /\ x.kind = "store"
  BY NewInsnType DEF LSUInv
<1>2. PICK n \in Sizes, known \in BOOLEAN, a \in Addr :
        SQ' = Push(SQ, SQSize,
                [valid |-> TRUE, size |-> n, addr_avail |-> known, addr |-> a,
                 value_avail |-> FALSE, value |-> <<>>])
  <2>1. PICK n \in Sizes, known \in BOOLEAN :
          \E a \in IF known THEN AddrOf(n) ELSE {0} :
             SQ' = Push(SQ, SQSize,
                     [valid |-> TRUE, size |-> n, addr_avail |-> known, addr |-> a,
                      value_avail |-> FALSE, value |-> <<>>])
    BY DEF DispatchStore
  <2>2. (IF known THEN AddrOf(n) ELSE {0}) \subseteq Addr
    BY AddrOfType, LSUAssumption DEF Addr
  <2> QED
    BY <2>1, <2>2
<1> DEFINE e == [valid |-> TRUE, size |-> n, addr_avail |-> known, addr |-> a,
                 value_avail |-> FALSE, value |-> <<>>]
<1>3. e \in Store /\ e.valid = TRUE
  BY DEF Store
<1> HIDE DEF e
<1>4. SQ.length < SQSize /\ window' = Append(window, x) /\ LQ' = LQ /\ mem' = mem
      /\ Len(window) < WindowSize /\ SQ' = Push(SQ, SQSize, e)
  BY <1>1, <1>2, QueuesAreRings DEF DispatchStore, e, Ring
<1>5. SQ' \in Ring(0 .. SQSize - 1, Store, SQSize) /\ SQExact'
  <2>1. RingExact(SQ, SQSize, window, "store", SQPlaces(window))
    BY DEF LSUInv, SQExact
  <2>2. /\ \A k \in 1 .. Len(window) : SQPlaces(Append(window, x))[k] = SQPlaces(window)[k]
        /\ SQPlaces(Append(window, x))[Len(window) + 1] = <<SQ.tail, SQ.tail_phase>>
    BY <1>1, WindowType, PlacesAppend, NewInsnType
  <2>3. /\ Push(SQ, SQSize, e) \in Ring(0 .. SQSize - 1, Store, SQSize)
        /\ RingExact(Push(SQ, SQSize, e), SQSize, Append(window, x), "store", SQPlaces(Append(window, x)))
    BY <2>1, <2>2, <1>1, <1>3, <1>4, WindowType, QueuesAreRings, RingAfterPush
  <2> QED
    BY <2>3, <1>4 DEF SQExact
<1>6. LQExact'
  BY <1>1, <1>4, NewInsnType, LQAfterOtherAppend
<1>7. window' \in Seq(Flying) /\ Len(window)' <= WindowSize
  BY <1>1, <1>4, WindowType, AppendProperties, LSUAssumption
<1>8. LSUTypeOK'
  BY <1>1, <1>4, <1>5, <1>7 DEF LSUTypeOK, LQSlot, SQSlot
<1> QED
  BY <1>5, <1>6, <1>8 DEF LSUInv

LEMMA DispatchBranchInv == LSUInv /\ DispatchBranch => LSUInv'
<1> SUFFICES ASSUME LSUInv, DispatchBranch PROVE LSUInv'
  OBVIOUS
<1> DEFINE x == NewInsn("branch")
<1>1. LSUTypeOK /\ x \in Flying /\ x.kind = "branch"
  BY NewInsnType DEF LSUInv
<1>2. window' = Append(window, x) /\ LQ' = LQ /\ SQ' = SQ /\ mem' = mem
      /\ Len(window) < WindowSize
  BY DEF DispatchBranch
<1>3. LQExact' /\ SQExact'
  BY <1>1, <1>2, NewInsnType, LQAfterOtherAppend, SQAfterOtherAppend
<1>4. window' \in Seq(Flying) /\ Len(window)' <= WindowSize
  BY <1>1, <1>2, WindowType, AppendProperties, LSUAssumption
<1>5. LSUTypeOK'
  BY <1>1, <1>2, <1>4 DEF LSUTypeOK
<1> QED
  BY <1>3, <1>5 DEF LSUInv

-----------------------------------------------------------------------------
(* Execution changes the contents of entries and what is known of an       *)
(* instruction, never a ring or a place.                                   *)

LEMMA ContentsInv ==
  ASSUME LSUInv, SameRing(LQ', LQ, LQSize), SameRing(SQ', SQ, SQSize),
         LQ' \in Ring(0 .. LQSize - 1, Load, LQSize), SQ' \in Ring(0 .. SQSize - 1, Store, SQSize),
         window' \in Seq(Flying), SameWindow(window', window), mem' = mem
  PROVE  LSUInv'
<1>1. /\ LSUTypeOK
      /\ RingExact(LQ, LQSize, window, "load", LQPlaces(window))
      /\ RingExact(SQ, SQSize, window, "store", SQPlaces(window))
  BY DEF LSUInv, LQExact, SQExact
<1>2. DOMAIN window = 1 .. Len(window) /\ DOMAIN window' = 1 .. Len(window)
      /\ window \in Seq(Flying) /\ Len(window') = Len(window)
  BY <1>1, WindowType, LenProperties DEF SameWindow
<1>3. /\ SamePlaces(LQPlaces(window'), LQPlaces(window), Len(window))
      /\ SamePlaces(SQPlaces(window'), SQPlaces(window), Len(window))
  BY <1>2 DEF LQPlaces, SQPlaces, SamePlaces, SameWindow
<1>4. RingExact(LQ', LQSize, window', "load", LQPlaces(window'))
  BY <1>1, <1>2, <1>3, QueuesAreRings, RingUnmoved
<1>5. RingExact(SQ', SQSize, window', "store", SQPlaces(window'))
  BY <1>1, <1>2, <1>3, QueuesAreRings, RingUnmoved
<1>6. LSUTypeOK'
  BY <1>1, <1>2 DEF LSUTypeOK, LQSlot, SQSlot
<1> QED
  BY <1>4, <1>5, <1>6 DEF LSUInv, LQExact, SQExact

(* An entry and an instruction change, in ways that leave the ring alone.  *)
LEMMA EntryChanges ==
  ASSUME NEW n \in Nat \ {0}, NEW E, NEW q \in Ring(0 .. n - 1, E, n),
         NEW i \in 0 .. n - 1, NEW e \in E, e.valid = q.buf[i].valid
  PROVE  /\ [q EXCEPT !.buf[i] = e] \in Ring(0 .. n - 1, E, n)
         /\ SameRing([q EXCEPT !.buf[i] = e], q, n)
BY DEF Ring, SameRing

LEMMA NothingChanges ==
  ASSUME NEW n, NEW q
  PROVE  SameRing(q, q, n)
BY DEF SameRing

LEMMA StageChanges ==
  ASSUME NEW w \in Seq(Flying), NEW k \in 1 .. Len(w),
         NEW s \in {"queued", "stalled", "done"}, NEW x \in BOOLEAN
  PROVE  /\ [w EXCEPT ![k].stage = s, ![k].exception = x] \in Seq(Flying)
         /\ SameWindow([w EXCEPT ![k].stage = s, ![k].exception = x], w)
<1> DEFINE f == [w[k] EXCEPT !.stage = s, !.exception = x]
           u == [w EXCEPT ![k].stage = s, ![k].exception = x]
<1>1. Len(w) \in Nat /\ DOMAIN w = 1 .. Len(w) /\ \A j \in 1 .. Len(w) : w[j] \in Flying
  BY LenProperties, ElementOfSeq
<1>2. /\ f \in Flying /\ f.kind = w[k].kind
      /\ f.LQ_index = w[k].LQ_index /\ f.LQ_phase = w[k].LQ_phase
      /\ f.SQ_index = w[k].SQ_index /\ f.SQ_phase = w[k].SQ_phase
  BY <1>1 DEF Flying
<1> HIDE DEF f
<1>3. u = [w EXCEPT ![k] = f]
  BY <1>1 DEF f
<1>4. u \in Seq(Flying) /\ Len(u) = Len(w) /\ u[k] = f /\ \A j \in 1 .. Len(w) \ {k} : u[j] = w[j]
  BY <1>1, <1>2, <1>3, ExceptSeq
<1> QED
  BY <1>2, <1>4 DEF SameWindow

LEMMA ExecuteLoadInv ==
  ASSUME LSUInv, NEW k \in DOMAIN window, ExecuteLoad(k)
  PROVE  LSUInv'
<1> DEFINE i == window[k].LQ_index
<1>1. /\ LSUTypeOK /\ window \in Seq(Flying) /\ k \in 1 .. Len(window)
      /\ LQ \in Ring(0 .. LQSize - 1, Load, LQSize) /\ LQSize \in Nat \ {0}
      /\ SQ \in Ring(0 .. SQSize - 1, Store, SQSize)
      /\ i \in 0 .. LQSize - 1 /\ LoadOf(k) \in Load /\ window[k].exception \in BOOLEAN
  <2>1. LSUTypeOK
    BY DEF LSUInv
  <2>2. i \in 0 .. LQSize - 1 /\ window[k] \in Flying
    BY <2>1, WindowType DEF Flying, LQSlot
  <2> QED
    BY <2>1, <2>2, WindowType, QueuesAreRings DEF LoadOf, Ring, Flying
<1>2. PICK a \in AddrOf(LoadOf(k).size), miss \in BOOLEAN :
        LET l == [LoadOf(k) EXCEPT !.addr_avail = TRUE, !.addr = a, !.missed = miss]
            r == Executed(l, miss)
        IN  /\ LQ' = [LQ EXCEPT !.buf[i] = r]
            /\ window' = [window EXCEPT
                 ![k].stage = IF r.value_avail THEN "done" ELSE "stalled",
                 ![k].exception = @ \/ (r.value_avail /\ PostsException(l))]
  BY DEF ExecuteLoad
<1> DEFINE l == [LoadOf(k) EXCEPT !.addr_avail = TRUE, !.addr = a, !.missed = miss]
           r == Executed(l, miss)
           s == IF r.value_avail THEN "done" ELSE "stalled"
           x == window[k].exception \/ (r.value_avail /\ PostsException(l))
<1>3. l \in Load /\ l.valid = LoadOf(k).valid
  BY <1>1, AddrOfType DEF Load
<1>4. r \in Load /\ r.valid = LQ.buf[i].valid
  BY <1>1, <1>3, ExecutedType DEF LoadOf
<1>5. s \in {"queued", "stalled", "done"} /\ x \in BOOLEAN
  OBVIOUS
<1>6. /\ LQ' = [LQ EXCEPT !.buf[i] = r]
      /\ window' = [window EXCEPT ![k].stage = s, ![k].exception = x]
      /\ SQ' = SQ /\ mem' = mem
  BY <1>1, <1>2 DEF ExecuteLoad
<1> HIDE DEF l, r, s, x, i
<1>7. LQ' \in Ring(0 .. LQSize - 1, Load, LQSize) /\ SameRing(LQ', LQ, LQSize)
  BY <1>1, <1>4, <1>6, EntryChanges
<1>8. SQ' \in Ring(0 .. SQSize - 1, Store, SQSize) /\ SameRing(SQ', SQ, SQSize)
  BY <1>1, <1>6, NothingChanges
<1>9. window' \in Seq(Flying) /\ SameWindow(window', window)
  BY <1>1, <1>5, <1>6, StageChanges
<1> QED
  BY <1>6, <1>7, <1>8, <1>9, ContentsInv

LEMMA LoadReplayInv ==
  ASSUME LSUInv, NEW k \in DOMAIN window, LoadReplay(k)
  PROVE  LSUInv'
<1> DEFINE i == window[k].LQ_index
           r == Executed(LoadOf(k), FALSE)
           x == window[k].exception \/ PostsException(LoadOf(k))
<1>1. /\ LSUTypeOK /\ window \in Seq(Flying) /\ k \in 1 .. Len(window)
      /\ LQ \in Ring(0 .. LQSize - 1, Load, LQSize) /\ LQSize \in Nat \ {0}
      /\ SQ \in Ring(0 .. SQSize - 1, Store, SQSize)
      /\ i \in 0 .. LQSize - 1 /\ LoadOf(k) \in Load /\ window[k].exception \in BOOLEAN
  <2>1. LSUTypeOK
    BY DEF LSUInv
  <2>2. i \in 0 .. LQSize - 1 /\ window[k] \in Flying
    BY <2>1, WindowType DEF Flying, LQSlot
  <2> QED
    BY <2>1, <2>2, WindowType, QueuesAreRings DEF LoadOf, Ring, Flying
<1>2. r \in Load /\ r.valid = LQ.buf[i].valid
  BY <1>1, ExecutedType DEF LoadOf
<1>3. x \in BOOLEAN
  OBVIOUS
<1>4. /\ LQ' = [LQ EXCEPT !.buf[i] = r]
      /\ window' = [window EXCEPT ![k].stage = "done", ![k].exception = x]
      /\ SQ' = SQ /\ mem' = mem
  BY <1>1 DEF LoadReplay
<1> HIDE DEF r, x, i
<1>5. LQ' \in Ring(0 .. LQSize - 1, Load, LQSize) /\ SameRing(LQ', LQ, LQSize)
  BY <1>1, <1>2, <1>4, EntryChanges
<1>6. SQ' \in Ring(0 .. SQSize - 1, Store, SQSize) /\ SameRing(SQ', SQ, SQSize)
  BY <1>1, <1>4, NothingChanges
<1>7. window' \in Seq(Flying) /\ SameWindow(window', window)
  BY <1>1, <1>3, <1>4, StageChanges
<1> QED
  BY <1>4, <1>5, <1>6, <1>7, ContentsInv

LEMMA ExecuteStoreInv ==
  ASSUME LSUInv, NEW k \in DOMAIN window, ExecuteStore(k)
  PROVE  LSUInv'
<1> DEFINE f == window[k]
           i == f.SQ_index
           old == SQ.buf[i]
<1>1. /\ LSUTypeOK /\ window \in Seq(Flying) /\ k \in 1 .. Len(window)
      /\ DOMAIN window = 1 .. Len(window) /\ Len(window) \in Nat
      /\ \A j \in 1 .. Len(window) : window[j] \in Flying
      /\ LQ \in Ring(0 .. LQSize - 1, Load, LQSize)
      /\ SQ \in Ring(0 .. SQSize - 1, Store, SQSize) /\ SQSize \in Nat \ {0}
      /\ i \in 0 .. SQSize - 1 /\ old \in Store
  <2>1. LSUTypeOK
    BY DEF LSUInv
  <2>2. i \in 0 .. SQSize - 1
    BY <2>1, WindowType DEF Flying, SQSlot
  <2> QED
    BY <2>1, <2>2, WindowType, QueuesAreRings DEF Ring
<1>2. PICK a \in Addr, v \in Datum :
        LET s == [old EXCEPT !.addr_avail = TRUE, !.addr = a, !.value_avail = TRUE, !.value = v]
            bad == IF SpecDisambig /\ ~old.addr_avail THEN Violated(f, s) ELSE {}
            first == LoadAfter(f, CHOOSE j \in bad : \A b \in bad : j <= b)
        IN  /\ SQ' = [SQ EXCEPT !.buf[i] = s]
            /\ window' = [j \in DOMAIN window |->
                 IF j = k THEN [window[j] EXCEPT !.stage = "done"]
                 ELSE IF bad # {} /\ window[j].kind = "load" /\ window[j].LQ_index = first
                 THEN [window[j] EXCEPT !.load_violation = TRUE]
                 ELSE window[j]]
  <2>1. (IF old.addr_avail THEN {old.addr} ELSE AddrOf(old.size)) \subseteq Addr
    BY <1>1, AddrOfType DEF Store
  <2>2. DatumOf(old.size) \subseteq Datum
    BY <1>1, DatumOfType DEF Store
  <2>3. PICK a \in IF old.addr_avail THEN {old.addr} ELSE AddrOf(old.size), v \in DatumOf(old.size) :
          LET s == [old EXCEPT !.addr_avail = TRUE, !.addr = a, !.value_avail = TRUE, !.value = v]
              bad == IF SpecDisambig /\ ~old.addr_avail THEN Violated(f, s) ELSE {}
              first == LoadAfter(f, CHOOSE j \in bad : \A b \in bad : j <= b)
          IN  /\ SQ' = [SQ EXCEPT !.buf[i] = s]
              /\ window' = [j \in DOMAIN window |->
                   IF j = k THEN [window[j] EXCEPT !.stage = "done"]
                   ELSE IF bad # {} /\ window[j].kind = "load" /\ window[j].LQ_index = first
                   THEN [window[j] EXCEPT !.load_violation = TRUE]
                   ELSE window[j]]
    BY DEF ExecuteStore
  <2> QED
    BY <2>1, <2>2, <2>3
<1> DEFINE s == [old EXCEPT !.addr_avail = TRUE, !.addr = a, !.value_avail = TRUE, !.value = v]
           bad == IF SpecDisambig /\ ~old.addr_avail THEN Violated(f, s) ELSE {}
           first == LoadAfter(f, CHOOSE j \in bad : \A b \in bad : j <= b)
           change(j) == IF j = k THEN [window[j] EXCEPT !.stage = "done"]
                        ELSE IF bad # {} /\ window[j].kind = "load" /\ window[j].LQ_index = first
                        THEN [window[j] EXCEPT !.load_violation = TRUE]
                        ELSE window[j]
<1>3. s \in Store /\ s.valid = SQ.buf[i].valid
  BY <1>1 DEF Store
<1>4. /\ SQ' = [SQ EXCEPT !.buf[i] = s]
      /\ window' = [j \in 1 .. Len(window) |-> change(j)]
      /\ LQ' = LQ /\ mem' = mem
  BY <1>1, <1>2 DEF ExecuteStore
<1> HIDE DEF s, bad, first, i
<1>5. ASSUME NEW j \in 1 .. Len(window)
      PROVE  /\ change(j) \in Flying /\ change(j).kind = window[j].kind
             /\ change(j).LQ_index = window[j].LQ_index /\ change(j).LQ_phase = window[j].LQ_phase
             /\ change(j).SQ_index = window[j].SQ_index /\ change(j).SQ_phase = window[j].SQ_phase
  BY <1>1 DEF Flying
<1> HIDE DEF change
<1>6. window' \in Seq(Flying) /\ SameWindow(window', window)
  <2>1. window' \in [1 .. Len(window) -> Flying]
    BY <1>4, <1>5
  <2>2. window' \in Seq(Flying)
    BY <2>1, <1>1
  <2>3. Len(window') = Len(window)
    BY <2>1, <2>2, <1>1, LenProperties
  <2> QED
    BY <2>2, <2>3, <1>4, <1>5 DEF SameWindow
<1>7. LQ' \in Ring(0 .. LQSize - 1, Load, LQSize) /\ SameRing(LQ', LQ, LQSize)
  BY <1>1, <1>4, NothingChanges
<1>8. SQ' \in Ring(0 .. SQSize - 1, Store, SQSize) /\ SameRing(SQ', SQ, SQSize)
  BY <1>1, <1>3, <1>4, EntryChanges
<1> QED
  BY <1>4, <1>6, <1>7, <1>8, ContentsInv

LEMMA ResolveCorrectInv ==
  ASSUME LSUInv, NEW k \in DOMAIN window, ResolveCorrect(k)
  PROVE  LSUInv'
<1>1. /\ LSUTypeOK /\ window \in Seq(Flying) /\ k \in 1 .. Len(window)
      /\ LQ \in Ring(0 .. LQSize - 1, Load, LQSize)
      /\ SQ \in Ring(0 .. SQSize - 1, Store, SQSize)
      /\ window[k] \in Flying
  BY WindowType, QueuesAreRings DEF LSUInv
<1>2. window' = [window EXCEPT ![k].stage = "done", ![k].exception = window[k].exception]
  BY <1>1 DEF ResolveCorrect, Flying
<1>3. window' \in Seq(Flying) /\ SameWindow(window', window)
  BY <1>1, <1>2, StageChanges DEF Flying
<1>4. LQ' = LQ /\ SQ' = SQ /\ mem' = mem
  BY DEF ResolveCorrect
<1>5. /\ LQ' \in Ring(0 .. LQSize - 1, Load, LQSize) /\ SameRing(LQ', LQ, LQSize)
      /\ SQ' \in Ring(0 .. SQSize - 1, Store, SQSize) /\ SameRing(SQ', SQ, SQSize)
  BY <1>1, <1>4, NothingChanges
<1> QED
  BY <1>3, <1>4, <1>5, ContentsInv

-----------------------------------------------------------------------------
(* Recovery and retirement.                                                *)

LEMMA ResolveMispredictInv ==
  ASSUME LSUInv, NEW k \in DOMAIN window, ResolveMispredict(k)
  PROVE  LSUInv'
<1> DEFINE b == window[k]
           u == [SubSeq(window, 1, k) EXCEPT ![k].stage = "done"]
           cut == SubSeq(window, 1, k)
<1>1. /\ LSUTypeOK /\ window \in Seq(Flying) /\ k \in 1 .. Len(window)
      /\ DOMAIN window = 1 .. Len(window) /\ Len(window) \in Nat
      /\ LQ \in Ring(0 .. LQSize - 1, Load, LQSize) /\ LQSize \in Nat \ {0}
      /\ SQ \in Ring(0 .. SQSize - 1, Store, SQSize) /\ SQSize \in Nat \ {0}
      /\ b \in Flying /\ b.kind = "branch"
      /\ b.LQ_index \in 0 .. LQSize - 1 /\ b.LQ_phase \in Phase
      /\ b.SQ_index \in 0 .. SQSize - 1 /\ b.SQ_phase \in Phase
  <2>1. LSUTypeOK /\ b.kind = "branch"
    BY DEF LSUInv, ResolveMispredict
  <2>2. b \in Flying
    BY <2>1, WindowType
  <2> QED
    BY <2>1, <2>2, WindowType, QueuesAreRings DEF Flying, LQSlot, SQSlot
<1>2. cut \in Seq(Flying) /\ Len(cut) = k /\ \A j \in 1 .. k : cut[j] = window[j]
  <2>1. \A j \in 1 .. k : window[j] \in Flying
    BY <1>1, WindowType
  <2> QED
    BY <1>1, <2>1, SubSeqProperties
<1>3. u \in Seq(Flying) /\ SameWindow(u, cut)
  <2>1. k \in 1 .. Len(cut) /\ cut[k] = b /\ DOMAIN cut = 1 .. k
    BY <1>1, <1>2, LenProperties
  <2>2. u = [cut EXCEPT ![k].stage = "done", ![k].exception = cut[k].exception]
    BY <2>1, <1>1 DEF Flying
  <2>3. cut[k].exception \in BOOLEAN
    BY <2>1, <1>1 DEF Flying
  <2> HIDE DEF cut, u
  <2> QED
    BY <2>1, <2>2, <2>3, <1>2, StageChanges
<1> HIDE DEF u, cut
<1>4. /\ Len(u) = k /\ SameKinds(u, window, k)
      /\ SamePlaces(LQPlaces(u), LQPlaces(window), k)
      /\ SamePlaces(SQPlaces(u), SQPlaces(window), k)
      /\ LQPlaces(window)[k] = <<b.LQ_index, b.LQ_phase>>
      /\ SQPlaces(window)[k] = <<b.SQ_index, b.SQ_phase>>
  <2>1. /\ Len(u) = k /\ DOMAIN u = 1 .. k
        /\ \A j \in 1 .. k : j \in DOMAIN window
    BY <1>1, <1>2, <1>3, LenProperties DEF SameWindow
  <2> QED
    BY <2>1, <1>1, <1>2, <1>3 DEF SameWindow, SameKinds, SamePlaces, LQPlaces, SQPlaces
<1>5. /\ window' = u /\ mem' = mem
      /\ LQ' = Restore(LQ, LQSize, b.LQ_index, b.LQ_phase)
      /\ SQ' = Restore(SQ, SQSize, b.SQ_index, b.SQ_phase)
  BY DEF ResolveMispredict, u, cut
<1> HIDE DEF b
<1>6. LQ' \in Ring(0 .. LQSize - 1, Load, LQSize) /\ LQExact'
  <2>1. RingExact(LQ, LQSize, window, "load", LQPlaces(window)) /\ window[k].kind # "load"
    BY <1>1 DEF LSUInv, LQExact, b
  <2>2. /\ Restore(LQ, LQSize, b.LQ_index, b.LQ_phase) \in Ring(0 .. LQSize - 1, Load, LQSize)
        /\ RingExact(Restore(LQ, LQSize, b.LQ_index, b.LQ_phase), LQSize, u, "load", LQPlaces(u))
    BY <2>1, <1>1, <1>3, <1>4, LoadEntries, RingAfterRestore
  <2> QED
    BY <2>2, <1>5 DEF LQExact
<1>7. SQ' \in Ring(0 .. SQSize - 1, Store, SQSize) /\ SQExact'
  <2>1. RingExact(SQ, SQSize, window, "store", SQPlaces(window)) /\ window[k].kind # "store"
    BY <1>1 DEF LSUInv, SQExact, b
  <2>2. /\ Restore(SQ, SQSize, b.SQ_index, b.SQ_phase) \in Ring(0 .. SQSize - 1, Store, SQSize)
        /\ RingExact(Restore(SQ, SQSize, b.SQ_index, b.SQ_phase), SQSize, u, "store", SQPlaces(u))
    BY <2>1, <1>1, <1>3, <1>4, StoreEntries, RingAfterRestore
  <2> QED
    BY <2>2, <1>5 DEF SQExact
<1>8. LSUTypeOK'
  BY <1>1, <1>3, <1>4, <1>5, <1>6, <1>7, LSUAssumption DEF LSUTypeOK, LQSlot, SQSlot
<1> QED
  BY <1>6, <1>7, <1>8 DEF LSUInv

(* The window loses its head: the queue of the head's kind is popped, the  *)
(* other stays.                                                            *)
LEMMA HeadType ==
  ASSUME LSUInv, window # <<>>
  PROVE  /\ LSUTypeOK /\ window \in Seq(Flying) /\ Head(window) \in Flying
         /\ Head(window) = window[1] /\ 1 \in DOMAIN window
         /\ Tail(window) \in Seq(Flying) /\ Len(Tail(window)) <= WindowSize
<1>1. LSUTypeOK /\ window \in Seq(Flying) /\ Len(window) \in Nat /\ Len(window) <= WindowSize
  BY WindowType DEF LSUInv, LSUTypeOK
<1>2. WindowSize \in Nat
  BY LSUAssumption
<1> QED
  BY <1>1, <1>2, WindowType, HeadTailProperties, EmptySeq

LEMMA LQAfterTail ==
  ASSUME LSUInv, window # <<>>, window' = Tail(window), LQ' = LQ, Head(window).kind # "load"
  PROVE  LQExact'
<1>1. RingExact(LQ, LQSize, window, "load", LQPlaces(window))
  BY DEF LSUInv, LQExact
<1>2. \A k \in 1 .. Len(window) - 1 : LQPlaces(Tail(window))[k] = LQPlaces(window)[k + 1]
  BY HeadType, PlacesTail
<1>3. RingExact(LQ, LQSize, Tail(window), "load", LQPlaces(Tail(window)))
  BY <1>1, <1>2, HeadType, QueuesAreRings, RingAfterOtherTail
<1> QED
  BY <1>3 DEF LQExact

LEMMA SQAfterTail ==
  ASSUME LSUInv, window # <<>>, window' = Tail(window), SQ' = SQ, Head(window).kind # "store"
  PROVE  SQExact'
<1>1. RingExact(SQ, SQSize, window, "store", SQPlaces(window))
  BY DEF LSUInv, SQExact
<1>2. \A k \in 1 .. Len(window) - 1 : SQPlaces(Tail(window))[k] = SQPlaces(window)[k + 1]
  BY HeadType, PlacesTail
<1>3. RingExact(SQ, SQSize, Tail(window), "store", SQPlaces(Tail(window)))
  BY <1>1, <1>2, HeadType, QueuesAreRings, RingAfterOtherTail
<1> QED
  BY <1>3 DEF SQExact

LEMMA RetireLoadInv == LSUInv /\ RetireLoad => LSUInv'
<1> SUFFICES ASSUME LSUInv, RetireLoad PROVE LSUInv'
  OBVIOUS
<1>1. /\ window # <<>> /\ Head(window).kind = "load" /\ window' = Tail(window)
      /\ LQ' = Pop(LQ, LQSize) /\ SQ' = SQ /\ mem' = mem
  BY DEF RetireLoad, Retiring
<1>2. LQ' \in Ring(0 .. LQSize - 1, Load, LQSize) /\ LQExact'
  <2>1. RingExact(LQ, LQSize, window, "load", LQPlaces(window))
    BY DEF LSUInv, LQExact
  <2>2. \A k \in 1 .. Len(window) - 1 : LQPlaces(Tail(window))[k] = LQPlaces(window)[k + 1]
    BY <1>1, HeadType, PlacesTail
  <2>3. /\ Pop(LQ, LQSize) \in Ring(0 .. LQSize - 1, Load, LQSize)
        /\ RingExact(Pop(LQ, LQSize), LQSize, Tail(window), "load", LQPlaces(Tail(window)))
    BY <1>1, <2>1, <2>2, HeadType, QueuesAreRings, LoadEntries, RingAfterPop
  <2> QED
    BY <1>1, <2>3 DEF LQExact
<1>3. SQExact'
  BY <1>1, SQAfterTail
<1>4. LSUTypeOK'
  BY <1>1, <1>2, HeadType DEF LSUTypeOK, LQSlot
<1> QED
  BY <1>2, <1>3, <1>4 DEF LSUInv

LEMMA RetireStoreInv == LSUInv /\ RetireStore => LSUInv'
<1> SUFFICES ASSUME LSUInv, RetireStore PROVE LSUInv'
  OBVIOUS
<1>1. /\ window # <<>> /\ Head(window).kind = "store" /\ window' = Tail(window)
      /\ SQ' = Pop(SQ, SQSize) /\ LQ' = LQ
      /\ mem' = Write(mem, HeadStore.addr, HeadStore.value)
  BY DEF RetireStore, Retiring
<1>2. SQ' \in Ring(0 .. SQSize - 1, Store, SQSize) /\ SQExact'
  <2>1. RingExact(SQ, SQSize, window, "store", SQPlaces(window))
    BY DEF LSUInv, SQExact
  <2>2. \A k \in 1 .. Len(window) - 1 : SQPlaces(Tail(window))[k] = SQPlaces(window)[k + 1]
    BY <1>1, HeadType, PlacesTail
  <2>3. /\ Pop(SQ, SQSize) \in Ring(0 .. SQSize - 1, Store, SQSize)
        /\ RingExact(Pop(SQ, SQSize), SQSize, Tail(window), "store", SQPlaces(Tail(window)))
    BY <1>1, <2>1, <2>2, HeadType, QueuesAreRings, StoreEntries, RingAfterPop
  <2> QED
    BY <1>1, <2>3 DEF SQExact
<1>3. LQExact'
  BY <1>1, LQAfterTail
<1>4. mem' \in [0 .. MemSize - 1 -> Byte]
  <2>1. LSUTypeOK /\ SQ \in Ring(0 .. SQSize - 1, Store, SQSize)
    BY QueuesAreRings DEF LSUInv
  <2>2. HeadStore \in Store
    BY <2>1 DEF HeadStore, Ring
  <2>3. HeadStore.addr \in Addr /\ HeadStore.value \in Datum \cup {<<>>}
    BY <2>2 DEF Store
  <2>4. mem \in [0 .. MemSize - 1 -> Byte]
    BY <2>1 DEF LSUTypeOK
  <2> QED
    BY <2>3, <2>4, <1>1, WriteType
<1>5. LSUTypeOK'
  BY <1>1, <1>2, <1>4, HeadType DEF LSUTypeOK, SQSlot
<1> QED
  BY <1>2, <1>3, <1>5 DEF LSUInv

LEMMA RetireBranchInv == LSUInv /\ RetireBranch => LSUInv'
<1> SUFFICES ASSUME LSUInv, RetireBranch PROVE LSUInv'
  OBVIOUS
<1>1. /\ window # <<>> /\ Head(window).kind = "branch" /\ window' = Tail(window)
      /\ SQ' = SQ /\ LQ' = LQ /\ mem' = mem
  BY DEF RetireBranch, Retiring
<1>2. LQExact' /\ SQExact'
  BY <1>1, LQAfterTail, SQAfterTail
<1>3. LSUTypeOK'
  BY <1>1, HeadType DEF LSUTypeOK
<1> QED
  BY <1>2, <1>3 DEF LSUInv

LEMMA FlushType ==
  ASSUME NEW n \in Nat \ {0}, NEW E, EntriesOf(E), NEW q \in Ring(0 .. n - 1, E, n),
         NEW kind, NEW places
  PROVE  /\ Flush(q) \in Ring(0 .. n - 1, E, n)
         /\ RingExact(Flush(q), n, <<>>, kind, places)
<1> DEFINE b == [i \in 0 .. n - 1 |-> [q.buf[i] EXCEPT !.valid = FALSE]]
<1>1. b \in [0 .. n - 1 -> E] /\ \A i \in 0 .. n - 1 : b[i].valid = FALSE
  BY DEF EntriesOf, Ring
<1>2. Flush(q) = EmptyRing(b)
  BY DEF Flush, Ring
<1> HIDE DEF b
<1> QED
  BY <1>1, <1>2, RingEmpty

LEMMA SquashInv ==
  ASSUME LSUInv, Squash, mem' = mem
  PROVE  LSUInv'
<1>1. LSUTypeOK /\ LQ' = Flush(LQ) /\ SQ' = Flush(SQ) /\ window' = <<>>
  BY DEF LSUInv, Squash
<1>2. LQ' \in Ring(0 .. LQSize - 1, Load, LQSize) /\ LQExact'
  BY <1>1, QueuesAreRings, LoadEntries, FlushType DEF LQExact
<1>3. SQ' \in Ring(0 .. SQSize - 1, Store, SQSize) /\ SQExact'
  BY <1>1, QueuesAreRings, StoreEntries, FlushType DEF SQExact
<1>4. window' \in Seq(Flying) /\ Len(window') = 0
  BY <1>1
<1>5. LSUTypeOK'
  BY <1>1, <1>2, <1>3, <1>4, LSUAssumption DEF LSUTypeOK, LQSlot, SQSlot
<1> QED
  BY <1>2, <1>3, <1>5 DEF LSUInv

-----------------------------------------------------------------------------
LEMMA StutterInv == LSUInv /\ UNCHANGED vars => LSUInv'
BY DEF LSUInv, LSUTypeOK, LQExact, SQExact, vars

LEMMA NextInv == LSUInv /\ [Next]_vars => LSUInv'
<1> SUFFICES ASSUME LSUInv, [Next]_vars PROVE LSUInv'
  OBVIOUS
<1>1. CASE DispatchLoad
  BY <1>1, DispatchLoadInv
<1>2. CASE DispatchStore
  BY <1>2, DispatchStoreInv
<1>3. CASE DispatchBranch
  BY <1>3, DispatchBranchInv
<1>4. ASSUME NEW k \in DOMAIN window, ExecuteLoad(k) PROVE LSUInv'
  BY <1>4, ExecuteLoadInv
<1>5. ASSUME NEW k \in DOMAIN window, LoadReplay(k) PROVE LSUInv'
  BY <1>5, LoadReplayInv
<1>6. ASSUME NEW k \in DOMAIN window, ExecuteStore(k) PROVE LSUInv'
  BY <1>6, ExecuteStoreInv
<1>7. ASSUME NEW k \in DOMAIN window, ResolveCorrect(k) PROVE LSUInv'
  BY <1>7, ResolveCorrectInv
<1>8. ASSUME NEW k \in DOMAIN window, ResolveMispredict(k) PROVE LSUInv'
  BY <1>8, ResolveMispredictInv
<1>9. CASE RetireLoad
  BY <1>9, RetireLoadInv
<1>10. CASE RetireBadLoad
  BY <1>10, SquashInv DEF RetireBadLoad
<1>11. CASE RetireStore
  BY <1>11, RetireStoreInv
<1>12. CASE RetireBadStore
  BY <1>12, SquashInv DEF RetireBadStore
<1>13. CASE RetireBranch
  BY <1>13, RetireBranchInv
<1>14. CASE Squash /\ UNCHANGED mem
  BY <1>14, SquashInv
<1>15. CASE UNCHANGED vars
  BY <1>15, StutterInv
<1> QED
  BY <1>1, <1>2, <1>3, <1>4, <1>5, <1>6, <1>7, <1>8, <1>9, <1>10, <1>11, <1>12, <1>13,
     <1>14, <1>15 DEF Next

(* The load and the store queue never leave their shape: indices stay      *)
(* inside, lengths within the size, memory keeps its bytes (lsu.h).        *)
THEOREM LSUTypeCorrect == Spec => []LSUTypeOK
<1>1. LSUInv => LSUTypeOK
  BY DEF LSUInv
<1> QED
  BY InitInv, NextInv, <1>1, PTL DEF Spec

(* Whatever is dispatched, recovered, committed or flushed, the queues     *)
(* hold exactly the loads and stores in flight, and every index and phase  *)
(* taken at dispatch names the place it named then (lsu.cc: dispatch,      *)
(* restore, commit, flush).                                                *)
THEOREM LSURings == Spec => []RingsExact
<1>1. LSUInv => RingsExact
  BY DEF LSUInv, RingsExact
<1> QED
  BY InitInv, NextInv, <1>1, PTL DEF Spec

-----------------------------------------------------------------------------
(* Which instruction an entry belongs to: the rings are searched by index, *)
(* the window has the same instructions in program order.                  *)

LEMMA RankWithin ==
  ASSUME NEW w, NEW j \in Nat \ {0}, NEW k \in Nat, j < k, NEW kind, w[j].kind = kind
  PROVE  Rank(w, j, kind) < Rank(w, k, kind)
<1>1. Rank(w, j + 1, kind) = Rank(w, j, kind) + 1
  BY RankStep
<1>2. Rank(w, j + 1, kind) <= Rank(w, k, kind)
  BY RankMonotone
<1> QED
  BY <1>1, <1>2, RankType

LEMMA NthOfKind ==
  ASSUME NEW w, NEW k \in Nat \ {0}, NEW kind, NEW r \in Nat, r < Rank(w, k, kind)
  PROVE  \E j \in Earlier(w, k, kind) : Rank(w, j, kind) = r
<1> DEFINE T == {j \in 1 .. k - 1 : r < Rank(w, j + 1, kind)}
<1>1. k - 1 \in T
  <2>1. k # 1
    BY RankFirst
  <2> QED
    BY <2>1
<1>2. T \subseteq Nat /\ T # {}
  BY <1>1
<1> HIDE DEF T
<1>3. PICK j \in T : \A i \in T : j <= i
  BY <1>2, LeastElement
<1>4. j \in 1 .. k - 1 /\ r < Rank(w, j + 1, kind)
  BY <1>3 DEF T
<1>5. Rank(w, j, kind) <= r
  <2>1. CASE j = 1
    BY <2>1, RankFirst
  <2>2. CASE j # 1
    <3>1. j - 1 \in 1 .. k - 1 /\ j - 1 \notin T /\ (j - 1) + 1 = j
      BY <1>3, <1>4, <2>2
    <3>2. ~(r < Rank(w, j, kind))
      BY <3>1 DEF T
    <3> QED
      BY <3>2, <1>4, RankType
  <2> QED
    BY <2>1, <2>2
<1>6. Rank(w, j + 1, kind) = Rank(w, j, kind) + (IF w[j].kind = kind THEN 1 ELSE 0)
  BY <1>4, RankStep
<1>7. w[j].kind = kind /\ Rank(w, j, kind) = r
  BY <1>4, <1>5, <1>6, RankType
<1> QED
  BY <1>4, <1>7 DEF Earlier

LEMMA BetweenNames ==
  ASSUME NEW n \in Nat \ {0}, NEW E, NEW q \in Ring(0 .. n - 1, E, n),
         NEW a \in 0 .. n, NEW i, NEW o, Names(i, o, q, n, a),
         NEW b \in a .. n, NEW j, NEW p, Names(j, p, q, n, b)
  PROVE  /\ Distance(i, o, j, p, n) = b - a
         /\ MOD_S(j + n - (b - a), n) = i
         /\ MOD_S(i + (b - a), n) = j
<1> DEFINE h == q.head
<1>1. /\ n \in Nat \ {0} /\ h \in 0 .. n - 1 /\ q.head_phase \in {0, 1}
      /\ a \in 0 .. n /\ b \in 0 .. n /\ a <= b
      /\ i = MOD_S(h + a, n) /\ j = MOD_S(h + b, n)
      /\ o = IF h + a >= n THEN 1 - q.head_phase ELSE q.head_phase
      /\ p = IF h + b >= n THEN 1 - q.head_phase ELSE q.head_phase
  BY DEF Names, Ring, Phase
<1> HIDE DEF h
<1>2. CASE h + b < n
  <2>1. i = h + a /\ j = h + b /\ o = p
    BY <1>1, <1>2 DEF MOD_S
  <2>2. Distance(i, o, j, p, n) = b - a
    BY <1>1, <2>1 DEF Distance, MOD_S
  <2> QED
    BY <1>1, <1>2, <2>1, <2>2 DEF MOD_S
<1>3. CASE h + a < n /\ h + b >= n
  <2>1. i = h + a /\ j = h + b - n /\ o # p
    BY <1>1, <1>3 DEF MOD_S
  <2>2. Distance(i, o, j, p, n) = b - a
    <3>1. CASE b = a + n
      BY <1>1, <2>1, <3>1 DEF Distance
    <3>2. CASE b # a + n
      <4>1. n \in Int /\ h \in Int /\ a \in Int /\ b \in Int
        BY <1>1
      <4>2. b - a < n /\ n + (h + b - n) - (h + a) = b - a
        BY <1>1, <3>2, <4>1
      <4>3. h + a # h + b - n
        BY <3>2, <4>1
      <4>4. i # j /\ ~(n + j - i >= n) /\ n + j - i = b - a
        BY <2>1, <4>1, <4>2, <4>3
      <4> QED
        BY <4>4 DEF Distance, MOD_S
    <3> QED
      BY <3>1, <3>2
  <2> QED
    BY <1>1, <1>3, <2>1, <2>2 DEF MOD_S
<1>4. CASE h + a >= n
  <2>1. i = h + a - n /\ j = h + b - n /\ o = p
    BY <1>1, <1>4 DEF MOD_S
  <2>2. Distance(i, o, j, p, n) = b - a
    BY <1>1, <2>1 DEF Distance, MOD_S
  <2> QED
    BY <1>1, <1>4, <2>1, <2>2 DEF MOD_S
<1> QED
  BY <1>1, <1>2, <1>3, <1>4

LEMMA StorePlaces ==
  ASSUME LSUInv, NEW k \in DOMAIN window
  PROVE  /\ k \in Nat \ {0} /\ Rank(window, k, "store") \in 0 .. SQSize
         /\ Names(window[k].SQ_index, window[k].SQ_phase, SQ, SQSize, Rank(window, k, "store"))
         /\ window[k].SQ_index \in 0 .. SQSize - 1
         /\ window[k].kind = "store" => Rank(window, k, "store") < SQ.length
<1>1. /\ RingExact(SQ, SQSize, window, "store", SQPlaces(window))
      /\ DOMAIN window = 1 .. Len(window) /\ Len(window) \in Nat /\ window[k] \in Flying
      /\ SQ \in Ring(0 .. SQSize - 1, Store, SQSize)
  BY WindowType, QueuesAreRings DEF LSUInv, SQExact
<1>2. SQ.length = Rank(window, Len(window) + 1, "store") /\ SQ.length \in 0 .. SQSize
  BY <1>1 DEF RingExact, Ring
<1>3. Rank(window, k, "store") <= SQ.length /\ Rank(window, k, "store") \in Nat
  BY <1>1, <1>2, RankMonotone, RankType
<1>4. window[k].kind = "store" => Rank(window, k, "store") < SQ.length
  BY <1>1, <1>2, RankWithin
<1>5. window[k].SQ_index \in 0 .. SQSize - 1
  BY <1>1 DEF Flying, SQSlot
<1>6. SQPlaces(window)[k] = <<window[k].SQ_index, window[k].SQ_phase>>
  BY DEF SQPlaces
<1>7. Names(window[k].SQ_index, window[k].SQ_phase, SQ, SQSize, Rank(window, k, "store"))
  BY <1>1, <1>6 DEF RingExact
<1>8. k \in Nat \ {0}
  BY <1>1
<1>9. Rank(window, k, "store") \in 0 .. SQSize
  BY <1>2, <1>3, LSUAssumption
<1> QED
  BY <1>4, <1>5, <1>7, <1>8, <1>9

LEMMA LoadPlaces ==
  ASSUME LSUInv, NEW k \in DOMAIN window
  PROVE  /\ k \in Nat \ {0} /\ Rank(window, k, "load") \in 0 .. LQSize
         /\ Names(window[k].LQ_index, window[k].LQ_phase, LQ, LQSize, Rank(window, k, "load"))
         /\ window[k].LQ_index \in 0 .. LQSize - 1
         /\ window[k].kind = "load" => Rank(window, k, "load") < LQ.length
<1>1. /\ RingExact(LQ, LQSize, window, "load", LQPlaces(window))
      /\ DOMAIN window = 1 .. Len(window) /\ Len(window) \in Nat /\ window[k] \in Flying
      /\ LQ \in Ring(0 .. LQSize - 1, Load, LQSize)
  BY WindowType, QueuesAreRings DEF LSUInv, LQExact
<1>2. LQ.length = Rank(window, Len(window) + 1, "load") /\ LQ.length \in 0 .. LQSize
  BY <1>1 DEF RingExact, Ring
<1>3. Rank(window, k, "load") <= LQ.length /\ Rank(window, k, "load") \in Nat
  BY <1>1, <1>2, RankMonotone, RankType
<1>4. window[k].kind = "load" => Rank(window, k, "load") < LQ.length
  BY <1>1, <1>2, RankWithin
<1>5. window[k].LQ_index \in 0 .. LQSize - 1
  BY <1>1 DEF Flying, LQSlot
<1>6. LQPlaces(window)[k] = <<window[k].LQ_index, window[k].LQ_phase>>
  BY DEF LQPlaces
<1>7. Names(window[k].LQ_index, window[k].LQ_phase, LQ, LQSize, Rank(window, k, "load"))
  BY <1>1, <1>6 DEF RingExact
<1>8. k \in Nat \ {0}
  BY <1>1
<1>9. Rank(window, k, "load") \in 0 .. LQSize
  BY <1>2, <1>3, LSUAssumption
<1> QED
  BY <1>4, <1>5, <1>7, <1>8, <1>9

(* The places of a ring that two instructions have, or that the tail has.  *)
LEMMA PlacesDiffer ==
  ASSUME NEW n \in Nat \ {0}, NEW E, NEW q \in Ring(0 .. n - 1, E, n),
         NEW a \in 0 .. n - 1, NEW i, NEW o, Names(i, o, q, n, a),
         NEW b \in 0 .. n - 1, NEW j, NEW p, Names(j, p, q, n, b), a # b
  PROVE  i # j
<1> DEFINE h == q.head
<1>1. h \in 0 .. n - 1 /\ i = MOD_S(h + a, n) /\ j = MOD_S(h + b, n)
  BY DEF Names, Ring
<1> HIDE DEF h
<1> QED
  BY <1>1 DEF MOD_S

LEMMA LoadsApart ==
  ASSUME LSUInv, NEW j \in DOMAIN window, NEW k \in DOMAIN window,
         window[j].kind = "load", window[k].kind = "load", j # k
  PROVE  window[j].LQ_index # window[k].LQ_index
<1>1. LQSize \in Nat \ {0} /\ LQ \in Ring(0 .. LQSize - 1, Load, LQSize) /\ LQ.length \in 0 .. LQSize
  BY QueuesAreRings DEF LSUInv, Ring
<1>2. Rank(window, j, "load") # Rank(window, k, "load")
  BY RankWithin, RankType, LoadPlaces
<1>3. Rank(window, j, "load") \in 0 .. LQSize - 1 /\ Rank(window, k, "load") \in 0 .. LQSize - 1
  BY <1>1, LoadPlaces
<1> QED
  BY <1>1, <1>2, <1>3, LoadPlaces, PlacesDiffer

LEMMA StoresApart ==
  ASSUME LSUInv, NEW j \in DOMAIN window, NEW k \in DOMAIN window,
         window[j].kind = "store", window[k].kind = "store", j # k
  PROVE  window[j].SQ_index # window[k].SQ_index
<1>1. SQSize \in Nat \ {0} /\ SQ \in Ring(0 .. SQSize - 1, Store, SQSize) /\ SQ.length \in 0 .. SQSize
  BY QueuesAreRings DEF LSUInv, Ring
<1>2. Rank(window, j, "store") # Rank(window, k, "store")
  BY RankWithin, RankType, StorePlaces
<1>3. Rank(window, j, "store") \in 0 .. SQSize - 1 /\ Rank(window, k, "store") \in 0 .. SQSize - 1
  BY <1>1, StorePlaces
<1> QED
  BY <1>1, <1>2, <1>3, StorePlaces, PlacesDiffer

(* The stores that disambiguate() visits are the older ones in the window. *)
Linked(l, k) == l.sq_index = window[k].SQ_index /\ l.sq_index_phase = window[k].SQ_phase
Visits(l, k, d, j) ==
  /\ d = Rank(window, k, "store") - Rank(window, j, "store")
  /\ d \in 1 .. PriorStores(l) /\ StoreBefore(l, d) = StoreOf(j)

LEMMA VisitsOlder ==
  ASSUME LSUInv, NEW k \in DOMAIN window, NEW l, Linked(l, k)
  PROVE  /\ \A j \in Earlier(window, k, "store") : \E d \in 1 .. PriorStores(l) : Visits(l, k, d, j)
         /\ \A d \in 1 .. PriorStores(l) : \E j \in Earlier(window, k, "store") : Visits(l, k, d, j)
<1> DEFINE r == Rank(window, k, "store")
<1>1. SQSize \in Nat \ {0} /\ SQ \in Ring(0 .. SQSize - 1, Store, SQSize)
      /\ DOMAIN window = 1 .. Len(window) /\ Len(window) \in Nat
  BY QueuesAreRings, WindowType DEF LSUInv
<1>2. k \in Nat \ {0} /\ r \in 0 .. SQSize /\ Names(l.sq_index, l.sq_index_phase, SQ, SQSize, r)
  BY StorePlaces DEF Linked
<1>3. PriorStores(l) = r
  BY <1>1, <1>2, DistanceIsRank DEF PriorStores
<1>4. ASSUME NEW j \in Earlier(window, k, "store")
      PROVE  Visits(l, k, r - Rank(window, j, "store"), j)
  <2> DEFINE a == Rank(window, j, "store")
  <2>1. j \in DOMAIN window /\ j < k /\ window[j].kind = "store"
    BY <1>1, <1>2 DEF Earlier
  <2>2. /\ a \in 0 .. SQSize /\ a < r /\ j \in Nat \ {0}
        /\ Names(window[j].SQ_index, window[j].SQ_phase, SQ, SQSize, a)
    BY <1>2, <2>1, StorePlaces, RankWithin
  <2>3. MOD_S(l.sq_index + SQSize - (r - a), SQSize) = window[j].SQ_index
    <3>1. r \in a .. SQSize
      BY <1>2, <2>2
    <3> HIDE DEF r, a
    <3> QED
      BY <1>1, <1>2, <2>2, <3>1, BetweenNames
  <2>4. StoreBefore(l, r - a) = StoreOf(j)
    BY <2>3 DEF StoreBefore, StoreOf
  <2>5. r - a \in 1 .. r
    BY <1>2, <2>2
  <2> QED
    BY <1>3, <2>4, <2>5 DEF Visits
<1>5. ASSUME NEW d \in 1 .. PriorStores(l)
      PROVE  \E j \in Earlier(window, k, "store") : Visits(l, k, d, j)
  <2>1. r - d \in Nat /\ r - d < r
    BY <1>2, <1>3
  <2>2. PICK j \in Earlier(window, k, "store") : Rank(window, j, "store") = r - d
    BY <1>2, <2>1, NthOfKind
  <2>3. r - Rank(window, j, "store") = d
    BY <1>2, <1>3, <2>2
  <2> QED
    BY <1>4, <2>3
<1> QED
  BY <1>4, <1>5 DEF Visits

(* disambiguate() in terms of the window.                                  *)
Decides(j, l) == IF StoreOf(j).addr_avail THEN Conflict(StoreOf(j), l) ELSE l.mdp_stall

LEMMA Disambiguated ==
  ASSUME LSUInv, NEW k \in DOMAIN window, NEW l, Linked(l, k)
  PROVE  /\ Disambiguate(l).how \in {"memory", "forward", "stall"}
         /\ Disambiguate(l).how = "memory" =>
              \A j \in Earlier(window, k, "store") : ~Decides(j, l)
         /\ Disambiguate(l).how = "forward" =>
              \E j \in Earlier(window, k, "store") :
                /\ Decides(j, l) /\ StoreOf(j).addr_avail /\ StoreOf(j).size = l.size
                /\ StoreOf(j).value_avail /\ StoreOf(j).value = Disambiguate(l).value
                /\ \A i \in Earlier(window, k, "store") : j < i => ~Decides(i, l)
<1> DEFINE D == {j \in 1 .. PriorStores(l) :
                   LET s == StoreBefore(l, j)
                   IN  IF s.addr_avail THEN Conflict(s, l) ELSE l.mdp_stall}
           first == CHOOSE j \in D : \A i \in D : j <= i
           s == StoreBefore(l, first)
<1>1. Disambiguate(l) = IF D = {} THEN [how |-> "memory"]
                        ELSE IF s.addr_avail /\ s.size = l.size /\ s.value_avail
                             THEN [how |-> "forward", value |-> s.value]
                             ELSE [how |-> "stall"]
  BY DEF Disambiguate
<1>2. ASSUME NEW j \in Earlier(window, k, "store"), NEW d, Visits(l, k, d, j)
      PROVE  d \in D <=> Decides(j, l)
  BY <1>2 DEF Visits, Decides
<1>3. CASE D = {}
  <2>1. \A j \in Earlier(window, k, "store") : ~Decides(j, l)
    BY <1>2, <1>3, VisitsOlder
  <2> QED
    BY <1>1, <1>3, <2>1
<1>4. CASE D # {}
  <2>1. D \subseteq Nat
    OBVIOUS
  <2> HIDE DEF D
  <2>2. \E j \in D : \A i \in D : j <= i
    BY <1>4, <2>1, LeastElement
  <2>3. first \in D /\ \A i \in D : first <= i
    BY <2>2
  <2> HIDE DEF first
  <2>4. PICK j \in Earlier(window, k, "store") : Visits(l, k, first, j)
    BY <2>3, VisitsOlder DEF D
  <2>5. Decides(j, l) /\ s = StoreOf(j)
    BY <1>2, <2>3, <2>4 DEF Visits
  <2>6. ASSUME NEW i \in Earlier(window, k, "store"), j < i
        PROVE  ~Decides(i, l)
    <3>1. PICK d \in 1 .. PriorStores(l) : Visits(l, k, d, i)
      BY VisitsOlder
    <3>2. Rank(window, j, "store") < Rank(window, i, "store")
      <4>1. i \in Nat /\ j \in Nat \ {0} /\ window[j].kind = "store"
        BY StorePlaces DEF Earlier
      <4> QED
        BY <4>1, <2>6, RankWithin
    <3>3. d < first
      <4>1. /\ Rank(window, j, "store") \in Nat /\ Rank(window, i, "store") \in Nat
            /\ Rank(window, k, "store") \in Nat
        <5>1. i \in Nat /\ j \in Nat /\ k \in Nat
          BY StorePlaces DEF Earlier
        <5> QED
          BY <5>1, RankType
      <4> QED
        BY <2>4, <3>1, <3>2, <4>1 DEF Visits
    <3>4. d \notin D
      BY <2>1, <2>3, <3>1, <3>3
    <3> QED
      BY <1>2, <3>1, <3>4
  <2>7. Disambiguate(l) = IF s.addr_avail /\ s.size = l.size /\ s.value_avail
                          THEN [how |-> "forward", value |-> s.value]
                          ELSE [how |-> "stall"]
    BY <1>1, <1>4
  <2> HIDE DEF s
  <2>8. CASE s.addr_avail /\ s.size = l.size /\ s.value_avail
    <3>1. Disambiguate(l) = [how |-> "forward", value |-> s.value]
      BY <2>7, <2>8
    <3>2. Disambiguate(l).how = "forward" /\ Disambiguate(l).value = StoreOf(j).value
      BY <3>1, <2>5
    <3> QED
      BY <3>2, <2>5, <2>6, <2>8
  <2>9. CASE ~(s.addr_avail /\ s.size = l.size /\ s.value_avail)
    BY <2>7, <2>9
  <2> QED
    BY <2>8, <2>9
<1> QED
  BY <1>3, <1>4

(* The loads that ld_violation() looks at are the younger ones.            *)
Later(k) == {m \in DOMAIN window : k < m /\ window[m].kind = "load"}
Finds(k, d, m) ==
  /\ d = Rank(window, m, "load") - Rank(window, k, "load") + 1
  /\ d \in LoadsFrom(window[k]) /\ LoadAfter(window[k], d) = window[m].LQ_index

LEMMA FindsYounger ==
  ASSUME LSUInv, NEW k \in DOMAIN window, window[k].kind = "store"
  PROVE  /\ \A m \in Later(k) : \E d \in LoadsFrom(window[k]) : Finds(k, d, m)
         /\ \A d \in LoadsFrom(window[k]) : \E m \in Later(k) : Finds(k, d, m)
<1> DEFINE r == Rank(window, k, "load")
           f == window[k]
           end == Len(window) + 1
           all == LQ.length
<1>1. LQSize \in Nat \ {0} /\ LQ \in Ring(0 .. LQSize - 1, Load, LQSize)
      /\ DOMAIN window = 1 .. Len(window) /\ Len(window) \in Nat
      /\ RingExact(LQ, LQSize, window, "load", LQPlaces(window))
  BY QueuesAreRings, WindowType DEF LSUInv, LQExact
<1>2. k \in Nat \ {0} /\ k < end /\ r \in 0 .. LQSize /\ Names(f.LQ_index, f.LQ_phase, LQ, LQSize, r)
  BY <1>1, LoadPlaces
<1>3. all = Rank(window, end, "load") /\ Names(LQ.tail, LQ.tail_phase, LQ, LQSize, all)
      /\ all \in 0 .. LQSize
  BY <1>1 DEF RingExact, Ring
<1>4. all \in r .. LQSize
  BY <1>1, <1>2, <1>3, RankMonotone
<1> HIDE DEF r, f, end, all
<1>5. LoadsFrom(f) = 1 .. all - r
  BY <1>1, <1>2, <1>3, <1>4, BetweenNames DEF LoadsFrom
<1>6. ASSUME NEW m \in Later(k)
      PROVE  Finds(k, Rank(window, m, "load") - r + 1, m)
  <2> DEFINE b == Rank(window, m, "load")
  <2>1. m \in DOMAIN window /\ window[m].kind = "load" /\ k < m
    BY DEF Later
  <2>2. /\ m \in Nat \ {0} /\ b \in 0 .. LQSize /\ b < all
        /\ Names(window[m].LQ_index, window[m].LQ_phase, LQ, LQSize, b)
    BY <2>1, LoadPlaces DEF all
  <2>3. b \in r .. LQSize
    BY <1>2, <2>1, <2>2, RankMonotone DEF r
  <2> HIDE DEF b
  <2>4. MOD_S(f.LQ_index + (b - r), LQSize) = window[m].LQ_index
    BY <1>1, <1>2, <2>2, <2>3, BetweenNames
  <2>5. f.LQ_index + (b - r + 1) - 1 = f.LQ_index + (b - r) /\ b - r + 1 \in 1 .. all - r
    <3>1. f.LQ_index \in Int
      BY <1>1, LoadPlaces DEF f
    <3>2. b \in Int /\ r \in Int /\ all \in Int /\ r <= b /\ b < all
      BY <1>1, <1>2, <1>3, <2>2, <2>3
    <3> HIDE DEF f
    <3> QED
      BY <3>1, <3>2
  <2>6. LoadAfter(f, b - r + 1) = window[m].LQ_index
    BY <2>4, <2>5 DEF LoadAfter
  <2> QED
    BY <1>5, <2>5, <2>6 DEF Finds, b, f, r
<1>7. ASSUME NEW d \in 1 .. all - r
      PROVE  \E m \in Later(k) : Rank(window, m, "load") - r + 1 = d
  <2>1. r + d - 1 \in Nat /\ r + d - 1 < Rank(window, end, "load")
    BY <1>2, <1>3, <1>4
  <2>2. PICK m \in Earlier(window, end, "load") : Rank(window, m, "load") = r + d - 1
    BY <1>1, <2>1, NthOfKind DEF end
  <2>3. m \in DOMAIN window /\ m \in Nat \ {0} /\ window[m].kind = "load"
    BY <1>1 DEF Earlier, end
  <2>4. ~(m < k)
    <3>1. m < k => r + d - 1 < r
      BY <1>2, <2>2, <2>3, RankWithin DEF r
    <3> QED
      BY <1>2, <1>4, <3>1
  <2>5. m # k
    BY <2>3
  <2>6. m \in Later(k)
    BY <1>2, <2>3, <2>4, <2>5 DEF Later
  <2> QED
    BY <1>2, <1>4, <2>2, <2>6
<1>8. \A m \in Later(k) : \E d \in LoadsFrom(window[k]) : Finds(k, d, m)
  BY <1>6 DEF Finds
<1>9. \A d \in LoadsFrom(window[k]) : \E m \in Later(k) : Finds(k, d, m)
  BY <1>5, <1>6, <1>7 DEF f
<1> QED
  BY <1>8, <1>9

(* store_addr() marks the first of the loads that ran too early: no later  *)
(* than any of them.                                                       *)
FirstViolated(f, s) == LoadAfter(f, CHOOSE j \in Violated(f, s) : \A i \in Violated(f, s) : j <= i)

LEMMA ViolationFound ==
  ASSUME LSUInv, NEW k \in DOMAIN window, window[k].kind = "store", NEW s,
         NEW m \in Later(k), LoadOf(m).value_avail, Conflict(s, LoadOf(m))
  PROVE  /\ Violated(window[k], s) # {}
         /\ \E i \in Later(k) : i <= m /\ window[i].LQ_index = FirstViolated(window[k], s)
<1> DEFINE V == Violated(window[k], s)
           first == CHOOSE j \in V : \A i \in V : j <= i
<1>1. PICK d \in LoadsFrom(window[k]) : Finds(k, d, m)
  BY FindsYounger
<1>2. d \in V
  BY <1>1 DEF Violated, Finds, LoadOf
<1>3. V \subseteq Nat /\ V \subseteq LoadsFrom(window[k])
  BY DEF Violated, LoadsFrom
<1> HIDE DEF V
<1>4. \E j \in V : \A i \in V : j <= i
  BY <1>2, <1>3, LeastElement
<1>5. first \in V /\ first <= d
  BY <1>2, <1>4
<1> HIDE DEF first
<1>6. PICK i \in Later(k) : Finds(k, first, i)
  BY <1>3, <1>5, FindsYounger
<1>7. i <= m
  <2>1. /\ i \in Nat \ {0} /\ m \in Nat \ {0} /\ window[m].kind = "load"
        /\ Rank(window, i, "load") \in Nat /\ Rank(window, m, "load") \in Nat
        /\ Rank(window, k, "load") \in Nat
    BY LoadPlaces, RankType DEF Later
  <2>2. Rank(window, i, "load") <= Rank(window, m, "load")
    BY <1>1, <1>5, <1>6, <2>1 DEF Finds
  <2>3. ~(m < i)
    BY <2>1, <2>2, RankWithin
  <2> QED
    BY <2>1, <2>3
<1> QED
  BY <1>2, <1>6, <1>7 DEF Finds, FirstViolated, V, first

-----------------------------------------------------------------------------
(* Addresses: the masked comparison finds exactly the accesses that share  *)
(* a byte, as long as addresses are aligned and the mask takes nothing.    *)

LEMMA SmallMod ==
  ASSUME NEW n \in Nat \ {0}, NEW a \in 0 .. n - 1
  PROVE  a % n = a
OBVIOUS

LEMMA Blocks ==
  ASSUME NEW a \in Nat, NEW c \in Nat, NEW n \in {1, 2, 4, 8}, NEW m \in {1, 2, 4, 8},
         a % n = 0, c % m = 0, n >= m
  PROVE  /\ a \div n = c \div n /\ n = m => a = c
         /\ \A b \in Nat : a <= b /\ b < a + n /\ c <= b /\ b < c + m => a \div n = c \div n
<1>1. CASE n = 1
  BY <1>1
<1>2. CASE n = 2 /\ m = 1
  BY <1>2
<1>3. CASE n = 2 /\ m = 2
  BY <1>3
<1>4. CASE n = 4 /\ m = 1
  BY <1>4
<1>5. CASE n = 4 /\ m = 2
  BY <1>5
<1>6. CASE n = 4 /\ m = 4
  BY <1>6
<1>7. CASE n = 8 /\ m = 1
  BY <1>7
<1>8. CASE n = 8 /\ m = 2
  BY <1>8
<1>9. CASE n = 8 /\ m = 4
  BY <1>9
<1>10. CASE n = 8 /\ m = 8
  BY <1>10
<1> QED
  BY <1>1, <1>2, <1>3, <1>4, <1>5, <1>6, <1>7, <1>8, <1>9, <1>10

Plain == ~Misaligned /\ AddrSpace <= MaskSpace
Bytes(e) == e.addr .. e.addr + e.size - 1

LEMMA ConflictIsOverlap ==
  ASSUME Plain, NEW s, NEW l, s.size \in Sizes, l.size \in Sizes,
         s.addr \in AddrOf(s.size), l.addr \in AddrOf(l.size)
  PROVE  /\ Conflict(s, l) /\ s.size = l.size => s.addr = l.addr
         /\ ~Conflict(s, l) => Bytes(s) \cap Bytes(l) = {}
<1> DEFINE a == s.addr
           c == l.addr
           n == s.size
           m == l.size
<1>1. /\ n \in {1, 2, 4, 8} /\ m \in {1, 2, 4, 8} /\ a \in Nat /\ c \in Nat
      /\ a % n = 0 /\ c % m = 0
      /\ MaskSpace \in Nat \ {0} /\ a \in 0 .. MaskSpace - 1 /\ c \in 0 .. MaskSpace - 1
  <2>1. /\ a \in Addr /\ a % n = 0 /\ c \in Addr /\ c % m = 0
        /\ n \in {1, 2, 4, 8} /\ m \in {1, 2, 4, 8}
    <3>1. AddrOf(n) = {x \in Addr : x % n = 0} /\ AddrOf(m) = {x \in Addr : x % m = 0}
      BY DEF AddrOf, Plain
    <3>2. a \in AddrOf(n) /\ c \in AddrOf(m) /\ n \in Sizes /\ m \in Sizes
      OBVIOUS
    <3> HIDE DEF a, c, n, m
    <3> QED
      BY <3>1, <3>2, LSUAssumption
  <2>2. MaskSpace \in Nat \ {0} /\ AddrSpace \in Nat \ {0} /\ AddrSpace <= MaskSpace
    BY LSUAssumption DEF Plain
  <2> HIDE DEF a, c, n, m
  <2>3. a \in 0 .. AddrSpace - 1 /\ c \in 0 .. AddrSpace - 1
    BY <2>1 DEF Addr
  <2> QED
    BY <2>1, <2>2, <2>3
<1>2. a % MaskSpace = a /\ c % MaskSpace = c
  BY <1>1, SmallMod
<1>3. Conflict(s, l) <=> LET k == IF n > m THEN n ELSE m IN a \div k = c \div k
  BY <1>2 DEF Conflict
<1>4. Bytes(s) = a .. a + n - 1 /\ Bytes(l) = c .. c + m - 1
  BY DEF Bytes
<1> HIDE DEF a, c, n, m
<1>5. CASE n >= m
  <2>1. Conflict(s, l) <=> a \div n = c \div n
    BY <1>1, <1>3, <1>5
  <2>2. /\ a \div n = c \div n /\ n = m => a = c
        /\ \A b \in Nat : a <= b /\ b < a + n /\ c <= b /\ b < c + m => a \div n = c \div n
    BY <1>1, <1>5, Blocks
  <2>3. ~Conflict(s, l) => (a .. a + n - 1) \cap (c .. c + m - 1) = {}
    <3>1. SUFFICES ASSUME NEW b \in (a .. a + n - 1) \cap (c .. c + m - 1)
                   PROVE  a \div n = c \div n
      BY <2>1
    <3>2. n \in Nat /\ m \in Nat
      BY <1>1
    <3>3. b \in Nat /\ a <= b /\ b < a + n /\ c <= b /\ b < c + m
      BY <1>1, <3>2
    <3> QED
      BY <2>2, <3>3
  <2> QED
    BY <2>1, <2>2, <2>3, <1>4 DEF a, c, n, m
<1>6. CASE m > n
  <2>1. Conflict(s, l) <=> a \div m = c \div m
    BY <1>1, <1>3, <1>6
  <2>a. m >= n
    BY <1>1, <1>6
  <2>2. \A b \in Nat : c <= b /\ b < c + m /\ a <= b /\ b < a + n => c \div m = a \div m
    <3>1. c \in Nat /\ a \in Nat /\ m \in {1, 2, 4, 8} /\ n \in {1, 2, 4, 8}
      BY <1>1
    <3>2. c % m = 0 /\ a % n = 0
      BY <1>1
    <3> QED
      BY <3>1, <3>2, <2>a, Blocks
  <2>3. ~Conflict(s, l) => (a .. a + n - 1) \cap (c .. c + m - 1) = {}
    <3>1. SUFFICES ASSUME NEW b \in (a .. a + n - 1) \cap (c .. c + m - 1)
                   PROVE  a \div m = c \div m
      BY <2>1
    <3>2. n \in Nat /\ m \in Nat
      BY <1>1
    <3>3. b \in Nat /\ a <= b /\ b < a + n /\ c <= b /\ b < c + m
      BY <1>1, <3>2
    <3> QED
      BY <2>2, <3>3
  <2>4. n # m
    BY <1>1, <1>6
  <2> QED
    BY <2>3, <2>4, <1>4 DEF a, c, n, m
<1> QED
  BY <1>1, <1>5, <1>6

-----------------------------------------------------------------------------
(* Memory after a store has left the queue.                                *)

LEMMA ReadOwnWrite ==
  ASSUME NEW m \in [0 .. MemSize - 1 -> Byte], NEW a \in Nat, NEW n \in Sizes, ~Faults(a, n),
         NEW v \in DatumOf(n)
  PROVE  Read(Write(m, a, v), a, n) = v
<1>1. n \in Nat \ {0} /\ MemSize \in Nat /\ a + n <= MemSize
  BY SizesAreNat, LSUAssumption DEF Faults
<1>2. v \in [1 .. n -> Byte]
  BY DEF DatumOf
<1>3. Len(v) = n
  <2>1. v \in Seq(Byte)
    BY <1>1, <1>2
  <2> QED
    BY <1>1, <1>2, <2>1, LenProperties
<1>4. \A i \in 1 .. n : Write(m, a, v)[a + i - 1] = v[i]
  <2> TAKE i \in 1 .. n
  <2> DEFINE b == a + i - 1
  <2>1. b \in DOMAIN m /\ b \in a .. a + n - 1 /\ b - a + 1 = i
    BY <1>1
  <2> HIDE DEF b
  <2>2. Write(m, a, v)[b] = v[b - a + 1]
    BY <2>1, <1>3 DEF Write
  <2> QED
    BY <2>1, <2>2 DEF b
<1>5. Read(Write(m, a, v), a, n) = [i \in 1 .. n |-> v[i]]
  BY <1>4 DEF Read
<1> QED
  BY <1>2, <1>5

LEMMA ReadPastWrite ==
  ASSUME NEW m \in [0 .. MemSize - 1 -> Byte], NEW a \in Nat, NEW n \in Sizes,
         NEW v \in DatumOf(n), NEW c \in Nat, NEW k \in Sizes, ~Faults(c, k),
         (a .. a + n - 1) \cap (c .. c + k - 1) = {}
  PROVE  Read(Write(m, a, v), c, k) = Read(m, c, k)
<1>1. n \in Nat \ {0} /\ k \in Nat \ {0} /\ MemSize \in Nat /\ c + k <= MemSize
  BY SizesAreNat, LSUAssumption DEF Faults
<1>2. v \in [1 .. n -> Byte]
  BY DEF DatumOf
<1>3. Len(v) = n
  <2>1. v \in Seq(Byte)
    BY <1>1, <1>2
  <2> QED
    BY <1>1, <1>2, <2>1, LenProperties
<1>4. \A i \in 1 .. k : Write(m, a, v)[c + i - 1] = m[c + i - 1]
  <2> TAKE i \in 1 .. k
  <2> DEFINE b == c + i - 1
  <2>1. b \in DOMAIN m /\ b \in c .. c + k - 1
    BY <1>1
  <2>2. b \notin a .. a + Len(v) - 1
    BY <2>1, <1>3
  <2> HIDE DEF b
  <2>3. Write(m, a, v)[b] = m[b]
    BY <2>1, <2>2 DEF Write
  <2> QED
    BY <2>3 DEF b
<1> QED
  BY <1>4 DEF Read

-----------------------------------------------------------------------------
(* The invariant of the values: where each value that no mark covers came  *)
(* from, and what makes it still the right one.                            *)

(* The store j stands in no way of the load k: it does not conflict, or    *)
(* its address is unknown and the load was allowed to pass it.             *)
NoConflict(j, k) ==
  IF StoreOf(j).addr_avail THEN ~Conflict(StoreOf(j), LoadOf(k)) ELSE SpecDisambig

LoadOK(k) ==
  LET l == LoadOf(k) IN
  /\ Linked(l, k)
  /\ l.value_avail <=> window[k].stage = "done"
  /\ window[k].stage # "queued" => l.addr \in AddrOf(l.size)
  /\ SpecDisambig \/ l.mdp_stall
  /\ window[k].exception => l.value_avail /\ Faults(l.addr, l.size)

StoreOK(k) ==
  LET s == StoreOf(k) IN
  /\ s.value_avail <=> window[k].stage = "done"
  /\ s.value_avail => s.addr_avail /\ s.value \in DatumOf(s.size)
  /\ s.addr_avail => s.addr \in AddrOf(s.size)

ForwardedBy(j, k) ==
  /\ j \in Earlier(window, k, "store")
  /\ StoreOf(j).value_avail /\ Conflict(StoreOf(j), LoadOf(k))
  /\ StoreOf(j).size = LoadOf(k).size /\ StoreOf(j).value = LoadOf(k).value
  /\ \A i \in Earlier(window, k, "store") : j < i => NoConflict(i, k)

FromMemory(k) ==
  /\ \A i \in Earlier(window, k, "store") : NoConflict(i, k)
  /\ IF Faults(LoadOf(k).addr, LoadOf(k).size) THEN window[k].exception
     ELSE LoadOf(k).value = Read(mem, LoadOf(k).addr, LoadOf(k).size)

Marked(k)  == \E j \in 1 .. k : window[j].load_violation
ValueOK(k) == Marked(k) \/ FromMemory(k) \/ \E j : ForwardedBy(j, k)

InsnOK(k) ==
  /\ window[k].kind = "load" => LoadOK(k)
  /\ window[k].kind = "load" /\ LoadOf(k).value_avail => ValueOK(k)
  /\ window[k].kind = "store" => StoreOK(k)
  /\ window[k].load_violation => window[k].kind = "load"

ValuesInv == \A k \in DOMAIN window : InsnOK(k)

-----------------------------------------------------------------------------
(* What an action carries over: the instruction at k is the one that was   *)
(* at k + d, and has the same contents.                                    *)

SameLoad(m, l) ==
  /\ m.size = l.size /\ m.addr = l.addr
  /\ m.value_avail = l.value_avail /\ m.value = l.value
  /\ m.sq_index = l.sq_index /\ m.sq_index_phase = l.sq_index_phase
  /\ m.mdp_stall = l.mdp_stall
SameStore(t, s) ==
  /\ t.size = s.size /\ t.addr_avail = s.addr_avail /\ t.addr = s.addr
  /\ t.value_avail = s.value_avail /\ t.value = s.value
SameInsn(g, f) ==
  /\ g.kind = f.kind /\ g.SQ_index = f.SQ_index /\ g.SQ_phase = f.SQ_phase
  /\ g.exception = f.exception /\ g.load_violation = f.load_violation
  /\ g.kind # "branch" => g.stage = f.stage

Carried(k, d) ==
  /\ SameInsn(window'[k], window[k + d])
  /\ window[k + d].kind = "load"  => SameLoad(LoadOf(k)', LoadOf(k + d))
  /\ window[k + d].kind = "store" => SameStore(StoreOf(k)', StoreOf(k + d))

(* The older stores, as far as the value of the load k depends on them.    *)
OlderKept(k, d) ==
  \A i \in 1 .. k - 1 :
    /\ window'[i].kind = window[i + d].kind
    /\ window[i + d].kind = "store" =>
         /\ StoreOf(i + d).value_avail => SameStore(StoreOf(i)', StoreOf(i + d))
         /\ NoConflict(i + d, k + d) => NoConflict(i, k)'

LEMMA ConflictSame ==
  ASSUME NEW s, NEW t, NEW l, NEW m, s.size = t.size, s.addr = t.addr,
         l.size = m.size, l.addr = m.addr
  PROVE  Conflict(s, l) <=> Conflict(t, m)
BY DEF Conflict

LEMMA StoresKept ==
  ASSUME NEW k \in Nat, NEW d \in Nat, Carried(k, d), window[k + d].kind = "load",
         \A i \in 1 .. k - 1 : Carried(i, d)
  PROVE  OlderKept(k, d)
<1> SUFFICES ASSUME NEW i \in 1 .. k - 1
             PROVE  /\ window'[i].kind = window[i + d].kind
                    /\ window[i + d].kind = "store" =>
                         /\ SameStore(StoreOf(i)', StoreOf(i + d))
                         /\ NoConflict(i + d, k + d) => NoConflict(i, k)'
  BY DEF OlderKept
<1>1. Carried(i, d) /\ SameLoad(LoadOf(k)', LoadOf(k + d))
  BY DEF Carried
<1>2. window'[i].kind = window[i + d].kind
  BY <1>1 DEF Carried, SameInsn
<1>3. ASSUME window[i + d].kind = "store"
      PROVE  /\ SameStore(StoreOf(i)', StoreOf(i + d))
             /\ NoConflict(i + d, k + d) => NoConflict(i, k)'
  <2>1. SameStore(StoreOf(i)', StoreOf(i + d))
    BY <1>1, <1>3 DEF Carried
  <2>2. Conflict(StoreOf(i + d), LoadOf(k + d)) <=> Conflict(StoreOf(i)', LoadOf(k)')
    BY <1>1, <2>1, ConflictSame DEF SameStore, SameLoad
  <2>3. /\ NoConflict(i + d, k + d) <=>
             IF StoreOf(i + d).addr_avail THEN ~Conflict(StoreOf(i + d), LoadOf(k + d)) ELSE SpecDisambig
        /\ NoConflict(i, k)' <=>
             IF StoreOf(i)'.addr_avail THEN ~Conflict(StoreOf(i)', LoadOf(k)') ELSE SpecDisambig
    BY DEF NoConflict, Conflict
  <2>4. StoreOf(i)'.addr_avail = StoreOf(i + d).addr_avail
    BY <2>1 DEF SameStore
  <2> QED
    BY <2>1, <2>2, <2>3, <2>4
<1> QED
  BY <1>2, <1>3

LEMMA ForwardedStays ==
  ASSUME NEW k \in Nat, NEW d \in Nat, SameLoad(LoadOf(k)', LoadOf(k + d)), OlderKept(k, d),
         NEW j \in Nat \ {0}, ForwardedBy(j + d, k + d)
  PROVE  ForwardedBy(j, k)'
<1>1. /\ j + d \in 1 .. (k + d) - 1 /\ window[j + d].kind = "store"
      /\ StoreOf(j + d).value_avail /\ Conflict(StoreOf(j + d), LoadOf(k + d))
      /\ StoreOf(j + d).size = LoadOf(k + d).size /\ StoreOf(j + d).value = LoadOf(k + d).value
      /\ \A i \in Earlier(window, k + d, "store") : j + d < i => NoConflict(i, k + d)
  BY DEF ForwardedBy, Earlier
<1>2. j \in 1 .. k - 1
  BY <1>1
<1>3. window'[j].kind = "store" /\ SameStore(StoreOf(j)', StoreOf(j + d))
  BY <1>1, <1>2 DEF OlderKept
<1>4. Conflict(StoreOf(j)', LoadOf(k)')
  BY <1>1, <1>3, ConflictSame DEF SameStore, SameLoad
<1>5. /\ StoreOf(j)'.value_avail /\ StoreOf(j)'.size = LoadOf(k)'.size
      /\ StoreOf(j)'.value = LoadOf(k)'.value
  BY <1>1, <1>3 DEF SameStore, SameLoad
<1>6. ASSUME NEW i \in Earlier(window', k, "store"), j < i
      PROVE  NoConflict(i, k)'
  <2>1. i \in 1 .. k - 1 /\ window'[i].kind = "store"
    BY DEF Earlier
  <2>2. window[i + d].kind = "store"
    BY <2>1 DEF OlderKept
  <2>3. i + d \in Earlier(window, k + d, "store") /\ j + d < i + d
    BY <1>2, <1>6, <2>1, <2>2 DEF Earlier
  <2>4. NoConflict(i + d, k + d)
    BY <1>1, <2>3
  <2> QED
    BY <2>1, <2>2, <2>4 DEF OlderKept
<1>7. j \in Earlier(window', k, "store")
  BY <1>2, <1>3 DEF Earlier
<1>8. Conflict(StoreOf(j), LoadOf(k))'
  BY <1>4 DEF Conflict
<1> QED
  BY <1>5, <1>6, <1>7, <1>8 DEF ForwardedBy

LEMMA FromMemoryStays ==
  ASSUME NEW k \in Nat, NEW d \in Nat, SameLoad(LoadOf(k)', LoadOf(k + d)), OlderKept(k, d),
         window'[k].exception = window[k + d].exception, FromMemory(k + d),
         LET l == LoadOf(k + d)
         IN  ~Faults(l.addr, l.size) => Read(mem', l.addr, l.size) = Read(mem, l.addr, l.size)
  PROVE  FromMemory(k)'
<1>1. ASSUME NEW i \in Earlier(window', k, "store")
      PROVE  NoConflict(i, k)'
  <2>1. i \in 1 .. k - 1 /\ window'[i].kind = "store"
    BY DEF Earlier
  <2>2. window[i + d].kind = "store"
    BY <2>1 DEF OlderKept
  <2>3. i + d \in Earlier(window, k + d, "store")
    BY <2>1, <2>2 DEF Earlier
  <2>4. NoConflict(i + d, k + d)
    BY <2>3 DEF FromMemory
  <2> QED
    BY <2>1, <2>2, <2>4 DEF OlderKept
<1> DEFINE l == LoadOf(k + d)
           m == LoadOf(k)'
<1>2. m.addr = l.addr /\ m.size = l.size /\ m.value = l.value
  BY DEF SameLoad
<1>3. IF Faults(l.addr, l.size) THEN window[k + d].exception
      ELSE l.value = Read(mem, l.addr, l.size)
  BY DEF FromMemory
<1>4. ~Faults(l.addr, l.size) => Read(mem', l.addr, l.size) = Read(mem, l.addr, l.size)
  OBVIOUS
<1> HIDE DEF l
<1>5. IF Faults(m.addr, m.size) THEN window'[k].exception
      ELSE m.value = Read(mem', m.addr, m.size)
  BY <1>2, <1>3, <1>4 DEF l
<1>6. (IF Faults(LoadOf(k).addr, LoadOf(k).size) THEN window[k].exception
       ELSE LoadOf(k).value = Read(mem, LoadOf(k).addr, LoadOf(k).size))'
  BY <1>5 DEF Faults, Read
<1> QED
  BY <1>1, <1>6 DEF FromMemory

(* The facts about one instruction alone.                                  *)
LEMMA EntryStays ==
  ASSUME NEW k \in Nat, NEW d \in Nat, Carried(k, d), InsnOK(k + d)
  PROVE  /\ window'[k].kind = "load" => LoadOK(k)'
         /\ window'[k].kind = "store" => StoreOK(k)'
         /\ window'[k].load_violation => window'[k].kind = "load"
<1> DEFINE g == window'[k]
           f == window[k + d]
<1>1. SameInsn(g, f)
  BY DEF Carried
<1>2. ASSUME g.kind = "load" PROVE LoadOK(k)'
  <2> DEFINE m == LoadOf(k)'
             l == LoadOf(k + d)
  <2>1. SameLoad(m, l) /\ LoadOK(k + d) /\ g.stage = f.stage
    BY <1>1, <1>2 DEF Carried, SameInsn, InsnOK
  <2>2. /\ l.sq_index = f.SQ_index /\ l.sq_index_phase = f.SQ_phase
        /\ l.value_avail <=> f.stage = "done"
        /\ f.stage # "queued" => l.addr \in AddrOf(l.size)
        /\ SpecDisambig \/ l.mdp_stall
        /\ f.exception => l.value_avail /\ Faults(l.addr, l.size)
    BY <2>1 DEF LoadOK, Linked
  <2> HIDE DEF m, l, g, f
  <2>3. /\ m.sq_index = g.SQ_index /\ m.sq_index_phase = g.SQ_phase
        /\ m.value_avail <=> g.stage = "done"
        /\ g.stage # "queued" => m.addr \in AddrOf(m.size)
        /\ SpecDisambig \/ m.mdp_stall
        /\ g.exception => m.value_avail /\ Faults(m.addr, m.size)
    BY <1>1, <2>1, <2>2 DEF SameInsn, SameLoad
  <2> QED
    BY <2>3 DEF LoadOK, Linked, m, g, Faults, AddrOf, Addr
<1>3. ASSUME g.kind = "store" PROVE StoreOK(k)'
  <2> DEFINE t == StoreOf(k)'
             s == StoreOf(k + d)
  <2>1. SameStore(t, s) /\ StoreOK(k + d) /\ g.stage = f.stage
    BY <1>1, <1>3 DEF Carried, SameInsn, InsnOK
  <2>2. /\ s.value_avail <=> f.stage = "done"
        /\ s.value_avail => s.addr_avail /\ s.value \in DatumOf(s.size)
        /\ s.addr_avail => s.addr \in AddrOf(s.size)
    BY <2>1 DEF StoreOK
  <2> HIDE DEF t, s, g, f
  <2>3. /\ t.value_avail <=> g.stage = "done"
        /\ t.value_avail => t.addr_avail /\ t.value \in DatumOf(t.size)
        /\ t.addr_avail => t.addr \in AddrOf(t.size)
    BY <2>1, <2>2 DEF SameStore
  <2> QED
    BY <2>3 DEF StoreOK, t, g, DatumOf, AddrOf, Addr, Byte
<1>4. g.load_violation => g.kind = "load"
  BY <1>1 DEF SameInsn, InsnOK
<1> QED
  BY <1>2, <1>3, <1>4

LEMMA ValueStays ==
  ASSUME NEW k \in Nat, SameLoad(LoadOf(k)', LoadOf(k)), OlderKept(k, 0), mem' = mem,
         window'[k].exception = window[k].exception,
         \A i \in 1 .. k : window[i].load_violation => window'[i].load_violation,
         ValueOK(k)
  PROVE  ValueOK(k)'
<1>1. k + 0 = k
  OBVIOUS
<1>2. CASE Marked(k)
  BY <1>2 DEF Marked, ValueOK
<1>3. CASE FromMemory(k)
  <2>1. FromMemory(k)'
    <3>1. LET l == LoadOf(k)
          IN  ~Faults(l.addr, l.size) => Read(mem', l.addr, l.size) = Read(mem, l.addr, l.size)
      BY DEF Read
    <3>2. \A d \in Nat : d = 0 => k + d = k
      OBVIOUS
    <3> QED
      BY <1>1, <1>3, <3>1, FromMemoryStays
  <2> QED
    BY <2>1 DEF ValueOK
<1>4. ASSUME NEW j, ForwardedBy(j, k) PROVE ValueOK(k)'
  <2>1. j \in Nat \ {0} /\ j + 0 = j
    BY <1>4 DEF ForwardedBy, Earlier
  <2>2. ForwardedBy(j, k)'
    BY <1>1, <1>4, <2>1, ForwardedStays
  <2> QED
    BY <2>2 DEF ValueOK
<1> QED
  BY <1>2, <1>3, <1>4 DEF ValueOK

LEMMA CarriedInsn ==
  ASSUME LSUInv, ValuesInv, NEW k \in DOMAIN window, mem' = mem,
         \A i \in 1 .. k : Carried(i, 0)
  PROVE  InsnOK(k)'
<1>1. k \in Nat \ {0} /\ k + 0 = k /\ Carried(k, 0) /\ InsnOK(k)
  BY LoadPlaces DEF ValuesInv
<1>2. /\ window'[k].kind = "load" => LoadOK(k)'
      /\ window'[k].kind = "store" => StoreOK(k)'
      /\ window'[k].load_violation => window'[k].kind = "load"
  BY <1>1, EntryStays
<1>3. ASSUME window'[k].kind = "load", LoadOf(k)'.value_avail
      PROVE  ValueOK(k)'
  <2>1. window[k].kind = "load" /\ window'[k].exception = window[k].exception
        /\ SameLoad(LoadOf(k)', LoadOf(k))
    BY <1>1, <1>3 DEF Carried, SameInsn
  <2>2. ValueOK(k)
    BY <1>1, <1>3, <2>1 DEF InsnOK, SameLoad
  <2>3. OlderKept(k, 0)
    BY <1>1, <2>1, StoresKept
  <2>4. \A i \in 1 .. k : window[i].load_violation => window'[i].load_violation
    <3> TAKE i \in 1 .. k
    <3>1. i + 0 = i /\ Carried(i, 0)
      BY <1>1
    <3> QED
      BY <3>1 DEF Carried, SameInsn
  <2> QED
    BY <1>1, <2>1, <2>2, <2>3, <2>4, ValueStays
<1> QED
  BY <1>2, <1>3 DEF InsnOK

-----------------------------------------------------------------------------
(* dispatch() writes at the tails, which no instruction in flight has.     *)

LEMMA TailsAreFree ==
  ASSUME LSUInv, NEW k \in DOMAIN window
  PROVE  /\ window[k].kind = "load" /\ LQ.length < LQSize => window[k].LQ_index # LQ.tail
         /\ window[k].kind = "store" /\ SQ.length < SQSize => window[k].SQ_index # SQ.tail
<1>1. /\ LQSize \in Nat \ {0} /\ LQ \in Ring(0 .. LQSize - 1, Load, LQSize) /\ LQ.length \in 0 .. LQSize
      /\ SQSize \in Nat \ {0} /\ SQ \in Ring(0 .. SQSize - 1, Store, SQSize) /\ SQ.length \in 0 .. SQSize
      /\ Names(LQ.tail, LQ.tail_phase, LQ, LQSize, LQ.length)
      /\ Names(SQ.tail, SQ.tail_phase, SQ, SQSize, SQ.length)
  BY QueuesAreRings DEF LSUInv, LQExact, SQExact, RingExact, Ring
<1>2. ASSUME window[k].kind = "load", LQ.length < LQSize
      PROVE  window[k].LQ_index # LQ.tail
  <2> DEFINE r == Rank(window, k, "load")
  <2>1. r \in 0 .. LQSize /\ r < LQ.length /\ Names(window[k].LQ_index, window[k].LQ_phase, LQ, LQSize, r)
    BY <1>2, LoadPlaces
  <2> HIDE DEF r
  <2>2. r \in 0 .. LQSize - 1 /\ LQ.length \in 0 .. LQSize - 1 /\ r # LQ.length
    BY <1>1, <1>2, <2>1
  <2> QED
    BY <1>1, <2>1, <2>2, PlacesDiffer
<1>3. ASSUME window[k].kind = "store", SQ.length < SQSize
      PROVE  window[k].SQ_index # SQ.tail
  <2> DEFINE r == Rank(window, k, "store")
  <2>1. r \in 0 .. SQSize /\ r < SQ.length /\ Names(window[k].SQ_index, window[k].SQ_phase, SQ, SQSize, r)
    BY <1>3, StorePlaces
  <2> HIDE DEF r
  <2>2. r \in 0 .. SQSize - 1 /\ SQ.length \in 0 .. SQSize - 1 /\ r # SQ.length
    BY <1>1, <1>3, <2>1
  <2> QED
    BY <1>1, <2>1, <2>2, PlacesDiffer
<1> QED
  BY <1>2, <1>3

LEMMA PushEntries ==
  ASSUME NEW n \in Nat \ {0}, NEW E, NEW q \in Ring(0 .. n - 1, E, n), NEW e
  PROVE  /\ Push(q, n, e).buf[q.tail] = e
         /\ \A i \in 0 .. n - 1 : i # q.tail => Push(q, n, e).buf[i] = q.buf[i]
BY DEF Push, Ring

LEMMA SameAgain ==
  /\ \A l : SameLoad(l, l)
  /\ \A s : SameStore(s, s)
  /\ \A f : SameInsn(f, f)
BY DEF SameLoad, SameStore, SameInsn

(* Everything but the last instruction is carried over an append.          *)
LEMMA AppendCarries ==
  ASSUME LSUInv, NEW x, window' = Append(window, x),
         \A i \in DOMAIN window :
            /\ window[i].kind = "load"  => LQ'.buf[window[i].LQ_index] = LQ.buf[window[i].LQ_index]
            /\ window[i].kind = "store" => SQ'.buf[window[i].SQ_index] = SQ.buf[window[i].SQ_index]
  PROVE  /\ \A i \in DOMAIN window : Carried(i, 0)
         /\ DOMAIN window' = DOMAIN window \cup {Len(window) + 1}
         /\ window'[Len(window) + 1] = x
<1>1. window \in Seq(Flying) /\ DOMAIN window = 1 .. Len(window) /\ Len(window) \in Nat
  BY WindowType DEF LSUInv
<1>2. /\ DOMAIN window' = 1 .. Len(window) + 1 /\ window'[Len(window) + 1] = x
      /\ \A i \in 1 .. Len(window) : window'[i] = window[i]
  BY <1>1
<1>3. ASSUME NEW i \in DOMAIN window PROVE Carried(i, 0)
  <2>1. i + 0 = i /\ window'[i] = window[i]
    BY <1>1, <1>2
  <2>2. SameInsn(window'[i], window[i])
    BY <2>1, SameAgain
  <2>3. window[i].kind = "load" => SameLoad(LoadOf(i)', LoadOf(i))
    BY <2>1, SameAgain DEF LoadOf
  <2>4. window[i].kind = "store" => SameStore(StoreOf(i)', StoreOf(i))
    BY <2>1, SameAgain DEF StoreOf
  <2> QED
    BY <2>1, <2>2, <2>3, <2>4 DEF Carried
<1> QED
  BY <1>1, <1>2, <1>3

LEMMA AppendValues ==
  ASSUME LSUInv, ValuesInv, NEW x, window' = Append(window, x), mem' = mem,
         NEW new \in Nat, new = Len(window) + 1,
         \A i \in DOMAIN window :
            /\ window[i].kind = "load"  => LQ'.buf[window[i].LQ_index] = LQ.buf[window[i].LQ_index]
            /\ window[i].kind = "store" => SQ'.buf[window[i].SQ_index] = SQ.buf[window[i].SQ_index],
         InsnOK(new)'
  PROVE  ValuesInv'
<1>1. DOMAIN window = 1 .. Len(window) /\ Len(window) \in Nat
  BY WindowType DEF LSUInv
<1>2. /\ \A i \in DOMAIN window : Carried(i, 0)
      /\ DOMAIN window' = DOMAIN window \cup {Len(window) + 1}
  BY AppendCarries
<1>3. ASSUME NEW k \in DOMAIN window PROVE InsnOK(k)'
  <2>1. \A i \in 1 .. k : Carried(i, 0)
    BY <1>1, <1>2
  <2> QED
    BY <2>1, CarriedInsn
<1>4. ASSUME NEW k \in DOMAIN window' PROVE InsnOK(k)'
  <2>1. CASE k \in DOMAIN window
    BY <2>1, <1>3
  <2>2. CASE k = new
    BY <2>2
  <2> QED
    BY <1>2, <1>4, <2>1, <2>2
<1> QED
  BY <1>4 DEF ValuesInv

LEMMA DispatchLoadValues == LSUInv /\ ValuesInv /\ DispatchLoad => ValuesInv'
<1> SUFFICES ASSUME LSUInv, ValuesInv, DispatchLoad PROVE ValuesInv'
  OBVIOUS
<1> DEFINE x == NewInsn("load")
<1>0. PICK new \in Nat : new = Len(window) + 1
  BY WindowType DEF LSUInv
<1>1. LSUTypeOK /\ LQSize \in Nat \ {0} /\ LQ \in Ring(0 .. LQSize - 1, Load, LQSize)
  BY QueuesAreRings DEF LSUInv
<1>2. PICK n \in Sizes, mdp \in IF SpecDisambig THEN BOOLEAN ELSE {TRUE} :
        LQ' = Push(LQ, LQSize,
                [valid |-> TRUE, size |-> n, addr_avail |-> FALSE, addr |-> 0,
                 value_avail |-> FALSE, value |-> <<>>, missed |-> FALSE,
                 sq_index |-> SQ.tail, sq_index_phase |-> SQ.tail_phase, mdp_stall |-> mdp])
  BY DEF DispatchLoad
<1> DEFINE e == [valid |-> TRUE, size |-> n, addr_avail |-> FALSE, addr |-> 0,
                 value_avail |-> FALSE, value |-> <<>>, missed |-> FALSE,
                 sq_index |-> SQ.tail, sq_index_phase |-> SQ.tail_phase, mdp_stall |-> mdp]
<1>3. /\ e.value_avail = FALSE /\ e.sq_index = SQ.tail /\ e.sq_index_phase = SQ.tail_phase
      /\ SpecDisambig \/ e.mdp_stall
  OBVIOUS
<1> HIDE DEF e
<1>4. /\ LQ.length < LQSize /\ window' = Append(window, x) /\ SQ' = SQ /\ mem' = mem
      /\ LQ' = Push(LQ, LQSize, e)
  BY <1>1, <1>2 DEF DispatchLoad, e, Ring
<1>5. /\ x.kind = "load" /\ x.LQ_index = LQ.tail /\ x.SQ_index = SQ.tail /\ x.SQ_phase = SQ.tail_phase
      /\ x.stage = "queued" /\ x.exception = FALSE /\ x.load_violation = FALSE
  BY DEF NewInsn
<1> HIDE DEF x
<1>6. \A i \in DOMAIN window : window[i].kind = "load" => LQ'.buf[window[i].LQ_index] = LQ.buf[window[i].LQ_index]
  <2> SUFFICES ASSUME NEW i \in DOMAIN window, window[i].kind = "load"
               PROVE  LQ'.buf[window[i].LQ_index] = LQ.buf[window[i].LQ_index]
    OBVIOUS
  <2>1. window[i].LQ_index \in 0 .. LQSize - 1 /\ window[i].LQ_index # LQ.tail
    BY <1>4, LoadPlaces, TailsAreFree
  <2> QED
    BY <1>1, <1>4, <2>1, PushEntries
<1>7. window'[new] = x
  BY <1>4, <1>6, <1>0, AppendCarries
<1>8. LoadOf(new)' = e
  <2>1. LoadOf(new)' = LQ'.buf[LQ.tail]
    BY <1>5, <1>7 DEF LoadOf
  <2> QED
    BY <1>1, <1>4, <2>1, PushEntries
<1>9. LoadOK(new)'
  BY <1>3, <1>5, <1>7, <1>8 DEF LoadOK, Linked
<1>10. InsnOK(new)'
  BY <1>3, <1>5, <1>7, <1>8, <1>9 DEF InsnOK
<1> QED
  BY <1>4, <1>6, <1>10, <1>0, AppendValues

LEMMA DispatchStoreValues == LSUInv /\ ValuesInv /\ DispatchStore => ValuesInv'
<1> SUFFICES ASSUME LSUInv, ValuesInv, DispatchStore PROVE ValuesInv'
  OBVIOUS
<1> DEFINE x == NewInsn("store")
<1>0. PICK new \in Nat : new = Len(window) + 1
  BY WindowType DEF LSUInv
<1>1. LSUTypeOK /\ SQSize \in Nat \ {0} /\ SQ \in Ring(0 .. SQSize - 1, Store, SQSize)
  BY QueuesAreRings DEF LSUInv
<1>2. PICK n \in Sizes, known \in BOOLEAN :
        \E a \in IF known THEN AddrOf(n) ELSE {0} :
          SQ' = Push(SQ, SQSize,
                  [valid |-> TRUE, size |-> n, addr_avail |-> known, addr |-> a,
                   value_avail |-> FALSE, value |-> <<>>])
  BY DEF DispatchStore
<1>3. PICK a \in IF known THEN AddrOf(n) ELSE {0} :
        SQ' = Push(SQ, SQSize,
                [valid |-> TRUE, size |-> n, addr_avail |-> known, addr |-> a,
                 value_avail |-> FALSE, value |-> <<>>])
  BY <1>2
<1> DEFINE e == [valid |-> TRUE, size |-> n, addr_avail |-> known, addr |-> a,
                 value_avail |-> FALSE, value |-> <<>>]
<1>4. e.value_avail = FALSE /\ (e.addr_avail => e.addr \in AddrOf(e.size))
  OBVIOUS
<1> HIDE DEF e
<1>5. /\ SQ.length < SQSize /\ window' = Append(window, x) /\ LQ' = LQ /\ mem' = mem
      /\ SQ' = Push(SQ, SQSize, e)
  BY <1>1, <1>3 DEF DispatchStore, e, Ring
<1>6. /\ x.kind = "store" /\ x.SQ_index = SQ.tail
      /\ x.stage = "queued" /\ x.load_violation = FALSE
  BY DEF NewInsn
<1> HIDE DEF x
<1>7. \A i \in DOMAIN window : window[i].kind = "store" => SQ'.buf[window[i].SQ_index] = SQ.buf[window[i].SQ_index]
  <2> SUFFICES ASSUME NEW i \in DOMAIN window, window[i].kind = "store"
               PROVE  SQ'.buf[window[i].SQ_index] = SQ.buf[window[i].SQ_index]
    OBVIOUS
  <2>1. window[i].SQ_index \in 0 .. SQSize - 1 /\ window[i].SQ_index # SQ.tail
    BY <1>5, StorePlaces, TailsAreFree
  <2> QED
    BY <1>1, <1>5, <2>1, PushEntries
<1>8. window'[new] = x
  BY <1>5, <1>7, <1>0, AppendCarries
<1>9. StoreOf(new)' = e
  <2>1. StoreOf(new)' = SQ'.buf[SQ.tail]
    BY <1>6, <1>8 DEF StoreOf
  <2> QED
    BY <1>1, <1>5, <2>1, PushEntries
<1>10. StoreOK(new)'
  BY <1>4, <1>6, <1>8, <1>9 DEF StoreOK, AddrOf, Addr
<1>11. InsnOK(new)'
  BY <1>6, <1>8, <1>10 DEF InsnOK
<1> QED
  BY <1>5, <1>7, <1>11, <1>0, AppendValues

LEMMA DispatchBranchValues == LSUInv /\ ValuesInv /\ DispatchBranch => ValuesInv'
<1> SUFFICES ASSUME LSUInv, ValuesInv, DispatchBranch PROVE ValuesInv'
  OBVIOUS
<1> DEFINE x == NewInsn("branch")
<1>0. PICK new \in Nat : new = Len(window) + 1
  BY WindowType DEF LSUInv
<1>1. window' = Append(window, x) /\ LQ' = LQ /\ SQ' = SQ /\ mem' = mem
  BY DEF DispatchBranch
<1>2. x.kind = "branch" /\ x.load_violation = FALSE
  BY DEF NewInsn
<1> HIDE DEF x
<1>3. window'[new] = x
  BY <1>1, <1>0, AppendCarries
<1>4. InsnOK(new)'
  BY <1>2, <1>3 DEF InsnOK
<1> QED
  BY <1>1, <1>4, <1>0, AppendValues

-----------------------------------------------------------------------------
(* execute_load(): the value a load gets, from disambiguate() in terms of  *)
(* the window.                                                             *)

(* What the new value of the load k rests on, l being its entry then.      *)
GotFrom(l, k, faulted) ==
  \/ /\ \A i \in Earlier(window, k, "store") :
          IF StoreOf(i).addr_avail THEN ~Conflict(StoreOf(i), l) ELSE SpecDisambig
     /\ IF Faults(l.addr, l.size) THEN faulted ELSE l.value = Read(mem, l.addr, l.size)
  \/ \E j \in Earlier(window, k, "store") :
       /\ StoreOf(j).value_avail /\ Conflict(StoreOf(j), l)
       /\ StoreOf(j).size = l.size /\ StoreOf(j).value = l.value
       /\ \A i \in Earlier(window, k, "store") :
            j < i => IF StoreOf(i).addr_avail THEN ~Conflict(StoreOf(i), l) ELSE SpecDisambig

LEMMA ExecutedValue ==
  ASSUME LSUInv, NEW k \in DOMAIN window, NEW l \in Load, Linked(l, k),
         SpecDisambig \/ l.mdp_stall, l.value_avail = FALSE, NEW waits \in BOOLEAN,
         Executed(l, waits).value_avail
  PROVE  /\ GotFrom(Executed(l, waits), k, PostsException(l))
         /\ PostsException(l) => Faults(l.addr, l.size)
<1> DEFINE d == Disambiguate(l)
           v == IF d.how = "forward" THEN d.value
                ELSE IF Faults(l.addr, l.size) THEN l.value
                ELSE Read(mem, l.addr, l.size)
           r == [l EXCEPT !.value_avail = TRUE, !.value = v]
<1>1. Executed(l, waits) = r /\ d.how \in {"memory", "forward"}
  <2>1. Executed(l, waits) = IF d.how = "stall" \/ (d.how = "memory" /\ waits) THEN l ELSE r
    BY DEF Executed
  <2>2. ~(d.how = "stall" \/ (d.how = "memory" /\ waits))
    BY <2>1
  <2>3. d.how \in {"memory", "forward", "stall"}
    BY Disambiguated
  <2> QED
    BY <2>1, <2>2, <2>3
<1> HIDE DEF v
<1>2. r.addr = l.addr /\ r.size = l.size /\ r.value = v /\ r.mdp_stall = l.mdp_stall
  BY DEF Load
<1> HIDE DEF r
<1>3. ASSUME NEW i, ~Decides(i, l)
      PROVE  IF StoreOf(i).addr_avail THEN ~Conflict(StoreOf(i), r) ELSE SpecDisambig
  <2>1. Conflict(StoreOf(i), r) <=> Conflict(StoreOf(i), l)
    BY <1>2, ConflictSame
  <2>2. CASE StoreOf(i).addr_avail
    BY <1>3, <2>1, <2>2 DEF Decides
  <2>3. CASE ~StoreOf(i).addr_avail
    BY <1>3, <2>3 DEF Decides
  <2> QED
    BY <2>2, <2>3
<1>4. CASE d.how = "memory"
  <2>1. \A i \in Earlier(window, k, "store") : ~Decides(i, l)
    BY <1>4, Disambiguated
  <2>2. \A i \in Earlier(window, k, "store") :
          IF StoreOf(i).addr_avail THEN ~Conflict(StoreOf(i), r) ELSE SpecDisambig
    BY <2>1, <1>3
  <2>3. ~Faults(l.addr, l.size) => v = Read(mem, l.addr, l.size)
    BY <1>4 DEF v
  <2>4. PostsException(l) <=> Faults(l.addr, l.size)
    BY <1>4 DEF PostsException
  <2>5. IF Faults(r.addr, r.size) THEN PostsException(l)
        ELSE r.value = Read(mem, r.addr, r.size)
    BY <1>2, <2>3, <2>4
  <2>6. GotFrom(r, k, PostsException(l))
    BY <2>2, <2>5 DEF GotFrom
  <2> QED
    BY <1>1, <2>4, <2>6
<1>5. CASE d.how = "forward"
  <2>1. PICK j \in Earlier(window, k, "store") :
          /\ Decides(j, l) /\ StoreOf(j).addr_avail /\ StoreOf(j).size = l.size
          /\ StoreOf(j).value_avail /\ StoreOf(j).value = d.value
          /\ \A i \in Earlier(window, k, "store") : j < i => ~Decides(i, l)
    BY <1>5, Disambiguated
  <2>2. v = d.value
    BY <1>5 DEF v
  <2>3. Conflict(StoreOf(j), r)
    BY <2>1, <1>2, ConflictSame DEF Decides
  <2>4. \A i \in Earlier(window, k, "store") :
          j < i => IF StoreOf(i).addr_avail THEN ~Conflict(StoreOf(i), r) ELSE SpecDisambig
    BY <2>1, <1>3
  <2>5. StoreOf(j).size = r.size /\ StoreOf(j).value = r.value
    BY <2>1, <2>2, <1>2
  <2>6. GotFrom(r, k, PostsException(l))
    BY <2>1, <2>3, <2>4, <2>5 DEF GotFrom
  <2>7. ~PostsException(l)
    BY <1>5 DEF PostsException
  <2> QED
    BY <1>1, <2>6, <2>7
<1> QED
  BY <1>1, <1>4, <1>5

(* An action that writes the entry of the load k and its stage, and leaves *)
(* everything else.                                                        *)
LEMMA LoadExecutes ==
  ASSUME LSUInv, ValuesInv, NEW k \in DOMAIN window, window[k].kind = "load",
         NEW r, LQ' = [LQ EXCEPT !.buf[window[k].LQ_index] = r],
         NEW s \in {"queued", "stalled", "done"}, NEW x \in BOOLEAN,
         window' = [window EXCEPT ![k].stage = s, ![k].exception = x],
         SQ' = SQ, mem' = mem,
         LoadOK(k)', r.value_avail => GotFrom(r, k, x)
  PROVE  ValuesInv'
<1> DEFINE f == [window[k] EXCEPT !.stage = s, !.exception = x]
<1>1. /\ window \in Seq(Flying) /\ DOMAIN window = 1 .. Len(window) /\ Len(window) \in Nat
      /\ \A i \in 1 .. Len(window) : window[i] \in Flying
      /\ LQ \in Ring(0 .. LQSize - 1, Load, LQSize) /\ LQSize \in Nat \ {0}
  BY WindowType, QueuesAreRings DEF LSUInv
<1>2. /\ f.kind = window[k].kind /\ f.load_violation = window[k].load_violation
      /\ f.LQ_index = window[k].LQ_index
      /\ f.SQ_index = window[k].SQ_index /\ f.exception = x
  BY <1>1 DEF Flying
<1>3. window' = [window EXCEPT ![k] = f]
  BY <1>1
<1> HIDE DEF f
<1>4. DOMAIN window' = DOMAIN window /\ window'[k] = f /\ \A i \in DOMAIN window : i # k => window'[i] = window[i]
  BY <1>1, <1>3
<1>5. \A i \in DOMAIN window : StoreOf(i)' = StoreOf(i)
  <2> TAKE i \in DOMAIN window
  <2>1. window'[i].SQ_index = window[i].SQ_index
    BY <1>2, <1>4
  <2> QED
    BY <2>1 DEF StoreOf
<1>6. LoadOf(k)' = r
  <2>1. LoadOf(k)' = LQ'.buf[window[k].LQ_index]
    BY <1>2, <1>4 DEF LoadOf
  <2>2. window[k].LQ_index \in 0 .. LQSize - 1
    BY LoadPlaces
  <2> QED
    BY <1>1, <2>1, <2>2 DEF Ring
<1>7. \A i \in DOMAIN window : i # k /\ window[i].kind = "load" => LoadOf(i)' = LoadOf(i)
  <2> SUFFICES ASSUME NEW i \in DOMAIN window, i # k, window[i].kind = "load"
               PROVE  LoadOf(i)' = LoadOf(i)
    OBVIOUS
  <2>1. window[i].LQ_index # window[k].LQ_index /\ window'[i] = window[i]
    BY <1>4, LoadsApart
  <2>2. window[i].LQ_index \in 0 .. LQSize - 1
    BY LoadPlaces
  <2>3. LQ'.buf[window[i].LQ_index] = LQ.buf[window[i].LQ_index]
    BY <1>1, <2>1, <2>2 DEF Ring
  <2> QED
    BY <2>1, <2>3 DEF LoadOf
<1>8. \A i \in DOMAIN window : i # k => Carried(i, 0)
  <2> SUFFICES ASSUME NEW i \in DOMAIN window, i # k PROVE Carried(i, 0)
    OBVIOUS
  <2>1. i + 0 = i /\ window'[i] = window[i]
    BY <1>1, <1>4
  <2>2. StoreOf(i)' = StoreOf(i) /\ (window[i].kind = "load" => LoadOf(i)' = LoadOf(i))
    BY <1>5, <1>7
  <2> QED
    BY <2>1, <2>2, SameAgain DEF Carried
<1>9. \A i \in DOMAIN window : window'[i].kind = window[i].kind /\ window'[i].load_violation = window[i].load_violation
  BY <1>2, <1>4
<1>10. ASSUME NEW i \in DOMAIN window, i # k PROVE InsnOK(i)'
  <2>1. InsnOK(i) /\ i \in Nat /\ i + 0 = i /\ Carried(i, 0)
    BY <1>1, <1>8, <1>10 DEF ValuesInv
  <2>2. /\ window'[i].kind = "load" => LoadOK(i)'
        /\ window'[i].kind = "store" => StoreOK(i)'
        /\ window'[i].load_violation => window'[i].kind = "load"
    BY <2>1, EntryStays
  <2>3. ASSUME window'[i].kind = "load", LoadOf(i)'.value_avail PROVE ValueOK(i)'
    <3>1. window[i].kind = "load" /\ LoadOf(i)' = LoadOf(i) /\ SameLoad(LoadOf(i)', LoadOf(i))
          /\ window'[i].exception = window[i].exception
      BY <1>4, <1>7, <1>9, <1>10, <2>3, SameAgain
    <3>2. ValueOK(i)
      BY <2>1, <2>3, <3>1 DEF InsnOK
    <3>3. OlderKept(i, 0)
      <4> SUFFICES ASSUME NEW j \in 1 .. i - 1
                   PROVE  /\ window'[j].kind = window[j].kind
                          /\ window[j].kind = "store" =>
                               /\ SameStore(StoreOf(j)', StoreOf(j))
                               /\ NoConflict(j, i) => NoConflict(j, i)'
        <5>1. \A j \in 1 .. i - 1 : j + 0 = j
          BY <2>1
        <5> QED
          BY <2>1, <5>1 DEF OlderKept
      <4>1. j \in DOMAIN window
        BY <1>1
      <4>2. SameStore(StoreOf(j)', StoreOf(j)) /\ StoreOf(j)' = StoreOf(j)
        BY <4>1, <1>5, SameAgain
      <4>3. NoConflict(j, i) => NoConflict(j, i)'
        BY <3>1, <4>2 DEF NoConflict, Conflict
      <4> QED
        BY <4>1, <4>2, <4>3, <1>9
    <3>4. \A j \in 1 .. i : window[j].load_violation => window'[j].load_violation
      BY <1>1, <1>9
    <3> QED
      BY <2>1, <3>1, <3>2, <3>3, <3>4, ValueStays
  <2> QED
    BY <2>2, <2>3 DEF InsnOK
<1>11. InsnOK(k)'
  <2>1. window'[k].kind = "load"
    BY <1>2, <1>4
  <2>2. ASSUME LoadOf(k)'.value_avail PROVE ValueOK(k)'
    <3>1. GotFrom(r, k, x) /\ LoadOf(k)' = r /\ window'[k].exception = x
      BY <1>2, <1>4, <1>6, <2>2
    <3>2. Earlier(window', k, "store") = Earlier(window, k, "store")
          /\ \A i \in Earlier(window, k, "store") : i \in DOMAIN window
      BY <1>1, <1>9 DEF Earlier
    <3>3. \A i \in Earlier(window, k, "store") :
            NoConflict(i, k)' <=> IF StoreOf(i).addr_avail THEN ~Conflict(StoreOf(i), r) ELSE SpecDisambig
      <4> TAKE i \in Earlier(window, k, "store")
      <4>1. StoreOf(i)' = StoreOf(i)
        BY <1>5, <3>2
      <4> QED
        BY <3>1, <4>1 DEF NoConflict, Conflict
    <3>4. CASE /\ \A i \in Earlier(window, k, "store") :
                    IF StoreOf(i).addr_avail THEN ~Conflict(StoreOf(i), r) ELSE SpecDisambig
               /\ IF Faults(r.addr, r.size) THEN x ELSE r.value = Read(mem, r.addr, r.size)
      <4>1. FromMemory(k)'
        BY <3>1, <3>2, <3>3, <3>4 DEF FromMemory, Faults, Read
      <4> QED
        BY <4>1 DEF ValueOK
    <3>5. ASSUME NEW j \in Earlier(window, k, "store"),
                 /\ StoreOf(j).value_avail /\ Conflict(StoreOf(j), r)
                 /\ StoreOf(j).size = r.size /\ StoreOf(j).value = r.value
                 /\ \A i \in Earlier(window, k, "store") :
                      j < i => IF StoreOf(i).addr_avail THEN ~Conflict(StoreOf(i), r) ELSE SpecDisambig
          PROVE  ValueOK(k)'
      <4>1. StoreOf(j)' = StoreOf(j) /\ (Conflict(StoreOf(j), LoadOf(k))' <=> Conflict(StoreOf(j), r))
        BY <1>5, <3>1, <3>2 DEF Conflict
      <4>2. ForwardedBy(j, k)'
        BY <3>1, <3>2, <3>3, <3>5, <4>1 DEF ForwardedBy
      <4> QED
        BY <4>2 DEF ValueOK
    <3> QED
      BY <3>1, <3>4, <3>5 DEF GotFrom
  <2> QED
    BY <2>1, <2>2 DEF InsnOK
<1> QED
  BY <1>4, <1>10, <1>11 DEF ValuesInv

LEMMA ExecutedLoadOK ==
  ASSUME LSUInv, NEW k \in DOMAIN window, NEW l \in Load, Linked(l, k),
         l.addr \in AddrOf(l.size), SpecDisambig \/ l.mdp_stall, NEW waits
  PROVE  LET r == Executed(l, waits)
         IN  /\ Linked(r, k) /\ r.addr = l.addr /\ r.size = l.size /\ r.mdp_stall = l.mdp_stall
             /\ r.value_avail \in BOOLEAN
<1> DEFINE d == Disambiguate(l)
           v == IF d.how = "forward" THEN d.value
                ELSE IF Faults(l.addr, l.size) THEN l.value
                ELSE Read(mem, l.addr, l.size)
<1>1. Executed(l, waits) \in {l, [l EXCEPT !.value_avail = TRUE, !.value = v]}
  BY DEF Executed
<1> HIDE DEF v
<1> QED
  BY <1>1 DEF Load, Linked

LEMMA ExecuteLoadValues ==
  ASSUME LSUInv, ValuesInv, NEW k \in DOMAIN window, ExecuteLoad(k)
  PROVE  ValuesInv'
<1>1. /\ LSUTypeOK /\ window[k] \in Flying /\ LoadOf(k) \in Load
      /\ window[k].kind = "load" /\ window[k].stage = "queued" /\ LoadOK(k)
      /\ window[k].LQ_index \in 0 .. LQSize - 1 /\ LQ \in Ring(0 .. LQSize - 1, Load, LQSize)
      /\ window \in Seq(Flying) /\ k \in 1 .. Len(window)
  BY WindowType, QueuesAreRings, LoadPlaces DEF LSUInv, ExecuteLoad, ValuesInv, InsnOK, LoadOf, Ring
<1>2. PICK a \in AddrOf(LoadOf(k).size), miss \in BOOLEAN :
        LET l == [LoadOf(k) EXCEPT !.addr_avail = TRUE, !.addr = a, !.missed = miss]
            r == Executed(l, miss)
        IN  /\ LQ' = [LQ EXCEPT !.buf[window[k].LQ_index] = r]
            /\ window' = [window EXCEPT
                 ![k].stage = IF r.value_avail THEN "done" ELSE "stalled",
                 ![k].exception = @ \/ (r.value_avail /\ PostsException(l))]
  BY DEF ExecuteLoad
<1> DEFINE l == [LoadOf(k) EXCEPT !.addr_avail = TRUE, !.addr = a, !.missed = miss]
           r == Executed(l, miss)
           s == IF r.value_avail THEN "done" ELSE "stalled"
           x == window[k].exception \/ (r.value_avail /\ PostsException(l))
<1>3. /\ l \in Load /\ Linked(l, k) /\ (SpecDisambig \/ l.mdp_stall) /\ l.addr \in AddrOf(l.size)
      /\ l.value_avail = FALSE /\ window[k].exception = FALSE
  <2>1. l \in Load /\ l.size = LoadOf(k).size /\ l.addr = a /\ l.mdp_stall = LoadOf(k).mdp_stall
        /\ l.value_avail = LoadOf(k).value_avail /\ l.sq_index = LoadOf(k).sq_index
        /\ l.sq_index_phase = LoadOf(k).sq_index_phase /\ l.value_avail \in BOOLEAN
    BY <1>1, AddrOfType DEF Load
  <2>2. window[k].exception \in BOOLEAN
    BY <1>1 DEF Flying
  <2> HIDE DEF l
  <2> QED
    BY <1>1, <2>1, <2>2 DEF LoadOK, Linked
<1>4. /\ LQ' = [LQ EXCEPT !.buf[window[k].LQ_index] = r]
      /\ window' = [window EXCEPT ![k].stage = s, ![k].exception = x]
      /\ SQ' = SQ /\ mem' = mem
  BY <1>1, <1>2 DEF ExecuteLoad
<1> HIDE DEF l
<1>5. /\ Linked(r, k) /\ r.addr = l.addr /\ r.size = l.size /\ r.mdp_stall = l.mdp_stall
      /\ r.value_avail \in BOOLEAN
  BY <1>1, <1>3, ExecutedLoadOK
<1>6. r.value_avail => /\ GotFrom(r, k, PostsException(l))
                       /\ PostsException(l) => Faults(l.addr, l.size)
  BY <1>1, <1>3, ExecutedValue
<1> HIDE DEF r
<1>7. s \in {"queued", "stalled", "done"} /\ x \in BOOLEAN
      /\ (r.value_avail => (x <=> PostsException(l))) /\ (x => r.value_avail)
      /\ s # "queued" /\ (s = "done" <=> r.value_avail)
  BY <1>3
<1> HIDE DEF s, x
<1>8. /\ window'[k].stage = s /\ window'[k].exception = x /\ LoadOf(k)' = r
      /\ window'[k].SQ_index = window[k].SQ_index /\ window'[k].SQ_phase = window[k].SQ_phase
  <2>1. window'[k] = [window[k] EXCEPT !.stage = s, !.exception = x]
    BY <1>1, <1>4
  <2>2. /\ window'[k].stage = s /\ window'[k].exception = x /\ window'[k].LQ_index = window[k].LQ_index
        /\ window'[k].SQ_index = window[k].SQ_index /\ window'[k].SQ_phase = window[k].SQ_phase
    BY <1>1, <2>1 DEF Flying
  <2>3. LQ'.buf[window[k].LQ_index] = r
    BY <1>1, <1>4 DEF Ring
  <2> QED
    BY <2>2, <2>3 DEF LoadOf
<1>9. LoadOK(k)'
  <2>1. /\ r.sq_index = window'[k].SQ_index /\ r.sq_index_phase = window'[k].SQ_phase
        /\ r.value_avail <=> window'[k].stage = "done"
        /\ r.addr \in AddrOf(r.size)
        /\ SpecDisambig \/ r.mdp_stall
        /\ window'[k].exception => r.value_avail /\ Faults(r.addr, r.size)
    BY <1>3, <1>5, <1>6, <1>7, <1>8 DEF Linked
  <2> QED
    BY <2>1, <1>8 DEF LoadOK, Linked, AddrOf, Addr, Faults
<1>10. r.value_avail => GotFrom(r, k, x)
  BY <1>6, <1>7 DEF GotFrom
<1> QED
  BY <1>1, <1>4, <1>7, <1>9, <1>10, LoadExecutes

LEMMA LoadReplayValues ==
  ASSUME LSUInv, ValuesInv, NEW k \in DOMAIN window, LoadReplay(k)
  PROVE  ValuesInv'
<1> DEFINE l == LoadOf(k)
           r == Executed(l, FALSE)
           x == window[k].exception \/ PostsException(l)
<1>1. /\ LSUTypeOK /\ window[k] \in Flying /\ l \in Load
      /\ window[k].kind = "load" /\ window[k].stage = "stalled" /\ LoadOK(k)
      /\ window[k].LQ_index \in 0 .. LQSize - 1 /\ LQ \in Ring(0 .. LQSize - 1, Load, LQSize)
      /\ window \in Seq(Flying) /\ k \in 1 .. Len(window)
  BY WindowType, QueuesAreRings, LoadPlaces DEF LSUInv, LoadReplay, ValuesInv, InsnOK, LoadOf, Ring
<1>2. /\ LQ' = [LQ EXCEPT !.buf[window[k].LQ_index] = r]
      /\ window' = [window EXCEPT ![k].stage = "done", ![k].exception = x]
      /\ SQ' = SQ /\ mem' = mem /\ r.value_avail
  BY <1>1 DEF LoadReplay
<1>3. /\ Linked(l, k) /\ (SpecDisambig \/ l.mdp_stall) /\ l.addr \in AddrOf(l.size)
      /\ l.value_avail = FALSE /\ window[k].exception = FALSE
  <2>1. l.value_avail \in BOOLEAN /\ window[k].exception \in BOOLEAN
    BY <1>1 DEF Flying, Load
  <2> QED
    BY <1>1, <2>1 DEF LoadOK
<1> HIDE DEF l
<1>4. /\ Linked(r, k) /\ r.addr = l.addr /\ r.size = l.size /\ r.mdp_stall = l.mdp_stall
  BY <1>1, <1>3, ExecutedLoadOK
<1>5. GotFrom(r, k, PostsException(l)) /\ (PostsException(l) => Faults(l.addr, l.size))
  BY <1>1, <1>2, <1>3, ExecutedValue
<1> HIDE DEF r
<1>6. x \in BOOLEAN /\ (x <=> PostsException(l))
  BY <1>3
<1> HIDE DEF x
<1>7. /\ window'[k].stage = "done" /\ window'[k].exception = x /\ LoadOf(k)' = r
      /\ window'[k].SQ_index = window[k].SQ_index /\ window'[k].SQ_phase = window[k].SQ_phase
  <2>1. window'[k] = [window[k] EXCEPT !.stage = "done", !.exception = x]
    BY <1>1, <1>2
  <2>2. /\ window'[k].stage = "done" /\ window'[k].exception = x /\ window'[k].LQ_index = window[k].LQ_index
        /\ window'[k].SQ_index = window[k].SQ_index /\ window'[k].SQ_phase = window[k].SQ_phase
    BY <1>1, <2>1 DEF Flying
  <2>3. LQ'.buf[window[k].LQ_index] = r
    BY <1>1, <1>2 DEF Ring
  <2> QED
    BY <2>2, <2>3 DEF LoadOf
<1>8. LoadOK(k)'
  <2>1. /\ r.sq_index = window'[k].SQ_index /\ r.sq_index_phase = window'[k].SQ_phase
        /\ r.value_avail <=> window'[k].stage = "done"
        /\ r.addr \in AddrOf(r.size)
        /\ SpecDisambig \/ r.mdp_stall
        /\ window'[k].exception => r.value_avail /\ Faults(r.addr, r.size)
    BY <1>2, <1>3, <1>4, <1>5, <1>6, <1>7 DEF Linked
  <2> QED
    BY <2>1, <1>7 DEF LoadOK, Linked, AddrOf, Addr, Faults
<1>9. GotFrom(r, k, x)
  BY <1>5, <1>6 DEF GotFrom
<1> QED
  BY <1>1, <1>2, <1>6, <1>8, <1>9, LoadExecutes

-----------------------------------------------------------------------------
(* store_addr() and store_value(): the younger loads whose value the store *)
(* makes wrong are marked, or an older one is.                             *)

LEMMA ExecuteStoreValues ==
  ASSUME LSUInv, ValuesInv, NEW k \in DOMAIN window, ExecuteStore(k)
  PROVE  ValuesInv'
<1> DEFINE f == window[k]
           old == SQ.buf[f.SQ_index]
<1>1. /\ LSUTypeOK /\ f.kind = "store" /\ f.stage = "queued" /\ StoreOK(k) /\ LQ' = LQ /\ mem' = mem
      /\ DOMAIN window = 1 .. Len(window) /\ Len(window) \in Nat /\ k \in Nat \ {0}
      /\ \A j \in DOMAIN window : window[j] \in Flying
      /\ SQ \in Ring(0 .. SQSize - 1, Store, SQSize) /\ f.SQ_index \in 0 .. SQSize - 1
      /\ old \in Store /\ old = StoreOf(k)
  <2>1. LSUTypeOK
    BY DEF LSUInv
  <2>2. f.SQ_index \in 0 .. SQSize - 1 /\ SQ \in Ring(0 .. SQSize - 1, Store, SQSize)
    BY <2>1, StorePlaces, QueuesAreRings
  <2>3. old \in Store
    BY <2>2 DEF Ring
  <2> QED
    BY <2>1, <2>2, <2>3, WindowType DEF ExecuteStore, ValuesInv, InsnOK, StoreOf
<1>2. PICK a \in IF old.addr_avail THEN {old.addr} ELSE AddrOf(old.size), v \in DatumOf(old.size) :
        LET s == [old EXCEPT !.addr_avail = TRUE, !.addr = a, !.value_avail = TRUE, !.value = v]
            bad == IF SpecDisambig /\ ~old.addr_avail THEN Violated(f, s) ELSE {}
            first == LoadAfter(f, CHOOSE j \in bad : \A b \in bad : j <= b)
        IN  /\ SQ' = [SQ EXCEPT !.buf[f.SQ_index] = s]
            /\ window' = [j \in DOMAIN window |->
                 IF j = k THEN [window[j] EXCEPT !.stage = "done"]
                 ELSE IF bad # {} /\ window[j].kind = "load" /\ window[j].LQ_index = first
                 THEN [window[j] EXCEPT !.load_violation = TRUE]
                 ELSE window[j]]
  BY DEF ExecuteStore
<1> DEFINE s == [old EXCEPT !.addr_avail = TRUE, !.addr = a, !.value_avail = TRUE, !.value = v]
           bad == IF SpecDisambig /\ ~old.addr_avail THEN Violated(f, s) ELSE {}
           first == LoadAfter(f, CHOOSE j \in bad : \A b \in bad : j <= b)
           hit(j) == bad # {} /\ window[j].kind = "load" /\ window[j].LQ_index = first
           change(j) == IF j = k THEN [window[j] EXCEPT !.stage = "done"]
                        ELSE IF hit(j) THEN [window[j] EXCEPT !.load_violation = TRUE]
                        ELSE window[j]
<1>3. /\ SQ' = [SQ EXCEPT !.buf[f.SQ_index] = s]
      /\ window' = [j \in DOMAIN window |-> change(j)]
  BY <1>2
<1>4. /\ s.size = old.size /\ s.addr_avail = TRUE /\ s.addr = a
      /\ s.value_avail = TRUE /\ s.value = v
  BY <1>1 DEF Store
<1>5. /\ ~old.value_avail /\ a \in AddrOf(old.size) /\ (old.addr_avail => a = old.addr)
  <2>1. /\ old.value_avail <=> f.stage = "done"
        /\ old.addr_avail => old.addr \in AddrOf(old.size)
    BY <1>1 DEF StoreOK
  <2>2. CASE old.addr_avail
    BY <1>1, <2>1, <2>2
  <2>3. CASE ~old.addr_avail
    BY <1>1, <2>1, <2>3
  <2> QED
    BY <2>2, <2>3
<1>6. SpecDisambig /\ ~old.addr_avail => bad = Violated(f, s) /\ first = FirstViolated(f, s)
  BY DEF FirstViolated
<1> HIDE DEF s, bad, first
<1>7. ASSUME NEW j \in DOMAIN window
      PROVE  /\ window'[j].kind = window[j].kind /\ window'[j].exception = window[j].exception
             /\ window'[j].LQ_index = window[j].LQ_index
             /\ window'[j].SQ_index = window[j].SQ_index /\ window'[j].SQ_phase = window[j].SQ_phase
             /\ window'[j].stage = IF j = k THEN "done" ELSE window[j].stage
             /\ window'[j].load_violation <=> window[j].load_violation \/ (j # k /\ hit(j))
  <2>1. window'[j] = change(j) /\ window[j] \in Flying
    BY <1>1, <1>3
  <2>2. CASE j = k
    BY <2>1, <2>2 DEF Flying
  <2>3. CASE j # k /\ hit(j)
    <3>1. window'[j] = [window[j] EXCEPT !.load_violation = TRUE]
      BY <2>1, <2>3
    <3> HIDE DEF hit
    <3> QED
      BY <2>1, <2>3, <3>1 DEF Flying
  <2>4. CASE j # k /\ ~hit(j)
    <3>1. window'[j] = window[j]
      BY <2>1, <2>4
    <3> HIDE DEF hit
    <3> QED
      BY <2>4, <3>1
  <2> QED
    BY <2>2, <2>3, <2>4
<1>8. DOMAIN window' = DOMAIN window
  BY <1>3
<1> HIDE DEF hit, change
<1>9. StoreOf(k)' = s
  BY <1>1, <1>3, <1>7 DEF StoreOf, Ring
<1>10. \A i \in DOMAIN window : i # k /\ window[i].kind = "store" => StoreOf(i)' = StoreOf(i)
  <2> SUFFICES ASSUME NEW i \in DOMAIN window, i # k, window[i].kind = "store"
               PROVE  StoreOf(i)' = StoreOf(i)
    OBVIOUS
  <2>1. window[i].SQ_index # f.SQ_index /\ window[i].SQ_index \in 0 .. SQSize - 1
    BY <1>1, StoresApart, StorePlaces
  <2> QED
    BY <1>1, <1>3, <1>7, <2>1 DEF StoreOf, Ring
<1>11. \A i \in DOMAIN window : LoadOf(i)' = LoadOf(i)
  BY <1>1, <1>7 DEF LoadOf
<1>12. ASSUME NEW i \in DOMAIN window PROVE InsnOK(i)'
  <2>1. InsnOK(i) /\ i \in Nat \ {0} /\ i + 0 = i
    BY <1>1 DEF ValuesInv
  <2>2. CASE i = k
    <3>1. window'[k].stage = "done" /\ window'[k].kind = "store"
      BY <1>1, <1>7
    <3>2. ~window'[k].load_violation
      <4>1. ~window[k].load_violation
        BY <2>1, <2>2, <1>1 DEF InsnOK
      <4> QED
        BY <4>1, <1>7
    <3>3. StoreOK(k)'
      <4>1. /\ s.value_avail <=> window'[k].stage = "done"
            /\ s.addr_avail /\ s.value \in DatumOf(s.size) /\ s.addr \in AddrOf(s.size)
        BY <1>4, <1>5, <3>1
      <4> QED
        BY <4>1, <1>9 DEF StoreOK, DatumOf, AddrOf, Addr, Byte
    <3> QED
      BY <2>2, <3>1, <3>2, <3>3 DEF InsnOK
  <2>3. CASE i # k /\ window[i].kind # "load"
    <3>1. window'[i].kind = window[i].kind /\ window'[i].stage = window[i].stage
      BY <1>7, <2>3
    <3>2. ~window[i].load_violation /\ (window[i].kind = "store" => StoreOK(i))
      BY <2>1, <2>3 DEF InsnOK
    <3>3. ~window'[i].load_violation
      <4>1. ~hit(i)
        BY <2>3 DEF hit
      <4> QED
        BY <4>1, <3>2, <1>7
    <3>4. window[i].kind = "store" => StoreOK(i)'
      <4>1. window[i].kind = "store" => StoreOf(i)' = StoreOf(i)
        BY <1>10, <2>3
      <4> QED
        BY <3>1, <3>2, <4>1 DEF StoreOK, DatumOf, AddrOf, Addr, Byte
    <3> QED
      BY <2>3, <3>1, <3>3, <3>4 DEF InsnOK
  <2>4. CASE i # k /\ window[i].kind = "load"
    <3>1. /\ window'[i].kind = "load" /\ window'[i].stage = window[i].stage
          /\ window'[i].exception = window[i].exception
          /\ window'[i].SQ_index = window[i].SQ_index /\ window'[i].SQ_phase = window[i].SQ_phase
          /\ LoadOf(i)' = LoadOf(i) /\ LoadOK(i)
      BY <1>7, <1>11, <2>1, <2>4 DEF InsnOK
    <3>2. LoadOK(i)'
      BY <3>1 DEF LoadOK, Linked, AddrOf, Addr, Faults
    <3>3. ASSUME LoadOf(i)'.value_avail, ~Marked(i)'
          PROVE  ValueOK(i)'
      <4>1. ValueOK(i)
        BY <2>1, <2>4, <3>1, <3>3 DEF InsnOK
      <4>2. \A j \in 1 .. i : window[j].load_violation => window'[j].load_violation
        <5> TAKE j \in 1 .. i
        <5>1. j \in DOMAIN window
          BY <1>1, <1>12
        <5> QED
          BY <5>1, <1>7
      <4>3. ASSUME k < i, ~old.addr_avail, SpecDisambig PROVE ~Conflict(s, LoadOf(i))
        <5>1. SUFFICES ASSUME Conflict(s, LoadOf(i)) PROVE FALSE
          OBVIOUS
        <5>2. i \in Later(k) /\ LoadOf(i).value_avail
          BY <2>4, <3>1, <3>3, <4>3 DEF Later
        <5>3. PICK m \in Later(k) : m <= i /\ window[m].LQ_index = FirstViolated(f, s)
          BY <1>1, <5>1, <5>2, ViolationFound
        <5>4. Violated(f, s) # {}
          BY <1>1, <5>1, <5>2, ViolationFound
        <5>5. m \in DOMAIN window /\ m # k /\ window[m].kind = "load"
          BY <1>1 DEF Later
        <5>6. hit(m)
          BY <1>6, <4>3, <5>3, <5>4, <5>5 DEF hit
        <5>7. window'[m].load_violation
          BY <1>7, <5>5, <5>6
        <5>8. m \in 1 .. i
          BY <1>1, <2>1, <5>3, <5>5
        <5> QED
          BY <3>3, <5>7, <5>8 DEF Marked
      <4>4. OlderKept(i, 0)
        <5> SUFFICES ASSUME NEW j \in 1 .. i - 1
                     PROVE  /\ window'[j].kind = window[j].kind
                            /\ window[j].kind = "store" =>
                                 /\ StoreOf(j).value_avail => SameStore(StoreOf(j)', StoreOf(j))
                                 /\ NoConflict(j, i) => NoConflict(j, i)'
          <6>1. \A j \in 1 .. i - 1 : j + 0 = j
            BY <2>1
          <6> QED
            BY <2>1, <6>1 DEF OlderKept
        <5>1. j \in DOMAIN window /\ j < i
          BY <1>1, <1>12
        <5>2. window'[j].kind = window[j].kind
          BY <1>7, <5>1
        <5>3. CASE j # k /\ window[j].kind = "store"
          <6>1. StoreOf(j)' = StoreOf(j)
            BY <1>10, <5>1, <5>3
          <6>2. NoConflict(j, i) => NoConflict(j, i)'
            BY <3>1, <6>1 DEF NoConflict, Conflict
          <6> QED
            BY <5>2, <6>1, <6>2, SameAgain
        <5>4. CASE j = k
          <6>1. NoConflict(k, i) <=> IF old.addr_avail THEN ~Conflict(old, LoadOf(i)) ELSE SpecDisambig
            BY <1>1 DEF NoConflict
          <6>2. NoConflict(k, i)' <=> ~Conflict(s, LoadOf(i))
            BY <1>4, <1>9, <3>1 DEF NoConflict, Conflict
          <6>3. ASSUME NoConflict(k, i) PROVE ~Conflict(s, LoadOf(i))
            <7>1. CASE old.addr_avail
              <8>1. Conflict(s, LoadOf(i)) <=> Conflict(old, LoadOf(i))
                BY <1>4, <1>5, <7>1, ConflictSame
              <8> QED
                BY <6>1, <6>3, <7>1, <8>1
            <7>2. CASE ~old.addr_avail
              BY <4>3, <5>1, <5>4, <6>1, <6>3, <7>2
            <7> QED
              BY <7>1, <7>2
          <6> QED
            BY <1>1, <1>5, <5>2, <5>4, <6>2, <6>3
        <5> QED
          BY <5>2, <5>3, <5>4
      <4> QED
        BY <1>1, <2>1, <3>1, <4>1, <4>2, <4>4, ValueStays, SameAgain
    <3>4. LoadOf(i)'.value_avail => ValueOK(i)'
      BY <3>3 DEF ValueOK
    <3> QED
      BY <3>1, <3>2, <3>4 DEF InsnOK
  <2> QED
    BY <2>2, <2>3, <2>4
<1> QED
  BY <1>8, <1>12 DEF ValuesInv

-----------------------------------------------------------------------------
(* Branches: a recovery keeps the older instructions and their entries.    *)

LEMMA RestoredLoad ==
  ASSUME NEW n \in Nat \ {0}, NEW q \in Ring(0 .. n - 1, Load, n), NEW t, NEW tphase,
         NEW i \in 0 .. n - 1
  PROVE  SameLoad(Restore(q, n, t, tphase).buf[i], q.buf[i])
<1> DEFINE len == Distance(q.head, q.head_phase, t, tphase, n)
           b == MOD_S(n + i - q.head, n) < len
           e == q.buf[i]
<1>1. e \in Load /\ Restore(q, n, t, tphase).buf[i] = [e EXCEPT !.valid = b]
  BY DEF Restore, Ring
<1> HIDE DEF b, e
<1>2. SameLoad([e EXCEPT !.valid = b], e)
  BY <1>1 DEF Load, SameLoad
<1> QED
  BY <1>1, <1>2 DEF e

LEMMA RestoredStore ==
  ASSUME NEW n \in Nat \ {0}, NEW q \in Ring(0 .. n - 1, Store, n), NEW t, NEW tphase,
         NEW i \in 0 .. n - 1
  PROVE  SameStore(Restore(q, n, t, tphase).buf[i], q.buf[i])
<1> DEFINE len == Distance(q.head, q.head_phase, t, tphase, n)
           b == MOD_S(n + i - q.head, n) < len
           e == q.buf[i]
<1>1. e \in Store /\ Restore(q, n, t, tphase).buf[i] = [e EXCEPT !.valid = b]
  BY DEF Restore, Ring
<1> HIDE DEF b, e
<1>2. SameStore([e EXCEPT !.valid = b], e)
  BY <1>1 DEF Store, SameStore
<1> QED
  BY <1>1, <1>2 DEF e

LEMMA ResolveCorrectValues ==
  ASSUME LSUInv, ValuesInv, NEW k \in DOMAIN window, ResolveCorrect(k)
  PROVE  ValuesInv'
<1>1. /\ window \in Seq(Flying) /\ DOMAIN window = 1 .. Len(window) /\ Len(window) \in Nat
      /\ \A j \in DOMAIN window : window[j] \in Flying
      /\ window[k].kind = "branch" /\ window' = [window EXCEPT ![k].stage = "done"]
      /\ LQ' = LQ /\ SQ' = SQ /\ mem' = mem
  BY WindowType DEF LSUInv, ResolveCorrect
<1>2. \A i \in DOMAIN window : Carried(i, 0)
  <2> TAKE i \in DOMAIN window
  <2>1. i + 0 = i /\ SameInsn(window'[i], window[i]) /\ window'[i].LQ_index = window[i].LQ_index
        /\ window'[i].SQ_index = window[i].SQ_index
    BY <1>1 DEF SameInsn, Flying
  <2>2. LoadOf(i)' = LoadOf(i) /\ StoreOf(i)' = StoreOf(i)
    BY <1>1, <2>1 DEF LoadOf, StoreOf
  <2> QED
    BY <2>1, <2>2, SameAgain DEF Carried
<1>3. ASSUME NEW i \in DOMAIN window PROVE InsnOK(i)'
  <2>1. \A j \in 1 .. i : Carried(j, 0)
    BY <1>1, <1>2
  <2> QED
    BY <1>1, <2>1, CarriedInsn
<1>4. DOMAIN window' = DOMAIN window
  BY <1>1
<1> QED
  BY <1>3, <1>4 DEF ValuesInv

LEMMA ResolveMispredictValues ==
  ASSUME LSUInv, ValuesInv, NEW k \in DOMAIN window, ResolveMispredict(k)
  PROVE  ValuesInv'
<1>1. /\ LSUTypeOK /\ window \in Seq(Flying) /\ DOMAIN window = 1 .. Len(window) /\ Len(window) \in Nat
      /\ \A j \in DOMAIN window : window[j] \in Flying
      /\ window[k].kind = "branch" /\ mem' = mem /\ k \in Nat \ {0}
      /\ window' = [SubSeq(window, 1, k) EXCEPT ![k].stage = "done"]
      /\ LQ' = Restore(LQ, LQSize, window[k].LQ_index, window[k].LQ_phase)
      /\ SQ' = Restore(SQ, SQSize, window[k].SQ_index, window[k].SQ_phase)
      /\ LQ \in Ring(0 .. LQSize - 1, Load, LQSize) /\ LQSize \in Nat \ {0}
      /\ SQ \in Ring(0 .. SQSize - 1, Store, SQSize) /\ SQSize \in Nat \ {0}
  BY WindowType, QueuesAreRings, LoadPlaces DEF LSUInv, ResolveMispredict
<1> DEFINE cut == SubSeq(window, 1, k)
<1>2. cut \in Seq(Flying) /\ Len(cut) = k /\ DOMAIN cut = 1 .. k /\ \A j \in 1 .. k : cut[j] = window[j]
  <2>1. \A j \in 1 .. k : window[j] \in Flying
    BY <1>1
  <2>2. cut \in Seq(Flying) /\ Len(cut) = k /\ \A j \in 1 .. k : cut[j] = window[j]
    BY <1>1, <2>1, SubSeqProperties
  <2> HIDE DEF cut
  <2> QED
    BY <2>2, <1>1, LenProperties
<1> HIDE DEF cut
<1>3. window' = [cut EXCEPT ![k].stage = "done"]
  BY <1>1 DEF cut
<1>4. DOMAIN window' = 1 .. k
  BY <1>2, <1>3
<1>5. \A i \in 1 .. k : Carried(i, 0)
  <2> TAKE i \in 1 .. k
  <2>1. i \in DOMAIN window /\ cut[i] = window[i] /\ window[i] \in Flying
    BY <1>1, <1>2
  <2>2. window'[i] = IF i = k THEN [cut[i] EXCEPT !.stage = "done"] ELSE cut[i]
    BY <1>1, <1>2, <1>3
  <2>3. i + 0 = i /\ SameInsn(window'[i], window[i]) /\ window'[i].LQ_index = window[i].LQ_index
        /\ window'[i].SQ_index = window[i].SQ_index
    <3>1. CASE i = k
      BY <1>1, <2>1, <2>2, <3>1 DEF SameInsn, Flying
    <3>2. CASE i # k
      BY <1>1, <2>1, <2>2, <3>2 DEF SameInsn
    <3> QED
      BY <3>1, <3>2
  <2>4. window[i].LQ_index \in 0 .. LQSize - 1 /\ window[i].SQ_index \in 0 .. SQSize - 1
        /\ LoadOf(i) \in Load /\ StoreOf(i) \in Store
    BY <1>1, <2>1, LoadPlaces, StorePlaces DEF LoadOf, StoreOf, Ring
  <2>5. SameLoad(LoadOf(i)', LoadOf(i))
    <3> DEFINE p == Restore(LQ, LQSize, window[k].LQ_index, window[k].LQ_phase)
               at == window[i].LQ_index
    <3>1. SameLoad(p.buf[at], LQ.buf[at])
      BY <1>1, <2>4, RestoredLoad
    <3>2. LoadOf(i)' = p.buf[at] /\ LoadOf(i) = LQ.buf[at]
      BY <1>1, <2>3 DEF LoadOf
    <3> QED
      BY <3>1, <3>2
  <2>6. SameStore(StoreOf(i)', StoreOf(i))
    <3> DEFINE p == Restore(SQ, SQSize, window[k].SQ_index, window[k].SQ_phase)
               at == window[i].SQ_index
    <3>1. SameStore(p.buf[at], SQ.buf[at])
      BY <1>1, <2>4, RestoredStore
    <3>2. StoreOf(i)' = p.buf[at] /\ StoreOf(i) = SQ.buf[at]
      BY <1>1, <2>3 DEF StoreOf
    <3> QED
      BY <3>1, <3>2
  <2> QED
    BY <2>3, <2>5, <2>6 DEF Carried
<1>6. ASSUME NEW i \in 1 .. k PROVE InsnOK(i)'
  <2>1. i \in DOMAIN window /\ \A j \in 1 .. i : Carried(j, 0)
    BY <1>1, <1>5
  <2> QED
    BY <1>1, <2>1, CarriedInsn
<1> QED
  BY <1>4, <1>6 DEF ValuesInv

-----------------------------------------------------------------------------
(* Retirement: every instruction moves one place to the head.              *)

LEMMA PoppedLoad ==
  ASSUME NEW n \in Nat \ {0}, NEW q \in Ring(0 .. n - 1, Load, n), NEW i \in 0 .. n - 1
  PROVE  SameLoad(Pop(q, n).buf[i], q.buf[i])
<1>1. CASE i = q.head
  <2>1. q.buf[i] \in Load /\ Pop(q, n).buf[i] = [q.buf[i] EXCEPT !.valid = FALSE]
    BY <1>1 DEF Pop, Ring
  <2> QED
    BY <2>1 DEF Load, SameLoad
<1>2. CASE i # q.head
  <2>1. Pop(q, n).buf[i] = q.buf[i]
    BY <1>2 DEF Pop, Ring
  <2> QED
    BY <2>1, SameAgain
<1> QED
  BY <1>1, <1>2

LEMMA PoppedStore ==
  ASSUME NEW n \in Nat \ {0}, NEW q \in Ring(0 .. n - 1, Store, n), NEW i \in 0 .. n - 1
  PROVE  SameStore(Pop(q, n).buf[i], q.buf[i])
<1>1. CASE i = q.head
  <2>1. q.buf[i] \in Store /\ Pop(q, n).buf[i] = [q.buf[i] EXCEPT !.valid = FALSE]
    BY <1>1 DEF Pop, Ring
  <2> QED
    BY <2>1 DEF Store, SameStore
<1>2. CASE i # q.head
  <2>1. Pop(q, n).buf[i] = q.buf[i]
    BY <1>2 DEF Pop, Ring
  <2> QED
    BY <2>1, SameAgain
<1> QED
  BY <1>1, <1>2

ContentsStay ==
  /\ \A i \in 0 .. LQSize - 1 : SameLoad(LQ'.buf[i], LQ.buf[i])
  /\ \A i \in 0 .. SQSize - 1 : SameStore(SQ'.buf[i], SQ.buf[i])

LEMMA TailCarries ==
  ASSUME LSUInv, window # <<>>, window' = Tail(window), ContentsStay
  PROVE  /\ DOMAIN window' = 1 .. Len(window) - 1 /\ Len(window) \in Nat
         /\ \A k \in DOMAIN window' : k + 1 \in DOMAIN window /\ window'[k] = window[k + 1] /\ Carried(k, 1)
         /\ \A k \in DOMAIN window' : window[k + 1].kind = "load" => OlderKept(k, 1)
<1>1. /\ window \in Seq(Flying) /\ DOMAIN window = 1 .. Len(window) /\ Len(window) \in Nat
      /\ DOMAIN window' = 1 .. Len(window) - 1
      /\ \A k \in 1 .. Len(window) - 1 : window'[k] = window[k + 1]
  <2>1. window \in Seq(Flying) /\ DOMAIN window = 1 .. Len(window) /\ Len(window) \in Nat
    BY WindowType DEF LSUInv
  <2>2. /\ Tail(window) \in Seq(Flying) /\ Len(Tail(window)) = Len(window) - 1
        /\ \A k \in 1 .. Len(window) - 1 : Tail(window)[k] = window[k + 1]
    BY <2>1, HeadTailProperties, EmptySeq
  <2>3. DOMAIN Tail(window) = 1 .. Len(window) - 1
    BY <2>2, LenProperties
  <2> QED
    BY <2>1, <2>2, <2>3
<1>2. ASSUME NEW k \in DOMAIN window'
      PROVE  k + 1 \in DOMAIN window /\ window'[k] = window[k + 1] /\ Carried(k, 1)
  <2>1. k + 1 \in DOMAIN window /\ window'[k] = window[k + 1]
    BY <1>1, <1>2
  <2>2. window[k + 1].LQ_index \in 0 .. LQSize - 1 /\ window[k + 1].SQ_index \in 0 .. SQSize - 1
    BY <2>1, LoadPlaces, StorePlaces
  <2>3. /\ LoadOf(k)' = LQ'.buf[window[k + 1].LQ_index]
        /\ StoreOf(k)' = SQ'.buf[window[k + 1].SQ_index]
    BY <2>1 DEF LoadOf, StoreOf
  <2>4. SameLoad(LoadOf(k)', LoadOf(k + 1)) /\ SameStore(StoreOf(k)', StoreOf(k + 1))
    BY <2>2, <2>3 DEF ContentsStay, LoadOf, StoreOf
  <2> QED
    BY <2>1, <2>4, SameAgain DEF Carried
<1>3. ASSUME NEW k \in DOMAIN window', window[k + 1].kind = "load"
      PROVE  OlderKept(k, 1)
  <2>1. k \in Nat /\ \A i \in 1 .. k - 1 : i \in DOMAIN window'
    BY <1>1, <1>3
  <2> QED
    BY <1>2, <1>3, <2>1, StoresKept
<1> QED
  BY <1>1, <1>2, <1>3

LEMMA TailValues ==
  ASSUME LSUInv, ValuesInv, window # <<>>, window' = Tail(window), ContentsStay,
         ~Head(window).load_violation,
         \A k \in DOMAIN window' :
            window[k + 1].kind = "load" /\ LoadOf(k + 1).value_avail =>
              /\ FromMemory(k + 1) => LET l == LoadOf(k + 1)
                                      IN  ~Faults(l.addr, l.size) =>
                                            Read(mem', l.addr, l.size) = Read(mem, l.addr, l.size)
              /\ ForwardedBy(1, k + 1) => FromMemory(k)'
  PROVE  ValuesInv'
<1> SUFFICES ASSUME NEW k \in DOMAIN window' PROVE InsnOK(k)'
  BY DEF ValuesInv
<1>1. /\ k + 1 \in DOMAIN window /\ window'[k] = window[k + 1] /\ Carried(k, 1) /\ k \in Nat \ {0}
      /\ \A i \in 1 .. k : i \in DOMAIN window'
      /\ InsnOK(k + 1) /\ Head(window) = window[1]
  BY TailCarries, HeadType DEF ValuesInv
<1>2. /\ window'[k].kind = "load" => LoadOK(k)'
      /\ window'[k].kind = "store" => StoreOK(k)'
      /\ window'[k].load_violation => window'[k].kind = "load"
  BY <1>1, EntryStays
<1>3. ASSUME window'[k].kind = "load", LoadOf(k)'.value_avail
      PROVE  ValueOK(k)'
  <2>1. /\ window[k + 1].kind = "load" /\ window'[k].exception = window[k + 1].exception
        /\ SameLoad(LoadOf(k)', LoadOf(k + 1)) /\ LoadOf(k + 1).value_avail
        /\ OlderKept(k, 1)
    <3>1. window[k + 1].kind = "load" /\ window'[k].exception = window[k + 1].exception
      BY <1>1, <1>3
    <3>2. SameLoad(LoadOf(k)', LoadOf(k + 1))
      BY <1>1, <3>1 DEF Carried
    <3>3. LoadOf(k + 1).value_avail
      BY <1>3, <3>2 DEF SameLoad
    <3>4. OlderKept(k, 1)
      BY <3>1, TailCarries
    <3> QED
      BY <3>1, <3>2, <3>3, <3>4
  <2>2. ValueOK(k + 1)
    BY <1>1, <2>1 DEF InsnOK
  <2>3. CASE Marked(k + 1)
    <3>1. PICK j \in 1 .. k + 1 : window[j].load_violation
      BY <2>3 DEF Marked
    <3>2. j # 1
      BY <1>1, <3>1
    <3>3. PICK i \in 1 .. k : j = i + 1
      <4>1. j - 1 \in 1 .. k /\ j = (j - 1) + 1
        BY <1>1, <3>2
      <4> QED
        BY <4>1
    <3>4. window'[i].load_violation
      BY <1>1, <3>1, <3>3, TailCarries
    <3> QED
      BY <3>4 DEF ValueOK, Marked
  <2>4. CASE FromMemory(k + 1)
    <3>1. FromMemory(k)'
      BY <1>1, <2>1, <2>4, FromMemoryStays
    <3> QED
      BY <3>1 DEF ValueOK
  <2>5. ASSUME NEW j, ForwardedBy(j, k + 1) PROVE ValueOK(k)'
    <3>1. j \in 1 .. k
      BY <1>1, <2>5 DEF ForwardedBy, Earlier
    <3>2. CASE j = 1
      BY <2>1, <2>5, <3>2 DEF ValueOK
    <3>3. CASE j # 1
      <4>1. j - 1 \in Nat \ {0} /\ (j - 1) + 1 = j
        BY <3>1, <3>3
      <4>2. ForwardedBy(j - 1, k)'
        <5> DEFINE i == j - 1
        <5>1. i \in Nat \ {0} /\ ForwardedBy(i + 1, k + 1)
          BY <4>1, <2>5
        <5> HIDE DEF i
        <5>2. ForwardedBy(i, k)'
          BY <1>1, <2>1, <5>1, ForwardedStays
        <5> QED
          BY <5>2 DEF i
      <4> QED
        BY <4>2 DEF ValueOK
    <3> QED
      BY <3>2, <3>3
  <2> QED
    BY <2>2, <2>3, <2>4, <2>5 DEF ValueOK
<1> QED
  BY <1>2, <1>3 DEF InsnOK

LEMMA RetireOtherValues ==
  ASSUME LSUInv, ValuesInv, window # <<>>, window' = Tail(window), mem' = mem, SQ' = SQ,
         Head(window).kind # "store", ~Head(window).load_violation,
         LQ' = LQ \/ LQ' = Pop(LQ, LQSize)
  PROVE  ValuesInv'
<1>1. /\ LQSize \in Nat \ {0} /\ LQ \in Ring(0 .. LQSize - 1, Load, LQSize)
      /\ Head(window) = window[1]
  BY QueuesAreRings, HeadType DEF LSUInv
<1>2. ContentsStay
  BY <1>1, PoppedLoad, SameAgain DEF ContentsStay
<1>3. ASSUME NEW k \in DOMAIN window'
      PROVE  /\ ~ForwardedBy(1, k + 1)
             /\ LET l == LoadOf(k + 1) IN Read(mem', l.addr, l.size) = Read(mem, l.addr, l.size)
  <2>1. ~ForwardedBy(1, k + 1)
    BY <1>1 DEF ForwardedBy, Earlier
  <2> QED
    BY <2>1
<1> QED
  BY <1>2, <1>3, TailValues

LEMMA RetireStoreValues ==
  ASSUME Plain, LSUInv, ValuesInv, RetireStore
  PROVE  ValuesInv'
<1> DEFINE s == StoreOf(1)
<1>1. /\ window # <<>> /\ Head(window).kind = "store" /\ window' = Tail(window)
      /\ Head(window).stage = "done"
      /\ SQ' = Pop(SQ, SQSize) /\ LQ' = LQ
      /\ ~Faults(HeadStore.addr, HeadStore.size)
      /\ mem' = Write(mem, HeadStore.addr, HeadStore.value)
  BY DEF RetireStore, Retiring
<1>2. /\ LSUTypeOK /\ Head(window) = window[1] /\ 1 \in DOMAIN window /\ DOMAIN window = 1 .. Len(window)
      /\ SQSize \in Nat \ {0} /\ SQ \in Ring(0 .. SQSize - 1, Store, SQSize)
      /\ LQSize \in Nat \ {0} /\ LQ \in Ring(0 .. LQSize - 1, Load, LQSize)
  BY <1>1, HeadType, QueuesAreRings, WindowType
<1>3. HeadStore = s /\ s \in Store
  <2>1. Names(window[1].SQ_index, window[1].SQ_phase, SQ, SQSize, 0)
    BY <1>2, StorePlaces, RankFirst
  <2>2. window[1].SQ_index = SQ.head /\ SQ.head \in 0 .. SQSize - 1
    BY <1>2, <2>1 DEF Names, MOD_S, Ring
  <2> QED
    BY <1>2, <2>2 DEF HeadStore, StoreOf, Ring
<1>4. /\ ~window[1].load_violation /\ s.value_avail /\ s.addr_avail
      /\ s.value \in DatumOf(s.size) /\ s.addr \in AddrOf(s.size) /\ s.size \in Sizes
      /\ s.addr \in Nat
  <2>1. InsnOK(1)
    BY <1>2 DEF ValuesInv
  <2>2. StoreOK(1) /\ ~window[1].load_violation
    BY <1>1, <1>2, <2>1 DEF InsnOK
  <2> QED
    BY <1>1, <1>2, <1>3, <2>2 DEF StoreOK, Store, Addr
<1> HIDE DEF s
<1>5. /\ mem \in [0 .. MemSize - 1 -> Byte] /\ mem' = Write(mem, s.addr, s.value)
      /\ ~Faults(s.addr, s.size)
  BY <1>1, <1>2, <1>3 DEF LSUTypeOK
<1>6. ContentsStay
  BY <1>1, <1>2, PoppedStore, SameAgain DEF ContentsStay
<1>7. ASSUME NEW k \in DOMAIN window', window[k + 1].kind = "load", LoadOf(k + 1).value_avail
      PROVE  LET l == LoadOf(k + 1)
             IN  /\ FromMemory(k + 1) /\ ~Faults(l.addr, l.size) =>
                      Read(mem', l.addr, l.size) = Read(mem, l.addr, l.size)
                 /\ ForwardedBy(1, k + 1) => FromMemory(k)'
  <2> DEFINE l == LoadOf(k + 1)
  <2>1. /\ k + 1 \in DOMAIN window /\ k \in Nat \ {0} /\ window'[k] = window[k + 1]
        /\ SameLoad(LoadOf(k)', l) /\ OlderKept(k, 1) /\ InsnOK(k + 1)
    BY <1>1, <1>6, <1>7, TailCarries DEF Carried, ValuesInv
  <2>2. /\ l.size \in Sizes /\ l.addr \in AddrOf(l.size) /\ l.addr \in Nat
    <3>1. window[k + 1].LQ_index \in 0 .. LQSize - 1
      BY <2>1, LoadPlaces
    <3>2. l \in Load
      BY <1>2, <3>1 DEF LoadOf, Ring
    <3>3. LoadOK(k + 1)
      BY <1>7, <2>1 DEF InsnOK
    <3>4. l.addr \in AddrOf(l.size)
      BY <1>7, <3>3 DEF LoadOK
    <3> QED
      BY <3>2, <3>4 DEF Load, Addr
  <2>3. 1 \in Earlier(window, k + 1, "store")
    BY <1>1, <1>2, <2>1 DEF Earlier
  <2>4. /\ Conflict(s, l) /\ s.size = l.size => s.addr = l.addr
        /\ ~Conflict(s, l) => Bytes(s) \cap Bytes(l) = {}
    BY <1>4, <2>2, ConflictIsOverlap
  <2>5. ASSUME FromMemory(k + 1), ~Faults(l.addr, l.size)
        PROVE  Read(mem', l.addr, l.size) = Read(mem, l.addr, l.size)
    <3>1. NoConflict(1, k + 1)
      BY <2>3, <2>5 DEF FromMemory
    <3>2. ~Conflict(s, l)
      BY <1>4, <3>1 DEF NoConflict, s
    <3>3. (s.addr .. s.addr + s.size - 1) \cap (l.addr .. l.addr + l.size - 1) = {}
      BY <2>4, <3>2 DEF Bytes
    <3> HIDE DEF l
    <3> QED
      BY <1>4, <1>5, <2>2, <2>5, <3>3, ReadPastWrite
  <2>6. ASSUME ForwardedBy(1, k + 1)
        PROVE  FromMemory(k)'
    <3>1. /\ Conflict(s, l) /\ s.size = l.size /\ s.value = l.value
          /\ \A i \in Earlier(window, k + 1, "store") : 1 < i => NoConflict(i, k + 1)
      BY <2>6 DEF ForwardedBy, s
    <3>2. s.addr = l.addr
      BY <2>4, <3>1
    <3>3. Read(mem', s.addr, s.size) = s.value
      BY <1>4, <1>5, ReadOwnWrite
    <3>4. LoadOf(k)'.addr = s.addr /\ LoadOf(k)'.size = s.size /\ LoadOf(k)'.value = s.value
      BY <2>1, <3>1, <3>2 DEF SameLoad
    <3>5. \A i \in Earlier(window', k, "store") : NoConflict(i, k)'
      <4> TAKE i \in Earlier(window', k, "store")
      <4>1. i \in 1 .. k - 1 /\ window'[i].kind = "store"
        BY DEF Earlier
      <4>2. window[i + 1].kind = "store"
        BY <2>1, <4>1 DEF OlderKept
      <4>3. i + 1 \in Earlier(window, k + 1, "store") /\ 1 < i + 1
        BY <2>1, <4>1, <4>2 DEF Earlier
      <4>4. NoConflict(i + 1, k + 1)
        BY <3>1, <4>3
      <4> QED
        BY <2>1, <4>1, <4>2, <4>4 DEF OlderKept
    <3>6. ~Faults(s.addr, s.size)
      BY <1>5
    <3>7. (IF Faults(LoadOf(k).addr, LoadOf(k).size) THEN window[k].exception
           ELSE LoadOf(k).value = Read(mem, LoadOf(k).addr, LoadOf(k).size))'
      BY <3>3, <3>4, <3>6 DEF Faults, Read
    <3> QED
      BY <3>5, <3>7 DEF FromMemory
  <2> QED
    BY <2>5, <2>6
<1> QED
  BY <1>1, <1>2, <1>4, <1>6, <1>7, TailValues

-----------------------------------------------------------------------------
LEMMA NoneInFlight == window' = <<>> => ValuesInv'
BY DEF ValuesInv

LEMMA InitValues == Init => ValuesInv
BY DEF Init, ValuesInv

LEMMA StutterValues == LSUInv /\ ValuesInv /\ UNCHANGED vars => ValuesInv'
<1> SUFFICES ASSUME LSUInv, ValuesInv, UNCHANGED vars PROVE ValuesInv'
  OBVIOUS
<1>1. /\ LQ' = LQ /\ SQ' = SQ /\ window' = window /\ mem' = mem
      /\ DOMAIN window = 1 .. Len(window) /\ Len(window) \in Nat
  BY WindowType DEF vars, LSUInv
<1>2. \A i \in DOMAIN window : Carried(i, 0)
  <2> TAKE i \in DOMAIN window
  <2>1. i + 0 = i
    BY <1>1
  <2> QED
    BY <1>1, <2>1, SameAgain DEF Carried, LoadOf, StoreOf
<1>3. ASSUME NEW i \in DOMAIN window PROVE InsnOK(i)'
  <2>1. \A j \in 1 .. i : Carried(j, 0)
    BY <1>1, <1>2
  <2> QED
    BY <1>1, <2>1, CarriedInsn
<1> QED
  BY <1>1, <1>3 DEF ValuesInv

LEMMA NextValues ==
  ASSUME Plain, LSUInv, ValuesInv, [Next]_vars
  PROVE  ValuesInv'
<1>1. CASE DispatchLoad
  BY <1>1, DispatchLoadValues
<1>2. CASE DispatchStore
  BY <1>2, DispatchStoreValues
<1>3. CASE DispatchBranch
  BY <1>3, DispatchBranchValues
<1>4. ASSUME NEW k \in DOMAIN window, ExecuteLoad(k) PROVE ValuesInv'
  BY <1>4, ExecuteLoadValues
<1>5. ASSUME NEW k \in DOMAIN window, LoadReplay(k) PROVE ValuesInv'
  BY <1>5, LoadReplayValues
<1>6. ASSUME NEW k \in DOMAIN window, ExecuteStore(k) PROVE ValuesInv'
  BY <1>6, ExecuteStoreValues
<1>7. ASSUME NEW k \in DOMAIN window, ResolveCorrect(k) PROVE ValuesInv'
  BY <1>7, ResolveCorrectValues
<1>8. ASSUME NEW k \in DOMAIN window, ResolveMispredict(k) PROVE ValuesInv'
  BY <1>8, ResolveMispredictValues
<1>9. CASE RetireLoad
  BY <1>9, RetireOtherValues DEF RetireLoad, Retiring
<1>10. CASE RetireBadLoad \/ RetireBadStore \/ (Squash /\ UNCHANGED mem)
  BY <1>10, NoneInFlight DEF RetireBadLoad, RetireBadStore, Squash
<1>11. CASE RetireStore
  BY <1>11, RetireStoreValues
<1>12. CASE RetireBranch
  <2>1. /\ window # <<>> /\ Head(window).kind = "branch" /\ window' = Tail(window)
        /\ LQ' = LQ /\ SQ' = SQ /\ mem' = mem
    BY <1>12 DEF RetireBranch, Retiring
  <2>2. ~Head(window).load_violation
    <3>1. InsnOK(1) /\ Head(window) = window[1]
      BY <2>1, HeadType DEF ValuesInv
    <3> QED
      BY <2>1, <3>1 DEF InsnOK
  <2> QED
    BY <2>1, <2>2, RetireOtherValues
<1>13. CASE UNCHANGED vars
  BY <1>13, StutterValues
<1> QED
  BY <1>1, <1>2, <1>3, <1>4, <1>5, <1>6, <1>7, <1>8, <1>9, <1>10, <1>11, <1>12, <1>13 DEF Next

-----------------------------------------------------------------------------
(* What the invariant says of the values.                                  *)

LEMMA LoadShape ==
  ASSUME LSUInv, ValuesInv, NEW k \in DOMAIN window, window[k].kind = "load", LoadOf(k).value_avail
  PROVE  /\ LoadOf(k).size \in Sizes /\ LoadOf(k).addr \in AddrOf(LoadOf(k).size)
         /\ LoadOf(k).addr \in Nat
<1>1. InsnOK(k) /\ LoadOf(k) \in Load
  <2>1. window[k].LQ_index \in 0 .. LQSize - 1 /\ LQ \in Ring(0 .. LQSize - 1, Load, LQSize)
    BY LoadPlaces, QueuesAreRings DEF LSUInv
  <2> QED
    BY <2>1 DEF ValuesInv, LoadOf, Ring
<1>2. LoadOK(k)
  BY <1>1 DEF InsnOK
<1> QED
  BY <1>1, <1>2 DEF LoadOK, Load, Addr

LEMMA StoreShape ==
  ASSUME LSUInv, ValuesInv, NEW k \in DOMAIN window, window[k].kind = "store", StoreOf(k).addr_avail
  PROVE  /\ StoreOf(k).size \in Sizes /\ StoreOf(k).addr \in AddrOf(StoreOf(k).size)
         /\ StoreOf(k).value_avail => StoreOf(k).value \in [1 .. StoreOf(k).size -> Byte]
<1>1. InsnOK(k) /\ StoreOf(k) \in Store
  <2>1. window[k].SQ_index \in 0 .. SQSize - 1 /\ SQ \in Ring(0 .. SQSize - 1, Store, SQSize)
    BY StorePlaces, QueuesAreRings DEF LSUInv
  <2> QED
    BY <2>1 DEF ValuesInv, StoreOf, Ring
<1>2. StoreOK(k)
  BY <1>1 DEF InsnOK
<1> QED
  BY <1>1, <1>2 DEF StoreOK, Store, DatumOf

Covering(k, b) == {j \in Earlier(window, k, "store") : b \in Bytes(StoreOf(j))}

LEMMA ByteFromMemory ==
  ASSUME NEW k, NEW b, Covering(k, b) = {}
  PROVE  ByteBefore(k, b) = mem[b]
BY DEF ByteBefore, Covering, Bytes

LEMMA ByteFromStore ==
  ASSUME NEW k \in Nat, NEW b, NEW j \in Covering(k, b), \A i \in Covering(k, b) : i <= j
  PROVE  ByteBefore(k, b) = StoreOf(j).value[b - StoreOf(j).addr + 1]
<1> DEFINE C == Covering(k, b)
           last == CHOOSE x \in C : \A i \in C : i <= x
<1>1. C # {} /\ C \subseteq Nat
  BY DEF Covering, Earlier
<1>2. last \in C /\ \A i \in C : i <= last
  OBVIOUS
<1>3. last = j
  <2>1. last <= j /\ j <= last /\ last \in Nat /\ j \in Nat
    BY <1>1, <1>2
  <2> HIDE DEF last
  <2> QED
    BY <2>1
<1>4. ByteBefore(k, b) = LET s == StoreOf(last) IN s.value[b - s.addr + 1]
  BY <1>1 DEF ByteBefore, Covering, Bytes
<1> QED
  BY <1>3, <1>4

LEMMA ValuesAreSequential ==
  ASSUME Plain, LSUInv, ValuesInv
  PROVE  LoadsAreSequential
<1> SUFFICES ASSUME NEW k \in DOMAIN window, window[k].kind = "load", LoadOf(k).value_avail,
                    \A j \in 1 .. k : ~window[j].load_violation,
                    \A j \in Earlier(window, k, "store") :
                       StoreOf(j).addr_avail /\ ~Faults(StoreOf(j).addr, StoreOf(j).size)
             PROVE  IF Faults(LoadOf(k).addr, LoadOf(k).size) THEN window[k].exception
                    ELSE LoadOf(k).value = Sequential(k)
  BY DEF LoadsAreSequential
<1> DEFINE l == LoadOf(k)
<1>1. /\ l.size \in Sizes /\ l.addr \in AddrOf(l.size) /\ l.addr \in Nat
      /\ k \in Nat \ {0} /\ DOMAIN window = 1 .. Len(window) /\ Len(window) \in Nat
      /\ l.size \in Nat \ {0}
  BY LoadShape, LoadPlaces, WindowType, SizesAreNat DEF LSUInv
<1>2. ValueOK(k) /\ ~Marked(k)
  BY DEF ValuesInv, InsnOK, Marked
<1>3. \A i \in Earlier(window, k, "store") :
        NoConflict(i, k) => Bytes(StoreOf(i)) \cap Bytes(l) = {}
  <2> SUFFICES ASSUME NEW i \in Earlier(window, k, "store"), NoConflict(i, k)
               PROVE  Bytes(StoreOf(i)) \cap Bytes(l) = {}
    OBVIOUS
  <2>1. i \in DOMAIN window /\ window[i].kind = "store" /\ StoreOf(i).addr_avail
    BY <1>1 DEF Earlier
  <2>2. ~Conflict(StoreOf(i), l)
    BY <2>1 DEF NoConflict
  <2> QED
    BY <1>1, <2>1, <2>2, StoreShape, ConflictIsOverlap
<1>4. \A i \in 1 .. l.size : l.addr + i - 1 \in Bytes(l)
  BY <1>1 DEF Bytes
<1>5. CASE FromMemory(k)
  <2>1. ASSUME NEW b \in Bytes(l) PROVE ByteBefore(k, b) = mem[b]
    <3>1. Covering(k, b) = {}
      BY <1>3, <1>5 DEF FromMemory, Covering
    <3> QED
      BY <3>1, ByteFromMemory
  <2>2. Sequential(k) = Read(mem, l.addr, l.size)
    BY <1>4, <2>1 DEF Sequential, Read
  <2> QED
    BY <1>5, <2>2 DEF FromMemory
<1>6. ASSUME NEW j, ForwardedBy(j, k)
      PROVE  IF Faults(l.addr, l.size) THEN window[k].exception ELSE l.value = Sequential(k)
  <2> DEFINE s == StoreOf(j)
  <2>1. /\ j \in Earlier(window, k, "store") /\ s.value_avail /\ s.addr_avail /\ Conflict(s, l)
        /\ s.size = l.size /\ s.value = l.value /\ ~Faults(s.addr, s.size)
        /\ \A i \in Earlier(window, k, "store") : j < i => NoConflict(i, k)
    BY <1>6 DEF ForwardedBy
  <2>2. j \in DOMAIN window /\ window[j].kind = "store" /\ j \in Nat
    BY <1>1, <2>1 DEF Earlier
  <2>3. s.addr \in AddrOf(s.size) /\ s.value \in [1 .. s.size -> Byte]
    BY <2>1, <2>2, StoreShape
  <2>4. s.addr = l.addr
    BY <1>1, <2>1, <2>3, ConflictIsOverlap
  <2>5. ASSUME NEW i \in 1 .. l.size PROVE ByteBefore(k, l.addr + i - 1) = s.value[i]
    <3> DEFINE b == l.addr + i - 1
    <3>1. b \in Bytes(l) /\ b - l.addr + 1 = i
      BY <1>1, <1>4
    <3>2. Bytes(s) = Bytes(l)
      BY <2>1, <2>4 DEF Bytes
    <3> HIDE DEF b
    <3>3. j \in Covering(k, b)
      BY <2>1, <3>1, <3>2 DEF Covering
    <3>4. \A x \in Covering(k, b) : x <= j
      <4> TAKE x \in Covering(k, b)
      <4>1. x \in Earlier(window, k, "store") /\ b \in Bytes(StoreOf(x)) /\ x \in Nat
        BY DEF Covering, Earlier
      <4>2. ~(j < x)
        BY <1>3, <2>1, <3>1, <4>1
      <4> QED
        BY <2>2, <4>1, <4>2
    <3>5. ByteBefore(k, b) = StoreOf(j).value[b - StoreOf(j).addr + 1]
      BY <1>1, <3>3, <3>4, ByteFromStore
    <3> QED
      BY <2>4, <3>1, <3>5 DEF b
  <2>6. Sequential(k) = [i \in 1 .. l.size |-> s.value[i]]
    BY <2>5 DEF Sequential
  <2>7. s.value = [i \in 1 .. l.size |-> s.value[i]]
    BY <2>1, <2>3
  <2>8. ~Faults(l.addr, l.size)
    BY <2>1, <2>4
  <2> QED
    BY <2>1, <2>6, <2>7, <2>8
<1> QED
  BY <1>2, <1>5, <1>6 DEF ValueOK

LEMMA RetiringValueIsRight ==
  ASSUME LSUInv, ValuesInv
  PROVE  RetiringLoadIsRight
<1> SUFFICES ASSUME Retiring("load"), ~Head(window).load_violation
             PROVE  /\ Head(window).exception <=> Faults(LoadOf(1).addr, LoadOf(1).size)
                    /\ ~Head(window).exception =>
                         LoadOf(1).value = Read(mem, LoadOf(1).addr, LoadOf(1).size)
  BY DEF RetiringLoadIsRight
<1>1. /\ Head(window) = window[1] /\ 1 \in DOMAIN window /\ window[1].kind = "load"
      /\ window[1].stage = "done" /\ ~window[1].load_violation /\ InsnOK(1)
  BY HeadType DEF Retiring, ValuesInv
<1>2. LoadOK(1)
  BY <1>1 DEF InsnOK
<1>3. LoadOf(1).value_avail /\ (window[1].exception => Faults(LoadOf(1).addr, LoadOf(1).size))
  BY <1>1, <1>2 DEF LoadOK
<1>4. ~Marked(1)
  BY <1>1 DEF Marked
<1>5. \A j : ~ForwardedBy(j, 1)
  BY DEF ForwardedBy, Earlier
<1>6. FromMemory(1)
  BY <1>1, <1>3, <1>4, <1>5 DEF InsnOK, ValueOK
<1> QED
  BY <1>1, <1>3, <1>6 DEF FromMemory

(* No order of executing loads and stores, no miss, no replay and no       *)
(* recovery lets a wrong value escape: an unmarked load whose older stores *)
(* are all known has the value of a sequential memory (disambiguate,       *)
(* ld_violation, load_replay in lsu.cc), as long as addresses are aligned  *)
(* and the mask the code compares them with takes no bit of them.          *)
THEOREM LSULoadsAreSequential ==
  ASSUME ~Misaligned, AddrSpace <= MaskSpace
  PROVE  Spec => []LoadsAreSequential
<1>1. Plain
  BY DEF Plain
<1>2. Init => LSUInv /\ ValuesInv
  BY InitInv, InitValues
<1>3. LSUInv /\ ValuesInv /\ [Next]_vars => (LSUInv /\ ValuesInv)'
  BY <1>1, NextInv, NextValues
<1>4. LSUInv /\ ValuesInv => LoadsAreSequential
  BY <1>1, ValuesAreSequential
<1> QED
  BY <1>2, <1>3, <1>4, PTL DEF Spec

(* What checker() asserts in retire.cc: a load that retires unmarked traps *)
(* exactly when its access does, and otherwise has the value in memory.    *)
THEOREM LSURetiringLoadIsRight ==
  ASSUME ~Misaligned, AddrSpace <= MaskSpace
  PROVE  Spec => []RetiringLoadIsRight
<1>1. Plain
  BY DEF Plain
<1>2. Init => LSUInv /\ ValuesInv
  BY InitInv, InitValues
<1>3. LSUInv /\ ValuesInv /\ [Next]_vars => (LSUInv /\ ValuesInv)'
  BY <1>1, NextInv, NextValues
<1>4. LSUInv /\ ValuesInv => RetiringLoadIsRight
  BY RetiringValueIsRight
<1> QED
  BY <1>2, <1>3, <1>4, PTL DEF Spec

=============================================================================
