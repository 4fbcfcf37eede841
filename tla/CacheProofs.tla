----------------------------- MODULE CacheProofs -----------------------------
(***************************************************************************)
(* Theorems about Cache.tla, for every number of lines, sets, ways,        *)
(* registers and ports and for all latencies.                              *)
(***************************************************************************)
EXTENDS Cache, FiniteSetTheorems, SequenceTheorems, WellFoundedInduction, TLAPS

-----------------------------------------------------------------------------
(* The invariant, of one cache k with the name c.                          *)

Registers == [busy : BOOLEAN, resolved : Nat, line : Lines \cup {None}]
WaysIn(c) == [line : Lines, mhsr : {None} \cup 1..NumMHSR[c], dirty : BOOLEAN]
SetsOf(c) == 0..Sets[c]-1
CacheStates(c) ==
  [sets : [SetsOf(c) -> Seq(WaysIn(c))], mhsr : [1..NumMHSR[c] -> Registers],
   ports : [1..NumPorts[c] -> Nat], arrives : [Lines -> Nat]]

\* No more lines than ways, only lines of this set, and none twice.
SetOK(c, x, ways) ==
  /\ Len(ways) <= Assoc[c]
  /\ \A j \in DOMAIN ways : SetOf(c, ways[j].line) = x
  /\ \A j, m \in DOMAIN ways : ways[j].line = ways[m].line => j = m

\* A line that names a register is the one it brings in.
WayOK(c, k, way, now) ==
  IF way.mhsr = None THEN c \in L1s => k.arrives[way.line] <= now
  ELSE k.mhsr[way.mhsr] = [busy |-> TRUE, resolved |-> k.arrives[way.line], line |-> way.line]

CacheOK(c, k, now) ==
  /\ k \in CacheStates(c)
  /\ \A x \in SetsOf(c) : SetOK(c, x, k.sets[x])
  /\ \A x \in SetsOf(c) : \A j \in DOMAIN k.sets[x] : WayOK(c, k, k.sets[x][j], now)

AllCaches(s) == s = [c \in Caches |-> s[c]]

CachesInv ==
  /\ cycle \in Nat /\ rejected \in BOOLEAN /\ AllCaches(caches)
  /\ \A c \in Caches : CacheOK(c, caches[c], cycle)

-----------------------------------------------------------------------------
(* Constants, and what the CHOOSEs find.                                   *)

LEMMA Parameters ==
  /\ Lines \subseteq Nat /\ MissLatency \in Nat /\ None \notin Nat
  /\ \A c \in Caches :
       /\ Sets[c] \in Nat \ {0} /\ Assoc[c] \in Nat \ {0} /\ HitLatency[c] \in Nat \ {0}
       /\ NumMHSR[c] \in Nat \ {0} /\ NumPorts[c] \in Nat \ {0} /\ PortLatency[c] \in Nat \ {0}
<1>1. Lines \subseteq Nat /\ MissLatency \in Nat
  BY CacheAssumption
<1>2. /\ Sets \in [Caches -> Nat \ {0}] /\ Assoc \in [Caches -> Nat \ {0}]
      /\ HitLatency \in [Caches -> Nat \ {0}] /\ NumMHSR \in [Caches -> Nat \ {0}]
      /\ NumPorts \in [Caches -> Nat \ {0}] /\ PortLatency \in [Caches -> Nat \ {0}]
  BY CacheAssumption
<1>3. None \notin Nat
  BY DEF None
<1> QED
  BY <1>1, <1>2, <1>3

LEMMA SetOfType ==
  ASSUME NEW c \in Caches, NEW line \in Lines \cup {None}
  PROVE  SetOf(c, line) \in SetsOf(c)
<1>1. \A n \in Nat \ {0} : \A a \in Int : a % n \in 0..n-1
  OBVIOUS
<1>2. line \in Int /\ Sets[c] \in Nat \ {0}
  BY Parameters DEF None
<1> QED
  BY <1>1, <1>2 DEF SetOf, SetsOf

LEMMA Least ==
  ASSUME NEW T, T \subseteq Nat, T # {}
  PROVE  \E x \in T : \A y \in T : x <= y
<1>1. PICK x \in T : \A y \in T : ~(<<y, x>> \in OpToRel(<, Nat))
  BY NatLessThanWellFounded, WFMin
<1>2. ASSUME NEW y \in T PROVE x <= y
  <2>1. ~(<<y, x>> \in OpToRel(<, Nat)) /\ <<y, x>> \in Nat \X Nat
    BY <1>1
  <2>2. ~(y < x)
    BY <2>1 DEF OpToRel
  <2> QED
    BY <2>2
<1> QED
  BY <1>2

LEMMA FirstUsableIs ==
  ASSUME NEW c \in Caches, NEW s, NEW t, Usable(s, c, t) # {}
  PROVE  FirstUsable(s, c, t) \in Usable(s, c, t)
<1>1. Usable(s, c, t) \subseteq Nat
  BY Parameters DEF Usable
<1>2. \E i \in Usable(s, c, t) : \A j \in Usable(s, c, t) : i <= j
  BY <1>1, Least
<1> QED
  BY <1>2 DEF FirstUsable

LEMMA NextPortIs ==
  ASSUME NEW c \in Caches, NEW s, s[c].ports \in [1..NumPorts[c] -> Nat]
  PROVE  NextPort(s, c) \in 1..NumPorts[c]
<1> DEFINE avail == s[c].ports
           n == NumPorts[c]
           Soonest(i) == \A j \in DOMAIN avail : avail[i] <= avail[j]
           Times == {avail[i] : i \in 1..n}
           First == {i \in 1..n : Soonest(i)}
<1>1. n \in Nat \ {0} /\ avail \in [1..n -> Nat] /\ DOMAIN avail = 1..n
  BY Parameters
<1> HIDE DEF avail, n
<1>2. Times \subseteq Nat /\ avail[1] \in Times
  BY <1>1
<1>3. PICK m \in Times : \A y \in Times : m <= y
  BY <1>2, Least
<1>4. PICK i \in 1..n : avail[i] = m
  BY <1>3
<1>5. i \in First
  BY <1>1, <1>3, <1>4
<1>6. First \subseteq Nat
  BY <1>1
<1>7. PICK k \in First : \A y \in First : k <= y
  <2> HIDE DEF First
  <2> QED
    BY <1>5, <1>6, Least
<1>8. ASSUME NEW j \in 1..k-1 PROVE ~Soonest(j)
  <2>1. j \in 1..n /\ ~(k <= j)
    BY <1>1, <1>7
  <2> QED
    BY <2>1, <1>7
<1>9. k \in DOMAIN avail /\ Soonest(k) /\ \A j \in 1..k-1 : ~Soonest(j)
  BY <1>1, <1>7, <1>8
<1>10. NextPort(s, c) = CHOOSE i_1 \in DOMAIN avail : Soonest(i_1) /\ \A j \in 1..i_1-1 : ~Soonest(j)
  BY DEF NextPort, avail
<1> HIDE DEF Soonest
<1> QED
  BY <1>1, <1>9, <1>10 DEF n

LEMMA MaxOfTwo ==
  ASSUME NEW a \in Nat, NEW R, R = {} \/ \E r \in Nat : R = {r}
  PROVE  Max({a} \cup R) \in Nat /\ Max({a} \cup R) >= a
<1> DEFINE S == {a} \cup R
<1>1. \E x \in S : \A y \in S : x >= y
  <2>1. CASE R = {}
    BY <2>1
  <2>2. ASSUME NEW r \in Nat, R = {r} PROVE \E x \in S : \A y \in S : x >= y
    <3>1. S = {a, r}
      BY <2>2
    <3>2. CASE a >= r
      BY <3>1, <3>2
    <3>3. CASE r >= a
      BY <3>1, <3>3
    <3> QED
      BY <3>2, <3>3
  <2> QED
    BY <2>1, <2>2
<1>2. S \subseteq Nat /\ a \in S
  OBVIOUS
<1> HIDE DEF S
<1>3. Max(S) \in S /\ \A y \in S : Max(S) >= y
  BY <1>1 DEF Max
<1> QED
  BY <1>2, <1>3 DEF S

LEMMA AfterHitIs ==
  ASSUME NEW c \in Caches, NEW t \in Nat, NEW when \in Nat, when >= t
  PROVE  AfterHit(c, t, when) \in Nat /\ AfterHit(c, t, when) >= when /\ AfterHit(c, t, when) > t
BY Parameters DEF AfterHit

-----------------------------------------------------------------------------
(* The ways of a set, when one is used and when one is replaced.           *)

\* What a set holds once way has gone to its front.
Fronted(W, ways, way, r) ==
  /\ r \in Seq(W) /\ Len(r) >= 1 /\ r[1] = way
  /\ \A j \in DOMAIN r :
       r[j] = way \/ (r[j].line # way.line /\ \E m \in DOMAIN ways : r[j] = ways[m])

LEMMA Joined ==
  ASSUME NEW W, NEW a \in Seq(W), NEW b \in Seq(W), NEW m, NEW n, Len(a) = m, Len(b) = n
  PROVE  /\ a \o b \in Seq(W) /\ Len(a \o b) = m + n
         /\ \A j \in 1..m+n : (a \o b)[j] = IF j <= m THEN a[j] ELSE b[j - m]
BY ConcatProperties

LEMMA Prefixed ==
  ASSUME NEW W, NEW way \in W, NEW b \in Seq(W), NEW n, Len(b) = n
  PROVE  /\ <<way>> \o b \in Seq(W) /\ Len(<<way>> \o b) = n + 1 /\ (<<way>> \o b)[1] = way
         /\ \A j \in 2..n+1 : (<<way>> \o b)[j] = b[j - 1]
<1> DEFINE e == <<way>>
<1>1. e \in Seq(W) /\ Len(e) = 1 /\ e[1] = way /\ n \in Nat
  BY LenProperties
<1> HIDE DEF e
<1>2. /\ e \o b \in Seq(W) /\ Len(e \o b) = Len(e) + Len(b)
      /\ \A j \in 1..Len(e) + Len(b) : (e \o b)[j] = IF j <= Len(e) THEN e[j] ELSE b[j - Len(e)]
  BY <1>1, ConcatProperties
<1>3. Len(e) + Len(b) = n + 1 /\ 1 \in 1..n+1 /\ \A j \in 2..n+1 : j \in 1..n+1 /\ ~(j <= 1)
  BY <1>1
<1> QED
  BY <1>1, <1>2, <1>3 DEF e

LEMMA PlaceOfIs ==
  ASSUME NEW ways, NEW line, Place(ways, line) # {}
  PROVE  PlaceOf(ways, line) \in DOMAIN ways /\ ways[PlaceOf(ways, line)].line = line
BY DEF Place, PlaceOf

LEMMA ToFrontIs ==
  ASSUME NEW c \in Caches, NEW x \in SetsOf(c), NEW ways \in Seq(WaysIn(c)), SetOK(c, x, ways),
         NEW way \in WaysIn(c), Place(ways, way.line) # {}
  PROVE  SetOK(c, x, ToFront(ways, way)) /\ Fronted(WaysIn(c), ways, way, ToFront(ways, way))
<1> DEFINE W == WaysIn(c)
           n == Len(ways)
           k == PlaceOf(ways, way.line)
           a == SubSeq(ways, 1, k - 1)
           b == SubSeq(ways, k + 1, n)
           r == ToFront(ways, way)
           Old(j) == IF j <= k THEN j - 1 ELSE j
<1>1. /\ n \in Nat /\ DOMAIN ways = 1..n /\ k \in 1..n /\ ways[k].line = way.line
      /\ \A j \in 1..n : ways[j] \in W
  BY PlaceOfIs, LenProperties, ElementOfSeq
<1>2. r = <<way>> \o (a \o b)
  BY DEF ToFront, RemoveAt
<1> HIDE DEF k, n, r, W
<1>3. /\ a \in Seq(W) /\ Len(a) = k - 1 /\ \A j \in 1..k-1 : a[j] = ways[j]
  <2>1. \A j \in 1..k-1 : ways[j] \in W
    BY <1>1
  <2>2. /\ a \in Seq(W) /\ Len(a) = (IF 1 <= k - 1 THEN (k - 1) - 1 + 1 ELSE 0)
        /\ \A j \in 1..(k-1)-1+1 : a[j] = ways[1 + j - 1]
    BY <2>1, <1>1, SubSeqProperties
  <2> QED
    BY <2>2, <1>1
<1>4. /\ b \in Seq(W) /\ Len(b) = n - k /\ \A j \in 1..n-k : b[j] = ways[k + j]
  <2>1. \A j \in k+1..n : ways[j] \in W
    BY <1>1
  <2>2. /\ b \in Seq(W) /\ Len(b) = (IF k + 1 <= n THEN n - (k + 1) + 1 ELSE 0)
        /\ \A j \in 1..n-(k+1)+1 : b[j] = ways[(k + 1) + j - 1]
    BY <2>1, <1>1, SubSeqProperties
  <2>3. n - (k + 1) + 1 = n - k /\ \A j \in 1..n-k : (k + 1) + j - 1 = k + j
    BY <1>1
  <2> QED
    BY <2>2, <2>3, <1>1
<1> HIDE DEF a, b
<1>5. /\ a \o b \in Seq(W) /\ Len(a \o b) = n - 1
      /\ \A j \in 1..n-1 : (a \o b)[j] = IF j <= k - 1 THEN a[j] ELSE b[j - (k - 1)]
  <2>1. (k - 1) + (n - k) = n - 1
    BY <1>1
  <2> QED
    BY <2>1, <1>3, <1>4, Joined
<1>6. \A j \in 1..n-1 : (a \o b)[j] = ways[Old(j + 1)] /\ Old(j + 1) \in 1..n /\ Old(j + 1) # k
  <2> TAKE j \in 1..n-1
  <2>1. CASE j <= k - 1
    <3>1. j \in 1..k-1 /\ Old(j + 1) = j
      BY <1>1, <2>1
    <3> QED
      BY <3>1, <1>1, <1>3, <1>5
  <2>2. CASE ~(j <= k - 1)
    <3>1. j - (k - 1) \in 1..n-k /\ k + (j - (k - 1)) = j + 1 /\ Old(j + 1) = j + 1
      BY <1>1, <2>2
    <3> QED
      BY <3>1, <1>1, <1>4, <1>5, <2>2
  <2> QED
    BY <2>1, <2>2
<1>8. /\ r \in Seq(W) /\ Len(r) = n /\ r[1] = way
      /\ \A j \in 2..n : r[j] = ways[Old(j)] /\ Old(j) \in 1..n /\ Old(j) # k
  <2>1. /\ r \in Seq(W) /\ Len(r) = (n - 1) + 1 /\ r[1] = way
        /\ \A j \in 2..(n - 1) + 1 : r[j] = (a \o b)[j - 1]
    BY <1>2, <1>5, Prefixed DEF W
  <2>2. (n - 1) + 1 = n /\ \A j \in 2..n : j - 1 \in 1..n-1 /\ (j - 1) + 1 = j
    BY <1>1
  <2> HIDE DEF Old
  <2> QED
    BY <2>1, <2>2, <1>6
<1>9. /\ n <= Assoc[c] /\ \A j \in 1..n : SetOf(c, ways[j].line) = x
      /\ \A j, m \in 1..n : ways[j].line = ways[m].line => j = m
  BY <1>1 DEF SetOK, n
<1>10. \A j, m \in 2..n : Old(j) = Old(m) => j = m
  BY <1>1
<1>11. /\ \A j \in 1..n : j = 1 \/ j \in 2..n
       /\ DOMAIN r = 1..n /\ n >= 1
  <2>1. DOMAIN r = 1..Len(r)
    BY <1>8, LenProperties
  <2> QED
    BY <2>1, <1>1, <1>8
<1> HIDE DEF Old
<1>12. \A j \in 2..n : r[j].line # way.line /\ SetOf(c, r[j].line) = x
  BY <1>1, <1>8, <1>9
<1>13. SetOf(c, r[1].line) = x
  BY <1>1, <1>8, <1>9
<1>14. \A j, m \in 1..n : r[j].line = r[m].line => j = m
  <2>1. \A j, m \in 2..n : r[j].line = r[m].line => j = m
    BY <1>8, <1>9, <1>10
  <2> QED
    BY <2>1, <1>8, <1>11, <1>12
<1>15. SetOK(c, x, r)
  <2>1. \A j \in 1..n : SetOf(c, r[j].line) = x
    BY <1>11, <1>12, <1>13
  <2> QED
    BY <2>1, <1>8, <1>9, <1>11, <1>14 DEF SetOK
<1>16. Fronted(W, ways, way, r)
  <2>1. \A j \in 1..n : r[j] = way \/ (r[j].line # way.line /\ \E m \in DOMAIN ways : r[j] = ways[m])
    BY <1>1, <1>8, <1>11, <1>12
  <2> QED
    BY <2>1, <1>8, <1>11 DEF Fronted
<1> QED
  BY <1>15, <1>16 DEF r, W

LEMMA ReplacedIs ==
  ASSUME NEW c \in Caches, NEW x \in SetsOf(c), NEW ways \in Seq(WaysIn(c)), SetOK(c, x, ways),
         NEW way \in WaysIn(c), Place(ways, way.line) = {}, SetOf(c, way.line) = x
  PROVE  /\ SetOK(c, x, <<way>> \o Kept(ways, c))
         /\ Fronted(WaysIn(c), ways, way, <<way>> \o Kept(ways, c))
<1> DEFINE W == WaysIn(c)
           n == Len(ways)
           k == Kept(ways, c)
           l == Len(k)
           r == <<way>> \o k
<1>1. /\ n \in Nat /\ DOMAIN ways = 1..n /\ \A j \in 1..n : ways[j] \in W
      /\ Assoc[c] \in Nat \ {0} /\ n <= Assoc[c]
  BY LenProperties, ElementOfSeq, Parameters DEF SetOK
<1>2. k \in Seq(W) /\ l \in Nat /\ l <= n /\ l + 1 <= Assoc[c] /\ \A j \in 1..l : k[j] = ways[j]
  <2>1. CASE n < Assoc[c]
    <3>1. k = ways
      BY <2>1 DEF Kept
    <3> QED
      BY <3>1, <2>1, <1>1
  <2>2. CASE ~(n < Assoc[c])
    <3>1. k = SubSeq(ways, 1, n - 1)
      BY <2>2 DEF Kept, Front
    <3> HIDE DEF n
    <3>2. \A j \in 1..n-1 : ways[j] \in W
      BY <1>1
    <3>3. /\ SubSeq(ways, 1, n - 1) \in Seq(W)
          /\ Len(SubSeq(ways, 1, n - 1)) = (IF 1 <= n - 1 THEN (n - 1) - 1 + 1 ELSE 0)
          /\ \A j \in 1..(n-1)-1+1 : SubSeq(ways, 1, n - 1)[j] = ways[1 + j - 1]
      BY <3>2, <1>1, SubSeqProperties
    <3>4. n >= 1 /\ (n - 1) - 1 + 1 = n - 1 /\ \A j \in 1..n-1 : 1 + j - 1 = j
      BY <1>1, <2>2
    <3>5. l = n - 1
      BY <3>1, <3>3, <3>4, <1>1
    <3> HIDE DEF l, k
    <3> QED
      BY <3>1, <3>3, <3>4, <3>5, <1>1
  <2> QED
    BY <2>1, <2>2
<1> HIDE DEF n, k, l, W
<1>3. /\ r \in Seq(W) /\ Len(r) = l + 1 /\ r[1] = way
      /\ \A j \in 2..l+1 : r[j] = ways[j - 1] /\ j - 1 \in 1..n
  <2>1. /\ r \in Seq(W) /\ Len(r) = l + 1 /\ r[1] = way
        /\ \A j \in 2..l+1 : r[j] = k[j - 1]
    BY <1>2, Prefixed DEF W, l
  <2>2. \A j \in 2..l+1 : j - 1 \in 1..l /\ j - 1 \in 1..n
    BY <1>1, <1>2
  <2> QED
    BY <2>1, <2>2, <1>2
<1>4. /\ DOMAIN r = 1..l+1 /\ \A j \in 1..l+1 : j = 1 \/ j \in 2..l+1
  <2>1. DOMAIN r = 1..Len(r)
    BY <1>3, LenProperties
  <2> QED
    BY <2>1, <1>2, <1>3
<1>5. /\ \A j \in 1..n : SetOf(c, ways[j].line) = x /\ ways[j].line # way.line
      /\ \A j, m \in 1..n : ways[j].line = ways[m].line => j = m
  BY <1>1 DEF SetOK, Place
<1> HIDE DEF r
<1>6. \A j \in 2..l+1 : r[j].line # way.line /\ SetOf(c, r[j].line) = x
  BY <1>3, <1>5
<1>7. \A j, m \in 1..l+1 : r[j].line = r[m].line => j = m
  <2>1. \A j, m \in 2..l+1 : j - 1 = m - 1 => j = m
    BY <1>2
  <2>2. \A j, m \in 2..l+1 : r[j].line = r[m].line => j = m
    BY <2>1, <1>3, <1>5
  <2> QED
    BY <2>2, <1>3, <1>4, <1>6
<1>8. SetOK(c, x, r)
  <2>1. \A j \in 1..l+1 : SetOf(c, r[j].line) = x
    BY <1>3, <1>4, <1>6
  <2> QED
    BY <2>1, <1>2, <1>3, <1>4, <1>7 DEF SetOK
<1>9. Fronted(W, ways, way, r)
  <2>1. \A j \in 1..l+1 : r[j] = way \/ (r[j].line # way.line /\ \E m \in DOMAIN ways : r[j] = ways[m])
    BY <1>1, <1>3, <1>4, <1>6
  <2>2. Len(r) >= 1
    BY <1>2, <1>3
  <2> QED
    BY <2>1, <2>2, <1>3, <1>4 DEF Fronted
<1> QED
  BY <1>8, <1>9 DEF r, W, k

-----------------------------------------------------------------------------
(* One cache changes in one set.                                           *)

\* What CacheStates says of a cache, and back.
LEMMA StateIs ==
  ASSUME NEW c \in Caches, NEW k \in CacheStates(c)
  PROVE  /\ k = [sets |-> k.sets, mhsr |-> k.mhsr, ports |-> k.ports, arrives |-> k.arrives]
         /\ k.sets \in [SetsOf(c) -> Seq(WaysIn(c))] /\ k.mhsr \in [1..NumMHSR[c] -> Registers]
         /\ k.ports \in [1..NumPorts[c] -> Nat] /\ k.arrives \in [Lines -> Nat]
         /\ \A x \in SetsOf(c) : k.sets[x] \in Seq(WaysIn(c))
         /\ \A i \in 1..NumMHSR[c] :
              k.mhsr[i] \in Registers /\ k.mhsr[i].resolved \in Nat /\ k.mhsr[i].busy \in BOOLEAN
BY DEF CacheStates, Registers

\* A set's ways.
LEMMA WayIs ==
  ASSUME NEW c \in Caches, NEW now, NEW k, CacheOK(c, k, now),
         NEW x \in SetsOf(c), NEW j \in DOMAIN k.sets[x]
  PROVE  /\ k.sets[x][j] \in WaysIn(c) /\ SetOf(c, k.sets[x][j].line) = x
         /\ k.sets[x][j].line \in Lines /\ k.sets[x][j].mhsr \in {None} \cup 1..NumMHSR[c]
         /\ WayOK(c, k, k.sets[x][j], now)
<1>1. k.sets[x] \in Seq(WaysIn(c)) /\ SetOK(c, x, k.sets[x])
  BY StateIs DEF CacheOK
<1>2. k.sets[x][j] \in WaysIn(c)
  <2>1. DOMAIN k.sets[x] = 1..Len(k.sets[x])
    BY <1>1, LenProperties
  <2> QED
    BY <2>1, <1>1, ElementOfSeq
<1> QED
  BY <1>1, <1>2 DEF CacheOK, SetOK, WaysIn

\* A line, and so a register, is named by one way only.
LEMMA Unique ==
  ASSUME NEW c \in Caches, NEW now, NEW k, CacheOK(c, k, now),
         NEW x \in SetsOf(c), NEW j \in DOMAIN k.sets[x],
         NEW y \in SetsOf(c), NEW m \in DOMAIN k.sets[y],
         \/ k.sets[x][j].line = k.sets[y][m].line
         \/ k.sets[x][j].mhsr # None /\ k.sets[x][j].mhsr = k.sets[y][m].mhsr
  PROVE  k.sets[x][j] = k.sets[y][m]
<1>1. k.sets[x][j].line = k.sets[y][m].line
  <2>1. CASE k.sets[x][j].mhsr # None /\ k.sets[x][j].mhsr = k.sets[y][m].mhsr
    <3>1. WayOK(c, k, k.sets[x][j], now) /\ WayOK(c, k, k.sets[y][m], now)
      BY DEF CacheOK
    <3>2. /\ k.mhsr[k.sets[x][j].mhsr].line = k.sets[x][j].line
          /\ k.mhsr[k.sets[y][m].mhsr].line = k.sets[y][m].line
      BY <2>1, <3>1 DEF WayOK
    <3> QED
      BY <2>1, <3>2
  <2> QED
    BY <2>1
<1>2. x = y
  BY <1>1, WayIs
<1>3. SetOK(c, x, k.sets[x])
  BY DEF CacheOK
<1> QED
  BY <1>1, <1>2, <1>3 DEF SetOK

\* The cache k becomes n, where way is at the front of its set.
Moved(c, k, n, way) ==
  LET x == SetOf(c, way.line)
  IN /\ x \in SetsOf(c) /\ n.sets = [k.sets EXCEPT ![x] = n.sets[x]]
     /\ SetOK(c, x, n.sets[x]) /\ Fronted(WaysIn(c), k.sets[x], way, n.sets[x])

LEMMA NoNewWays ==
  ASSUME NEW c \in Caches, NEW now, NEW k, CacheOK(c, k, now), NEW n, NEW way,
         Moved(c, k, n, way), NEW y \in SetsOf(c), NEW j \in DOMAIN n.sets[y]
  PROVE  \/ n.sets[y][j] = way
         \/ \E m \in DOMAIN k.sets[y] :
              n.sets[y][j] = k.sets[y][m] /\ k.sets[y][m].line # way.line
<1> DEFINE x == SetOf(c, way.line)
<1>1. k.sets \in [SetsOf(c) -> Seq(WaysIn(c))]
  BY StateIs DEF CacheOK
<1>2. /\ x \in SetsOf(c) /\ n.sets = [k.sets EXCEPT ![x] = n.sets[x]]
      /\ Fronted(WaysIn(c), k.sets[x], way, n.sets[x])
  BY DEF Moved
<1>3. CASE y = x
  BY <1>2, <1>3 DEF Fronted
<1>4. CASE y # x
  <2> HIDE DEF x
  <2>1. n.sets[y] = k.sets[y]
    BY <1>1, <1>2, <1>4
  <2>2. SetOf(c, k.sets[y][j].line) = y
    BY <2>1, WayIs
  <2> QED
    BY <2>1, <2>2, <1>4 DEF x
<1> QED
  BY <1>3, <1>4

LEMMA Change ==
  ASSUME NEW c \in Caches, NEW now, NEW k, CacheOK(c, k, now), NEW n \in CacheStates(c),
         NEW way, Moved(c, k, n, way), WayOK(c, n, way, now),
         \A y \in SetsOf(c) : \A m \in DOMAIN k.sets[y] :
            k.sets[y][m].line # way.line => WayOK(c, n, k.sets[y][m], now)
  PROVE  CacheOK(c, n, now)
<1> DEFINE x == SetOf(c, way.line)
<1>1. k.sets \in [SetsOf(c) -> Seq(WaysIn(c))]
  BY StateIs DEF CacheOK
<1>2. /\ x \in SetsOf(c) /\ n.sets = [k.sets EXCEPT ![x] = n.sets[x]]
      /\ SetOK(c, x, n.sets[x])
  BY DEF Moved
<1> HIDE DEF x
<1>3. \A y \in SetsOf(c) : SetOK(c, y, n.sets[y])
  <2> TAKE y \in SetsOf(c)
  <2>1. y # x => n.sets[y] = k.sets[y]
    BY <1>1, <1>2
  <2> QED
    BY <2>1, <1>2 DEF CacheOK
<1>4. ASSUME NEW y \in SetsOf(c), NEW j \in DOMAIN n.sets[y]
      PROVE  WayOK(c, n, n.sets[y][j], now)
  <2>1. \/ n.sets[y][j] = way
        \/ \E m \in DOMAIN k.sets[y] : n.sets[y][j] = k.sets[y][m] /\ k.sets[y][m].line # way.line
    BY <1>4, NoNewWays
  <2> QED
    BY <2>1
<1> QED
  BY <1>3, <1>4 DEF CacheOK

\* So no line comes in but the front's.
LEMMA NoNewLines ==
  ASSUME NEW c \in Caches, NEW now, NEW s, NEW f, CacheOK(c, s[c], now), NEW way,
         Moved(c, s[c], f[c], way), NEW line \in Lines, Hits(f, c, line)
  PROVE  line = way.line \/ Hits(s, c, line)
<1> DEFINE y == SetOf(c, line)
           k == s[c]
           n == f[c]
<1>1. y \in SetsOf(c)
  BY SetOfType
<1>2. PICK j \in DOMAIN n.sets[y] : n.sets[y][j].line = line
  BY DEF Hits, WaysFor, Place
<1>3. \/ n.sets[y][j] = way
      \/ \E m \in DOMAIN k.sets[y] : n.sets[y][j] = k.sets[y][m]
  <2>1. Moved(c, k, n, way) /\ CacheOK(c, k, now)
    OBVIOUS
  <2> HIDE DEF y, k, n
  <2> QED
    BY <2>1, <1>1, NoNewWays
<1> QED
  BY <1>2, <1>3 DEF Hits, WaysFor, Place

\* WayOK looks at the registers and the arrivals.
LEMMA Same ==
  ASSUME NEW c \in Caches, NEW now, NEW k, NEW n, NEW way, WayOK(c, k, way, now),
         n.mhsr = k.mhsr, n.arrives = k.arrives
  PROVE  WayOK(c, n, way, now)
BY DEF WayOK

-----------------------------------------------------------------------------
(* A register is freed; an access hits.                                    *)

LEMMA MovedHits ==
  ASSUME NEW c \in Caches, NEW k, NEW f, NEW way, Moved(c, k, f[c], way)
  PROVE  Hits(f, c, way.line)
<1> DEFINE ways == f[c].sets[SetOf(c, way.line)]
<1>1. ways \in Seq(WaysIn(c)) /\ Len(ways) >= 1 /\ ways[1] = way
  BY DEF Moved, Fronted
<1>2. 1 \in DOMAIN ways
  <2> HIDE DEF ways
  <2> QED
    BY <1>1, LenProperties
<1> QED
  BY <1>1, <1>2 DEF Hits, WaysFor, Place

\* f is s but for the cache c.
Only(c, s, f) == AllCaches(f) /\ \A d \in Caches : d # c => f[d] = s[d]

LEMMA FrontIs ==
  ASSUME NEW c \in Caches, NEW s, AllCaches(s), s[c] \in CacheStates(c),
         \A x \in SetsOf(c) : SetOK(c, x, s[c].sets[x]),
         NEW way \in WaysIn(c), Hits(s, c, way.line)
  PROVE  LET f == WithFront(s, c, way)
         IN /\ Only(c, s, f) /\ f[c] \in CacheStates(c) /\ Moved(c, s[c], f[c], way)
            /\ f[c].mhsr = s[c].mhsr /\ f[c].ports = s[c].ports /\ f[c].arrives = s[c].arrives
<1> DEFINE k == s[c]
           f == WithFront(s, c, way)
           x == SetOf(c, way.line)
           r == ToFront(k.sets[x], way)
           n == f[c]
<1>1. x \in SetsOf(c) /\ k.sets[x] \in Seq(WaysIn(c)) /\ SetOK(c, x, k.sets[x])
      /\ Place(k.sets[x], way.line) # {}
  BY SetOfType, StateIs DEF WaysIn, Hits, WaysFor
<1>2. SetOK(c, x, r) /\ Fronted(WaysIn(c), k.sets[x], way, r)
  BY <1>1, ToFrontIs
<1>3. f = [s EXCEPT ![c] = [s[c] EXCEPT !.sets = [s[c].sets EXCEPT ![x] = r]]]
  BY DEF WithFront
<1> HIDE DEF x, r, f
<1>4. Only(c, s, f) /\ n = [k EXCEPT !.sets = [k.sets EXCEPT ![x] = r]]
  BY <1>3 DEF Only, AllCaches
<1>5. r \in Seq(WaysIn(c))
  BY <1>2 DEF Fronted
<1>6. [k.sets EXCEPT ![x] = r] \in [SetsOf(c) -> Seq(WaysIn(c))]
  BY <1>1, <1>5, StateIs
<1> HIDE DEF k, n
<1>7. n \in CacheStates(c) /\ n.sets = [k.sets EXCEPT ![x] = r]
      /\ n.mhsr = k.mhsr /\ n.ports = k.ports /\ n.arrives = k.arrives
  BY <1>4, <1>6 DEF CacheStates, k
<1>8. k.sets \in [SetsOf(c) -> Seq(WaysIn(c))]
  BY StateIs DEF k
<1>9. n.sets[x] = r
  BY <1>1, <1>7, <1>8
<1>10. Moved(c, k, n, way)
  BY <1>1, <1>2, <1>7, <1>9 DEF Moved, x
<1> QED
  BY <1>4, <1>7, <1>10 DEF k, n, f

LEMMA WayOfIs ==
  ASSUME NEW c \in Caches, NEW s, NEW now, CacheOK(c, s[c], now), NEW line \in Lines, Hits(s, c, line)
  PROVE  /\ WayOf(s, c, line) \in WaysIn(c) /\ WayOf(s, c, line).line = line
         /\ WayOK(c, s[c], WayOf(s, c, line), now)
         /\ \E j \in DOMAIN s[c].sets[SetOf(c, line)] :
              WayOf(s, c, line) = s[c].sets[SetOf(c, line)][j]
<1> DEFINE x == SetOf(c, line)
           j == PlaceOf(s[c].sets[x], line)
<1>1. x \in SetsOf(c) /\ Place(s[c].sets[x], line) # {}
  BY SetOfType DEF Hits, WaysFor
<1>2. j \in DOMAIN s[c].sets[x] /\ s[c].sets[x][j].line = line
  BY <1>1, PlaceOfIs
<1>3. WayOf(s, c, line) = s[c].sets[x][j]
  BY DEF WayOf, WaysFor
<1> HIDE DEF x, j
<1>4. s[c].sets[x][j] \in WaysIn(c) /\ WayOK(c, s[c], s[c].sets[x][j], now)
  BY <1>1, <1>2, WayIs
<1> QED
  BY <1>2, <1>3, <1>4 DEF x

\* What holds of the ways while nothing but their order, the dirty bits and
\* the register i, which none of them names, differ.
LEMMA Untouched ==
  ASSUME NEW c \in Caches, NEW now, NEW k \in CacheStates(c), NEW n, NEW i,
         NEW way \in WaysIn(c), WayOK(c, k, way, now), way.mhsr # i,
         NEW m, n.mhsr = [k.mhsr EXCEPT ![i] = m], n.arrives = k.arrives
  PROVE  WayOK(c, n, way, now)
<1>1. way.mhsr # None => n.mhsr[way.mhsr] = k.mhsr[way.mhsr]
  BY StateIs DEF WaysIn
<1> QED
  BY <1>1 DEF WayOK

\* FindFreeMHSR() frees the register i.
Frees(c, s, f, i, now) ==
  /\ Only(c, s, f) /\ CacheOK(c, f[c], now)
  /\ f[c].mhsr = [s[c].mhsr EXCEPT ![i] = FreeMHSR]
  /\ \A x \in SetsOf(c) : \A j \in DOMAIN f[c].sets[x] : f[c].sets[x][j].mhsr # i
  /\ \A line \in Lines : Hits(f, c, line) => Hits(s, c, line)

LEMMA FreedIs ==
  ASSUME NEW c \in Caches, NEW now \in Nat, NEW t \in Nat, NEW s, AllCaches(s),
         CacheOK(c, s[c], now), NEW i \in Usable(s, c, t), c \in L1s => t = now
  PROVE  Frees(c, s, Freed(s, c, i), i, now)
<1> DEFINE k == s[c]
           m == k.mhsr[i]
           u == [s EXCEPT ![c] = [k EXCEPT !.mhsr = [k.mhsr EXCEPT ![i] = FreeMHSR]]]
<1>1. i \in 1..NumMHSR[c] /\ (~m.busy \/ m.resolved < t) /\ k \in CacheStates(c) /\ i # None
      /\ m \in Registers
  BY Parameters, StateIs DEF Usable, CacheOK
<1>2. FreeMHSR \in Registers
  BY DEF FreeMHSR, Registers
<1>3. /\ Only(c, s, u) /\ u[c].sets = k.sets /\ u[c].ports = k.ports /\ u[c].arrives = k.arrives
      /\ u[c].mhsr = [k.mhsr EXCEPT ![i] = FreeMHSR] /\ u[c] \in CacheStates(c)
  <2>1. Only(c, s, u) /\ u[c] = [k EXCEPT !.mhsr = [k.mhsr EXCEPT ![i] = FreeMHSR]]
    BY DEF Only, AllCaches
  <2>2. [k.mhsr EXCEPT ![i] = FreeMHSR] \in [1..NumMHSR[c] -> Registers]
    BY <1>1, <1>2, StateIs
  <2> HIDE DEF u, k
  <2> QED
    BY <2>1, <2>2, <1>1 DEF CacheStates
<1>4. Freed(s, c, i) = IF m.busy /\ Hits(s, c, m.line)
                       THEN WithFront(u, c, FreedWay(WayOf(s, c, m.line), i)) ELSE u
  BY DEF Freed
<1>5. ASSUME NEW x \in SetsOf(c), NEW j \in DOMAIN k.sets[x]
      PROVE  /\ k.sets[x][j].mhsr = i => m.busy /\ k.sets[x][j].line = m.line
             /\ k.sets[x][j].mhsr # i => WayOK(c, u[c], k.sets[x][j], now)
  <2>1. k.sets[x][j] \in WaysIn(c) /\ WayOK(c, k, k.sets[x][j], now)
    BY <1>5, WayIs
  <2>2. k.sets[x][j].mhsr = i => m.busy /\ k.sets[x][j].line = m.line
    BY <1>1, <2>1 DEF WayOK
  <2> DEFINE w == k.sets[x][j]
             n == u[c]
  <2>3. /\ n.mhsr = [k.mhsr EXCEPT ![i] = FreeMHSR] /\ n.arrives = k.arrives
        /\ k \in CacheStates(c) /\ w \in WaysIn(c) /\ WayOK(c, k, w, now)
    BY <1>1, <1>3, <2>1
  <2> HIDE DEF k, u, m, w, n
  <2>4. w.mhsr # i => WayOK(c, n, w, now)
    BY <2>3, Untouched
  <2> QED
    BY <2>2, <2>4 DEF w, n
<1>6. CASE ~(m.busy /\ Hits(s, c, m.line))
  <2>1. Freed(s, c, i) = u
    BY <1>4, <1>6
  <2>2. ASSUME NEW x \in SetsOf(c), NEW j \in DOMAIN k.sets[x]
        PROVE  k.sets[x][j].mhsr # i
    <3>1. SUFFICES ASSUME k.sets[x][j].mhsr = i PROVE FALSE
      OBVIOUS
    <3>2. m.busy /\ k.sets[x][j].line = m.line
      BY <3>1, <1>5
    <3>3. SetOf(c, m.line) = x
      BY <3>2, WayIs
    <3> QED
      BY <3>2, <3>3, <1>6 DEF Hits, WaysFor, Place
  <2>3. CacheOK(c, u[c], now)
    BY <1>3, <1>5, <2>2 DEF CacheOK
  <2>4. \A line \in Lines : Hits(u, c, line) => Hits(s, c, line)
    BY <1>3 DEF Hits, WaysFor
  <2> HIDE DEF u, k
  <2>5. \A x \in SetsOf(c) : \A j \in DOMAIN u[c].sets[x] : u[c].sets[x][j].mhsr # i
    BY <1>3, <2>2
  <2>6. Frees(c, s, u, i, now)
    BY <1>3, <2>3, <2>4, <2>5 DEF Frees, k
  <2> QED
    BY <2>1, <2>6
<1>7. CASE m.busy /\ Hits(s, c, m.line)
  <2> DEFINE old == WayOf(s, c, m.line)
             way == FreedWay(old, i)
             f == WithFront(u, c, way)
  <2>1. m.line \in Lines
    <3> DEFINE x == SetOf(c, m.line)
    <3>1. PICK j \in DOMAIN k.sets[x] : k.sets[x][j].line = m.line
      BY <1>7 DEF Hits, WaysFor, Place
    <3>2. x \in SetsOf(c)
      BY <1>1, SetOfType DEF Registers
    <3>3. CacheOK(c, k, now)
      OBVIOUS
    <3> DEFINE l == m.line
    <3> HIDE DEF x, k, l
    <3>4. k.sets[x][j].line \in Lines
      BY <3>1, <3>2, <3>3, WayIs
    <3> QED
      BY <3>1, <3>4 DEF l
  <2>2. /\ old \in WaysIn(c) /\ old.line = m.line /\ WayOK(c, k, old, now)
        /\ way.line = m.line /\ way.mhsr # i /\ way \in WaysIn(c)
        /\ IF old.mhsr = i THEN way = [old EXCEPT !.mhsr = None] ELSE way = old
    <3>1. /\ old \in WaysIn(c) /\ old.line = m.line /\ WayOK(c, k, old, now)
      BY <2>1, <1>7, WayOfIs
    <3> HIDE DEF old
    <3> QED
      BY <3>1, <1>1 DEF FreedWay, WaysIn
  <2>3. Hits(u, c, way.line)
    <3>1. WaysFor(u, c, m.line) = WaysFor(s, c, m.line)
      BY <1>3 DEF WaysFor
    <3> HIDE DEF u, way, k, m
    <3> QED
      BY <3>1, <2>2, <1>7 DEF Hits
  <2>4. /\ Only(c, u, f) /\ f[c] \in CacheStates(c) /\ Moved(c, u[c], f[c], way)
        /\ f[c].mhsr = u[c].mhsr /\ f[c].ports = u[c].ports /\ f[c].arrives = u[c].arrives
    <3>1. AllCaches(u) /\ u[c].sets = k.sets /\ \A y \in SetsOf(c) : SetOK(c, y, u[c].sets[y])
      BY <1>3 DEF Only, CacheOK
    <3> HIDE DEF u, way, k, m
    <3> QED
      BY <3>1, <2>2, <2>3, <1>3, FrontIs
  <2> HIDE DEF u, way, f, old
  <2>5. /\ Moved(c, k, f[c], way) /\ f[c].mhsr = [k.mhsr EXCEPT ![i] = FreeMHSR]
        /\ f[c].ports = k.ports /\ f[c].arrives = k.arrives
    BY <2>4, <1>3 DEF Moved
  <2>6. WayOK(c, f[c], way, now)
    <3>1. CASE old.mhsr = i
      <4>1. m = [busy |-> TRUE, resolved |-> k.arrives[m.line], line |-> m.line]
        BY <2>2, <3>1, <1>1 DEF WayOK
      <4>2. c \in L1s => k.arrives[m.line] <= now
        BY <4>1, <1>1 DEF Registers
      <4>3. way.mhsr = None
        BY <2>2, <3>1 DEF WaysIn
      <4> HIDE DEF m, k
      <4> QED
        BY <4>2, <4>3, <2>2, <2>5 DEF WayOK
    <3>2. CASE old.mhsr # i
      <4> HIDE DEF m, k
      <4>1. WayOK(c, k, old, now) /\ way = old /\ old \in WaysIn(c) /\ k \in CacheStates(c)
        BY <2>2, <3>2, <1>1
      <4> DEFINE n == f[c]
      <4>2. n.mhsr = [k.mhsr EXCEPT ![i] = FreeMHSR] /\ n.arrives = k.arrives
        BY <2>5
      <4> HIDE DEF n
      <4>3. WayOK(c, n, old, now)
        BY <4>1, <4>2, <3>2, Untouched
      <4> QED
        BY <4>1, <4>3 DEF n
    <3> QED
      BY <3>1, <3>2
  <2>7. ASSUME NEW y \in SetsOf(c), NEW j \in DOMAIN k.sets[y], k.sets[y][j].line # way.line
        PROVE  WayOK(c, f[c], k.sets[y][j], now) /\ k.sets[y][j].mhsr # i
    <3>1. k.sets[y][j].mhsr # i /\ WayOK(c, u[c], k.sets[y][j], now)
      BY <2>2, <2>7, <1>5
    <3> HIDE DEF m, k
    <3> QED
      BY <3>1, <2>5, <1>3, Same
  <2>8. CacheOK(c, f[c], now)
    <3>1. CacheOK(c, k, now)
      OBVIOUS
    <3> HIDE DEF m, k
    <3> QED
      BY <3>1, <2>4, <2>5, <2>6, <2>7, Change
  <2>9. \A y \in SetsOf(c) : \A j \in DOMAIN f[c].sets[y] : f[c].sets[y][j].mhsr # i
    <3> TAKE y \in SetsOf(c)
    <3> TAKE j \in DOMAIN f[c].sets[y]
    <3>1. CacheOK(c, k, now)
      OBVIOUS
    <3>2. \/ f[c].sets[y][j] = way
          \/ \E b \in DOMAIN k.sets[y] : f[c].sets[y][j] = k.sets[y][b] /\ k.sets[y][b].line # way.line
      <4> HIDE DEF m, k
      <4> QED
        BY <3>1, <2>5, NoNewWays
    <3> QED
      BY <3>2, <2>2, <2>7
  <2>10. \A line \in Lines : Hits(f, c, line) => Hits(s, c, line)
    <3> TAKE line \in Lines
    <3>2. Hits(f, c, line) => line = way.line \/ Hits(s, c, line)
      BY <2>5, NoNewLines
    <3> QED
      BY <3>2, <2>2, <1>7
  <2>11. Freed(s, c, i) = f
    BY <1>4, <1>7 DEF f, way, old
  <2>12. Only(c, s, f)
    BY <2>4, <1>3 DEF Only
  <2>13. Frees(c, s, f, i, now)
    BY <2>5, <2>8, <2>9, <2>10, <2>12 DEF Frees
  <2> QED
    BY <2>11, <2>13
<1> QED
  BY <1>6, <1>7

\* Access() of a line that is there frees at most the register of that line,
\* and only when its time has passed.
HitAnswers(c, s, a, t, line, now) ==
  /\ Only(c, s, a.s) /\ CacheOK(c, a.s[c], now) /\ Hits(a.s, c, line)
  /\ a.time \in Nat /\ a.time > t /\ a.ok = TRUE
  /\ \A i \in 1..NumMHSR[c] : \/ a.s[c].mhsr[i] = s[c].mhsr[i]
                              \/ a.s[c].mhsr[i] = FreeMHSR /\ s[c].mhsr[i].resolved <= t

LEMMA HitIs ==
  ASSUME NEW c \in Caches, NEW now \in Nat, NEW t \in Nat, NEW s, AllCaches(s),
         CacheOK(c, s[c], now), c \in L1s => t = now,
         NEW line \in Lines, NEW isStore \in BOOLEAN, Hits(s, c, line)
  PROVE  HitAnswers(c, s, AccessHit(s, c, t, line, isStore), t, line, now)
<1> DEFINE k == s[c]
           old == WayOf(s, c, line)
           way == [old EXCEPT !.dirty = @ \/ isStore]
           arrived == [way EXCEPT !.mhsr = None]
           f == WithFront(s, c, way)
           g == WithFront(s, c, arrived)
           i == way.mhsr
           h == [g EXCEPT ![c] = [g[c] EXCEPT !.mhsr = [g[c].mhsr EXCEPT ![i] = FreeMHSR]]]
           a == AccessHit(s, c, t, line, isStore)
<1>1. /\ old \in WaysIn(c) /\ old.line = line /\ WayOK(c, k, old, now)
  BY WayOfIs
<1>2. /\ way \in WaysIn(c) /\ way.line = line /\ way.mhsr = old.mhsr /\ arrived \in WaysIn(c)
      /\ arrived.line = line /\ arrived.mhsr = None
  <2> DEFINE d == old.dirty \/ isStore
  <2>1. d \in BOOLEAN
    OBVIOUS
  <2>2. way = [old EXCEPT !.dirty = d]
    OBVIOUS
  <2> HIDE DEF old, d
  <2>3. [old EXCEPT !.dirty = d] \in WaysIn(c)
    BY <1>1, <2>1 DEF WaysIn
  <2>4. [old EXCEPT !.dirty = d].line = line /\ [old EXCEPT !.dirty = d].mhsr = old.mhsr
    BY <1>1 DEF WaysIn
  <2> HIDE DEF way
  <2>5. way \in WaysIn(c) /\ way.line = line /\ way.mhsr = old.mhsr
    BY <2>2, <2>3, <2>4
  <2> QED
    BY <2>5 DEF WaysIn
<1>3. WayOK(c, k, way, now)
  BY <1>1, <1>2 DEF WayOK
<1>4. /\ k \in CacheStates(c) /\ \A x \in SetsOf(c) : SetOK(c, x, k.sets[x])
      /\ HitLatency[c] \in Nat \ {0}
  BY Parameters DEF CacheOK
<1>5. a = IF i = None THEN Answer(f, t + HitLatency[c], TRUE)
          ELSE IF k.mhsr[i].resolved <= t THEN Answer(h, t + HitLatency[c], TRUE)
          ELSE Answer(f, AfterHit(c, t, k.mhsr[i].resolved) + HitLatency[c], TRUE)
  BY DEF AccessHit
<1> HIDE DEF a
<1>6. i # None => i \in 1..NumMHSR[c] /\ k.mhsr[i].resolved \in Nat
  BY <1>2, <1>4, StateIs DEF WaysIn
<1>7. CASE i = None \/ ~(k.mhsr[i].resolved <= t)
  <2>1. /\ Only(c, s, f) /\ f[c] \in CacheStates(c) /\ Moved(c, k, f[c], way)
        /\ f[c].mhsr = k.mhsr /\ f[c].arrives = k.arrives
    <3> HIDE DEF way
    <3> QED
      BY <1>2, <1>4, FrontIs
  <2>2. a.s = f /\ a.ok = TRUE /\ a.time \in Nat /\ a.time > t
    <3> HIDE DEF f, way, k
    <3>1. CASE i = None
      BY <3>1, <1>4, <1>5 DEF Answer
    <3>2. CASE i # None
      <4>a. a = Answer(f, AfterHit(c, t, k.mhsr[i].resolved) + HitLatency[c], TRUE)
        BY <1>5, <1>7, <3>2
      <4>1. k.mhsr[i].resolved \in Nat /\ k.mhsr[i].resolved >= t
        <5> HIDE DEF i
        <5> QED
          BY <1>6, <1>7, <3>2
      <4>2. /\ AfterHit(c, t, k.mhsr[i].resolved) \in Nat /\ AfterHit(c, t, k.mhsr[i].resolved) > t
        BY <4>1, AfterHitIs
      <4> DEFINE later == AfterHit(c, t, k.mhsr[i].resolved)
      <4>3. later \in Nat /\ later > t /\ a = Answer(f, later + HitLatency[c], TRUE)
        BY <4>a, <4>2
      <4> HIDE DEF later
      <4> QED
        BY <4>3, <1>4 DEF Answer
    <3> QED
      BY <3>1, <3>2
  <2>3. WayOK(c, f[c], way, now)
    BY <2>1, <1>3, Same
  <2>4. ASSUME NEW y \in SetsOf(c), NEW m \in DOMAIN k.sets[y] PROVE WayOK(c, f[c], k.sets[y][m], now)
    BY <2>1, <2>4, WayIs, Same
  <2>5. CacheOK(c, k, now)
    OBVIOUS
  <2> HIDE DEF f, way, k
  <2>6. CacheOK(c, f[c], now)
    BY <2>1, <2>3, <2>4, <2>5, Change
  <2>7. Hits(f, c, line)
    BY <1>2, <2>1, MovedHits
  <2>8. HitAnswers(c, s, a, t, line, now)
    BY <2>1, <2>2, <2>6, <2>7 DEF HitAnswers, k
  <2> QED
    BY <2>8 DEF a
<1>8. CASE i # None /\ k.mhsr[i].resolved <= t
  <2>1. /\ Only(c, s, g) /\ g[c] \in CacheStates(c) /\ Moved(c, k, g[c], arrived)
        /\ g[c].mhsr = k.mhsr /\ g[c].arrives = k.arrives
    <3> HIDE DEF arrived
    <3> QED
      BY <1>2, <1>4, FrontIs
  <2> HIDE DEF g, arrived, way
  <2>2. /\ Only(c, s, h) /\ h[c] \in CacheStates(c) /\ h[c].sets = g[c].sets
        /\ h[c].mhsr = [k.mhsr EXCEPT ![i] = FreeMHSR] /\ h[c].arrives = k.arrives
    <3>1. Only(c, s, h) /\ h[c] = [g[c] EXCEPT !.mhsr = [g[c].mhsr EXCEPT ![i] = FreeMHSR]]
      BY <2>1 DEF Only, AllCaches
    <3>2. [g[c].mhsr EXCEPT ![i] = FreeMHSR] \in [1..NumMHSR[c] -> Registers]
      BY <2>1, StateIs DEF FreeMHSR, Registers
    <3> HIDE DEF h, k
    <3> QED
      BY <2>1, <3>1, <3>2 DEF CacheStates
  <2>3. a.s = h /\ a.ok = TRUE /\ a.time \in Nat /\ a.time > t
    <3> HIDE DEF h, k
    <3> QED
      BY <1>4, <1>5, <1>8 DEF Answer
  <2> HIDE DEF h
  <2>4. Moved(c, k, h[c], arrived)
    BY <2>1, <2>2 DEF Moved
  <2>5. WayOK(c, h[c], arrived, now)
    <3>1. k.mhsr[i] = [busy |-> TRUE, resolved |-> k.arrives[line], line |-> line]
      BY <1>2, <1>3, <1>8 DEF WayOK
    <3>2. c \in L1s => k.arrives[line] <= now
      BY <3>1, <1>8
    <3> HIDE DEF k
    <3> QED
      BY <3>2, <2>2, <1>2 DEF WayOK
  <2>6. ASSUME NEW y \in SetsOf(c), NEW m \in DOMAIN k.sets[y], k.sets[y][m].line # arrived.line
        PROVE  WayOK(c, h[c], k.sets[y][m], now)
    <3> DEFINE w == k.sets[y][m]
    <3>1. w \in WaysIn(c) /\ WayOK(c, k, w, now)
      BY <2>6, WayIs
    <3>2. w.mhsr # i
      BY <3>1, <2>6, <1>2, <1>3, <1>8 DEF WayOK
    <3> DEFINE n == h[c]
    <3>3. n.mhsr = [k.mhsr EXCEPT ![i] = FreeMHSR] /\ n.arrives = k.arrives
      BY <2>2
    <3> HIDE DEF w, k, i, n
    <3>4. WayOK(c, n, w, now)
      BY <3>1, <3>2, <3>3, <1>4, Untouched
    <3> QED
      BY <3>4 DEF w, n
  <2>7. CacheOK(c, k, now)
    OBVIOUS
  <2> HIDE DEF k
  <2>8. CacheOK(c, h[c], now)
    BY <2>2, <2>4, <2>5, <2>6, <2>7, Change
  <2>9. Hits(h, c, line)
    BY <1>2, <2>4, MovedHits
  <2>10. \A j \in 1..NumMHSR[c] : \/ h[c].mhsr[j] = k.mhsr[j]
                                  \/ h[c].mhsr[j] = FreeMHSR /\ k.mhsr[j].resolved <= t
    BY <2>2, <1>4, <1>8, StateIs
  <2>11. HitAnswers(c, s, a, t, line, now)
    BY <2>2, <2>3, <2>8, <2>9, <2>10 DEF HitAnswers, k
  <2> QED
    BY <2>11 DEF a
<1> QED
  BY <1>7, <1>8

-----------------------------------------------------------------------------
(* An access misses.                                                       *)

LEMMA FillStartIs ==
  ASSUME NEW c \in Caches, NEW now, NEW s, CacheOK(c, s[c], now), NEW t \in Nat,
         NEW x \in SetsOf(c), NEW port \in 1..NumPorts[c]
  PROVE  /\ FillStart(s, c, t, s[c].sets[x], port) \in Nat
         /\ FillStart(s, c, t, s[c].sets[x], port) > t
<1> DEFINE ways == s[c].sets[x]
           free == Max({s[c].ports[port], t})
           loading == {v \in Victim(ways, c) : v.mhsr # None}
           R == {s[c].mhsr[v.mhsr].resolved : v \in loading}
<1>1. /\ s[c] \in CacheStates(c) /\ ways \in Seq(WaysIn(c)) /\ s[c].ports[port] \in Nat
      /\ Assoc[c] \in Nat \ {0}
  BY StateIs, Parameters DEF CacheOK
<1>2. free \in Nat /\ free >= t
  <2>1. Max({t} \cup {s[c].ports[port]}) \in Nat /\ Max({t} \cup {s[c].ports[port]}) >= t
    BY <1>1, MaxOfTwo
  <2>2. {t} \cup {s[c].ports[port]} = {s[c].ports[port], t}
    OBVIOUS
  <2> QED
    BY <2>1, <2>2
<1>3. AfterHit(c, t, free) \in Nat /\ AfterHit(c, t, free) > t
  BY <1>2, AfterHitIs
<1>4. R = {} \/ \E r \in Nat : R = {r}
  <2>1. CASE Victim(ways, c) = {}
    BY <2>1
  <2>2. CASE Victim(ways, c) # {}
    <3> DEFINE v == Last(ways)
    <3>1. Victim(ways, c) = {v} /\ ~(Len(ways) < Assoc[c])
      BY <2>2 DEF Victim
    <3>2. v \in WaysIn(c)
      <4> HIDE DEF ways
      <4>1. Len(ways) \in Nat /\ Len(ways) \in 1..Len(ways)
        BY <1>1, <3>1, LenProperties
      <4> QED
        BY <4>1, <1>1, ElementOfSeq DEF Last
    <3>3. v.mhsr # None => s[c].mhsr[v.mhsr].resolved \in Nat
      BY <1>1, <3>2, StateIs DEF WaysIn
    <3> HIDE DEF v, ways
    <3>4. loading = {} \/ (loading = {v} /\ v.mhsr # None)
      BY <3>1
    <3>5. R = {} \/ (R = {s[c].mhsr[v.mhsr].resolved} /\ v.mhsr # None)
      BY <3>4
    <3> QED
      BY <3>3, <3>5
  <2> QED
    BY <2>1, <2>2
<1>5. FillStart(s, c, t, ways, port) = Max({AfterHit(c, t, free)} \cup R)
  BY DEF FillStart
<1> HIDE DEF R, free, ways
<1>6. /\ Max({AfterHit(c, t, free)} \cup R) \in Nat
      /\ Max({AfterHit(c, t, free)} \cup R) >= AfterHit(c, t, free)
  BY <1>3, <1>4, MaxOfTwo
<1> QED
  BY <1>3, <1>5, <1>6 DEF ways

\* The cache k after a miss: the line is at the front of its set and on its
\* way until resolved, in the register i.
Filled(c, k, line, i, isStore, ports, resolved) ==
  [sets |-> [k.sets EXCEPT ![SetOf(c, line)] =
               <<[line |-> line, mhsr |-> i, dirty |-> isStore]>> \o Kept(k.sets[SetOf(c, line)], c)],
   mhsr |-> [k.mhsr EXCEPT ![i] = [busy |-> TRUE, resolved |-> resolved, line |-> line]],
   ports |-> ports,
   arrives |-> [k.arrives EXCEPT ![line] = resolved]]

LEMMA FilledIs ==
  ASSUME NEW c \in Caches, NEW now, NEW s, CacheOK(c, s[c], now), NEW line \in Lines,
         NEW i \in 1..NumMHSR[c], NEW isStore \in BOOLEAN, NEW ports \in [1..NumPorts[c] -> Nat],
         NEW resolved \in Nat, ~Hits(s, c, line),
         \A x \in SetsOf(c) : \A j \in DOMAIN s[c].sets[x] : s[c].sets[x][j].mhsr # i,
         NEW f, f[c] = Filled(c, s[c], line, i, isStore, ports, resolved)
  PROVE  CacheOK(c, f[c], now) /\ Hits(f, c, line)
<1> DEFINE k == s[c]
           n == f[c]
           x == SetOf(c, line)
           new == [line |-> line, mhsr |-> i, dirty |-> isStore]
           r == <<new>> \o Kept(k.sets[x], c)
<1>1. /\ k \in CacheStates(c) /\ x \in SetsOf(c) /\ k.sets[x] \in Seq(WaysIn(c))
      /\ SetOK(c, x, k.sets[x]) /\ Place(k.sets[x], line) = {} /\ new.line = line
  BY SetOfType, StateIs DEF CacheOK, Hits, WaysFor
<1>2. new \in WaysIn(c)
  BY DEF WaysIn
<1>3. SetOK(c, x, r) /\ Fronted(WaysIn(c), k.sets[x], new, r)
  BY <1>1, <1>2, ReplacedIs
<1> HIDE DEF new
<1>4. /\ n.sets = [k.sets EXCEPT ![x] = r] /\ n.ports = ports
      /\ n.mhsr = [k.mhsr EXCEPT ![i] = [busy |-> TRUE, resolved |-> resolved, line |-> line]]
      /\ n.arrives = [k.arrives EXCEPT ![line] = resolved]
      /\ n = [sets |-> n.sets, mhsr |-> n.mhsr, ports |-> n.ports, arrives |-> n.arrives]
  BY DEF Filled, new
<1> HIDE DEF n, r
<1>5. n \in CacheStates(c)
  <2>1. [k.sets EXCEPT ![x] = r] \in [SetsOf(c) -> Seq(WaysIn(c))]
    BY <1>1, <1>3, StateIs DEF Fronted
  <2>2. [k.mhsr EXCEPT ![i] = [busy |-> TRUE, resolved |-> resolved, line |-> line]]
          \in [1..NumMHSR[c] -> Registers]
    BY <1>1, StateIs DEF Registers
  <2>3. [k.arrives EXCEPT ![line] = resolved] \in [Lines -> Nat]
    BY <1>1, StateIs
  <2> HIDE DEF k, x
  <2> QED
    BY <2>1, <2>2, <2>3, <1>4 DEF CacheStates
<1>6. Moved(c, k, n, new)
  <2>1. n.sets[x] = r
    BY <1>1, <1>4, StateIs
  <2> QED
    BY <2>1, <1>1, <1>3, <1>4 DEF Moved
<1>7. WayOK(c, n, new, now)
  <2>1. n.mhsr[i] = [busy |-> TRUE, resolved |-> resolved, line |-> line] /\ n.arrives[line] = resolved
    <3>1. k.mhsr \in [1..NumMHSR[c] -> Registers] /\ k.arrives \in [Lines -> Nat]
      BY <1>1, StateIs
    <3> HIDE DEF k, x
    <3> QED
      BY <3>1, <1>4
  <2>2. i # None /\ new.mhsr = i
    BY Parameters DEF new
  <2> QED
    BY <2>1, <2>2, <1>1 DEF WayOK
<1>8. ASSUME NEW y \in SetsOf(c), NEW m \in DOMAIN k.sets[y], k.sets[y][m].line # new.line
      PROVE  WayOK(c, n, k.sets[y][m], now)
  <2> DEFINE w == k.sets[y][m]
  <2>1. w \in WaysIn(c) /\ WayOK(c, k, w, now) /\ w.mhsr # i /\ w.line # line
    BY <1>1, <1>8, WayIs
  <2> HIDE DEF w, k
  <2>2. n.arrives[w.line] = k.arrives[w.line] /\ (w.mhsr # None => n.mhsr[w.mhsr] = k.mhsr[w.mhsr])
    BY <2>1, <1>1, <1>4, StateIs DEF WaysIn
  <2>3. WayOK(c, n, w, now)
    BY <2>1, <2>2 DEF WayOK
  <2> QED
    BY <2>3 DEF w
<1>9. CacheOK(c, k, now)
  OBVIOUS
<1>10. Hits(f, c, line)
  BY <1>1, <1>6, MovedHits DEF n
<1> HIDE DEF k
<1>11. CacheOK(c, n, now)
  BY <1>5, <1>6, <1>7, <1>8, <1>9, Change
<1> QED
  BY <1>10, <1>11 DEF n

\* At most one register of a cache is taken, by a miss, and its line is there
\* before the access is answered.
TakesOne(c, k, n, miss, time) ==
  \E i0 \in 1..NumMHSR[c] : \A i \in 1..NumMHSR[c] :
    \/ n.mhsr[i] = k.mhsr[i]
    \/ ~n.mhsr[i].busy
    \/ miss /\ i = i0 /\ n.mhsr[i].resolved < time

\* What L2 answers to an access at t.
L2Answers(s, a, t, line, now) ==
  /\ Only("l2", s, a.s) /\ CacheOK("l2", a.s["l2"], now)
  /\ a.time \in Nat /\ a.time >= t
  /\ IF Refused(s, "l2", t, line) THEN a.ok = FALSE ELSE a.ok = TRUE /\ Hits(a.s, "l2", line)
  /\ TakesOne("l2", s["l2"], a.s["l2"], ~Hits(s, "l2", line), a.time)

LEMMA L2Misses ==
  ASSUME NEW now \in Nat, NEW t \in Nat, NEW s, AllCaches(s), CacheOK("l2", s["l2"], now),
         NEW line \in Lines, NEW isStore \in BOOLEAN,
         ~Hits(s, "l2", line), Usable(s, "l2", t) # {}
  PROVE  LET a == AccessMiss(s, "l2", t, line, isStore, Memory)
         IN /\ Only("l2", s, a.s) /\ CacheOK("l2", a.s["l2"], now) /\ Hits(a.s, "l2", line)
            /\ a.time \in Nat /\ a.time >= t /\ a.ok = TRUE
            /\ TakesOne("l2", s["l2"], a.s["l2"], TRUE, a.time)
<1> DEFINE c == "l2"
           i == FirstUsable(s, c, t)
           f == Freed(s, c, i)
           port == NextPort(f, c)
           x == SetOf(c, line)
           start == FillStart(f, c, t, f[c].sets[x], port)
           new == [line |-> line, mhsr |-> i, dirty |-> isStore]
           placed == [f EXCEPT ![c].sets[x] = <<new>> \o Kept(f[c].sets[x], c)]
           back == WriteBack(placed, c, start, f[c].sets[x], line, Memory)
           fill == Memory([back.s EXCEPT ![c].ports[port] = back.time + PortLatency[c]],
                          back.time, line, FALSE)
           done == [fill.s EXCEPT ![c].mhsr[i] = [busy |-> TRUE, resolved |-> fill.time, line |-> line],
                                  ![c].arrives[line] = fill.time]
           a == AccessMiss(s, c, t, line, isStore, Memory)
<1>1. a = Answer(done, fill.time + HitLatency[c], back.ok /\ fill.ok)
  BY DEF AccessMiss, WaysFor
<1>2. c \in Caches /\ c \notin L1s
  BY DEF Caches, L1s
<1>3. i \in Usable(s, c, t) /\ i \in 1..NumMHSR[c]
  <2>1. i \in Usable(s, c, t)
    BY <1>2, FirstUsableIs
  <2> QED
    BY <2>1 DEF Usable
<1> HIDE DEF i
<1>4. /\ Only(c, s, f) /\ CacheOK(c, f[c], now) /\ f[c].mhsr = [s[c].mhsr EXCEPT ![i] = FreeMHSR]
      /\ \A y \in SetsOf(c) : \A j \in DOMAIN f[c].sets[y] : f[c].sets[y][j].mhsr # i
      /\ ~Hits(f, c, line)
  <2>1. Frees(c, s, f, i, now)
    BY <1>2, <1>3, FreedIs
  <2> HIDE DEF f
  <2> QED
    BY <2>1 DEF Frees
<1> HIDE DEF f
<1>5. x \in SetsOf(c) /\ port \in 1..NumPorts[c] /\ f[c] \in CacheStates(c)
  BY <1>2, <1>4, SetOfType, NextPortIs, StateIs DEF CacheOK
<1> HIDE DEF port
<1>6. start \in Nat /\ start > t
  BY <1>2, <1>4, <1>5, FillStartIs
<1> HIDE DEF start
<1>7. back.s = placed /\ back.time \in Nat /\ back.time >= start /\ back.ok = TRUE
  BY <1>6, Parameters DEF WriteBack, Memory, Answer
<1> HIDE DEF back
<1> DEFINE ports == [f[c].ports EXCEPT ![port] = back.time + PortLatency[c]]
<1>8. /\ fill.s = [placed EXCEPT ![c].ports[port] = back.time + PortLatency[c]]
      /\ fill.time \in Nat /\ fill.time >= t /\ fill.ok = TRUE
  BY <1>6, <1>7, Parameters DEF Memory, Answer
<1> HIDE DEF fill
<1>9. Only(c, f, done) /\ done[c] = Filled(c, f[c], line, i, isStore, ports, fill.time)
  <2> DEFINE k == f[c]
             sets == [k.sets EXCEPT ![x] = <<new>> \o Kept(k.sets[x], c)]
             mhsr == [k.mhsr EXCEPT ![i] = [busy |-> TRUE, resolved |-> fill.time, line |-> line]]
             arrives == [k.arrives EXCEPT ![line] = fill.time]
  <2>1. AllCaches(f)
    BY <1>4 DEF Only
  <2>2. k = [sets |-> k.sets, mhsr |-> k.mhsr, ports |-> k.ports, arrives |-> k.arrives]
    BY <1>2, <1>5, StateIs
  <2>3. placed = [f EXCEPT ![c] = [k EXCEPT !.sets = sets]]
    OBVIOUS
  <2> HIDE DEF placed, sets, k
  <2>4. Only(c, f, placed) /\ placed[c] = [k EXCEPT !.sets = sets]
    BY <2>1, <2>3, <1>2 DEF Only, AllCaches, k
  <2>5. fill.s = [placed EXCEPT ![c] = [placed[c] EXCEPT !.ports = [@ EXCEPT ![port] = back.time + PortLatency[c]]]]
    BY <1>8
  <2>6. Only(c, f, fill.s) /\ fill.s[c] = [k EXCEPT !.sets = sets, !.ports = ports]
    <3>1. placed[c].ports = k.ports
      BY <2>2, <2>4
    <3>2. fill.s = [placed EXCEPT ![c] = [placed[c] EXCEPT !.ports = ports]]
      BY <2>5, <3>1 DEF k
    <3> HIDE DEF ports
    <3> QED
      BY <3>2, <2>4, <1>2 DEF Only, AllCaches
  <2>7. fill.s[c].mhsr = k.mhsr /\ fill.s[c].arrives = k.arrives
    BY <2>2, <2>6
  <2>8. done = [fill.s EXCEPT ![c] = [fill.s[c] EXCEPT !.mhsr = mhsr, !.arrives = arrives]]
    BY <2>7
  <2> HIDE DEF done, mhsr, arrives, ports
  <2>9. Only(c, f, done) /\ done[c] = [fill.s[c] EXCEPT !.mhsr = mhsr, !.arrives = arrives]
    BY <2>6, <2>8, <1>2 DEF Only, AllCaches
  <2>10. done[c] = [sets |-> sets, mhsr |-> mhsr, ports |-> ports, arrives |-> arrives]
    BY <2>2, <2>6, <2>9
  <2> QED
    BY <2>9, <2>10 DEF Filled, sets, mhsr, arrives, k
<1>10. ports \in [1..NumPorts[c] -> Nat]
  <2>1. f[c].ports \in [1..NumPorts[c] -> Nat]
    BY <1>2, <1>5, StateIs
  <2>2. back.time + PortLatency[c] \in Nat
    BY <1>2, <1>7, Parameters
  <2> QED
    BY <2>1, <2>2, <1>5
<1> HIDE DEF ports, done, c
<1>11. CacheOK(c, done[c], now) /\ Hits(done, c, line)
  <2>1. /\ CacheOK(c, f[c], now) /\ ~Hits(f, c, line) /\ fill.time \in Nat
        /\ \A y \in SetsOf(c) : \A j \in DOMAIN f[c].sets[y] : f[c].sets[y][j].mhsr # i
        /\ done[c] = Filled(c, f[c], line, i, isStore, ports, fill.time)
    BY <1>4, <1>8, <1>9
  <2> QED
    BY <2>1, <1>2, <1>3, <1>10, FilledIs
<1>12. a.s = done /\ a.ok = TRUE /\ a.time \in Nat /\ a.time >= t /\ fill.time < a.time
  <2> HIDE DEF a
  <2>1. (back.ok /\ fill.ok) = TRUE
    BY <1>7, <1>8
  <2>2. a.s = done /\ a.time = fill.time + HitLatency[c] /\ a.ok = TRUE
    BY <1>1, <2>1 DEF Answer
  <2> QED
    BY <2>2, <1>2, <1>8, Parameters
<1>13. Only(c, s, done)
  BY <1>4, <1>9 DEF Only
<1>14. TakesOne(c, s[c], done[c], TRUE, a.time)
  <2>1. done[c].mhsr = [f[c].mhsr EXCEPT ![i] = [busy |-> TRUE, resolved |-> fill.time, line |-> line]]
    BY <1>9 DEF Filled
  <2>2. ASSUME NEW j \in 1..NumMHSR[c]
        PROVE  done[c].mhsr[j] = s[c].mhsr[j] \/ (j = i /\ done[c].mhsr[j].resolved < a.time)
    <3>1. f[c].mhsr \in [1..NumMHSR[c] -> Registers] /\ s[c].mhsr \in [1..NumMHSR[c] -> Registers]
      BY <1>2, <1>5, StateIs DEF CacheOK, c
    <3>2. CASE j = i
      <4>1. done[c].mhsr[i] = [busy |-> TRUE, resolved |-> fill.time, line |-> line]
        BY <2>1, <3>1, <1>3
      <4>2. done[c].mhsr[i].resolved = fill.time
        BY <4>1
      <4> QED
        BY <4>2, <3>2, <1>12
    <3>3. CASE j # i
      <4>1. done[c].mhsr[j] = f[c].mhsr[j] /\ f[c].mhsr[j] = s[c].mhsr[j]
        BY <2>1, <3>1, <3>3, <1>4
      <4> QED
        BY <4>1
    <3> QED
      BY <3>2, <3>3
  <2> QED
    BY <2>2, <1>3 DEF TakesOne
<1> QED
  BY <1>11, <1>12, <1>13, <1>14 DEF c

LEMMA L2Is ==
  ASSUME NEW now \in Nat, NEW t \in Nat, NEW s, AllCaches(s), CacheOK("l2", s["l2"], now),
         NEW line \in Lines, NEW isStore \in BOOLEAN
  PROVE  L2Answers(s, L2(s, t, line, isStore), t, line, now)
<1> DEFINE c == "l2"
           a == L2(s, t, line, isStore)
<1>1. c \in Caches /\ c \notin L1s /\ 1 \in 1..NumMHSR[c]
  BY Parameters DEF Caches, L1s
<1>2. CASE Refused(s, "l2", t, line)
  <2>1. a = Answer(s, t, FALSE)
    BY <1>2 DEF L2
  <2>2. a.s = s /\ a.time = t /\ a.ok = FALSE
    BY <2>1 DEF Answer
  <2>3. TakesOne("l2", s["l2"], s["l2"], ~Hits(s, "l2", line), t)
    BY <1>1 DEF TakesOne
  <2> HIDE DEF a
  <2>4. L2Answers(s, a, t, line, now)
    BY <1>2, <2>2, <2>3 DEF L2Answers, Only
  <2> QED
    BY <2>4 DEF a
<1>3. CASE Hits(s, "l2", line)
  <2>1. ~Refused(s, "l2", t, line) /\ a = AccessHit(s, c, t, line, isStore)
    BY <1>3 DEF L2, Access, Refused
  <2>a. CacheOK(c, s[c], now) /\ Hits(s, c, line)
    BY <1>3
  <2> HIDE DEF a, c
  <2>2. HitAnswers(c, s, a, t, line, now)
    BY <1>1, <2>a, <2>1, HitIs
  <2>3. TakesOne(c, s[c], a.s[c], ~Hits(s, c, line), a.time)
    BY <1>1, <2>2 DEF TakesOne, FreeMHSR, HitAnswers
  <2>4. L2Answers(s, a, t, line, now)
    BY <2>1, <2>2, <2>3 DEF HitAnswers, L2Answers, c
  <2> QED
    BY <2>4 DEF a
<1>4. CASE ~Hits(s, "l2", line) /\ ~Refused(s, "l2", t, line)
  <2>1. Usable(s, "l2", t) # {} /\ a = AccessMiss(s, c, t, line, isStore, Memory)
    BY <1>4 DEF L2, Access, Refused
  <2> HIDE DEF a
  <2>2. /\ Only(c, s, a.s) /\ CacheOK(c, a.s[c], now) /\ Hits(a.s, c, line)
        /\ a.time \in Nat /\ a.time >= t /\ a.ok = TRUE
        /\ TakesOne(c, s[c], a.s[c], TRUE, a.time)
    BY <1>4, <2>1, L2Misses
  <2>3. TakesOne(c, s[c], a.s[c], ~Hits(s, c, line), a.time)
    BY <1>4, <2>2 DEF TakesOne
  <2>4. L2Answers(s, a, t, line, now)
    BY <1>4, <2>2, <2>3 DEF L2Answers
  <2> QED
    BY <2>4 DEF a
<1> QED
  BY <1>2, <1>3, <1>4

LEMMA UsableLater ==
  ASSUME NEW c \in Caches, NEW s, NEW r, s[c].mhsr = r[c].mhsr,
         \A i \in 1..NumMHSR[c] : s[c].mhsr[i].resolved \in Nat,
         NEW t \in Nat, NEW u \in Nat, t <= u, Usable(r, c, u) = {}
  PROVE  Usable(s, c, t) = {}
<1>1. ASSUME NEW i \in 1..NumMHSR[c] PROVE s[c].mhsr[i].busy /\ ~(s[c].mhsr[i].resolved < t)
  <2>1. r[c].mhsr[i].busy /\ ~(r[c].mhsr[i].resolved < u)
    BY DEF Usable
  <2> QED
    BY <2>1
<1> QED
  BY <1>1 DEF Usable

\* Between a miss of an L1 and its answer L2 is asked once or twice: for the
\* victim's write-back and for the line.
MissAnswers(c, s, a, line, now) ==
  /\ AllCaches(a.s) /\ \A d \in L1s : d # c => a.s[d] = s[d]
  /\ CacheOK(c, a.s[c], now) /\ CacheOK("l2", a.s["l2"], now)
  /\ \E i \in Usable(s, c, now), resolved \in Nat :
       /\ a.s[c].mhsr = [s[c].mhsr EXCEPT ![i] = [busy |-> TRUE, resolved |-> resolved, line |-> line]]
       /\ \/ a.ok = TRUE /\ TakesOne("l2", s["l2"], a.s["l2"], TRUE, resolved)
          \/ a.ok = FALSE /\ Usable(s, "l2", now) = {}

LEMMA L1Misses ==
  ASSUME NEW c \in L1s, NEW now \in Nat, NEW s, AllCaches(s), CacheOK(c, s[c], now),
         CacheOK("l2", s["l2"], now), NEW line \in Lines, NEW isStore \in BOOLEAN,
         ~Hits(s, c, line), Usable(s, c, now) # {}
  PROVE  MissAnswers(c, s, AccessMiss(s, c, now, line, isStore, L2), line, now)
<1> DEFINE i == FirstUsable(s, c, now)
           f == Freed(s, c, i)
           port == NextPort(f, c)
           x == SetOf(c, line)
           start == FillStart(f, c, now, f[c].sets[x], port)
           new == [line |-> line, mhsr |-> i, dirty |-> isStore]
           placed == [f EXCEPT ![c].sets[x] = <<new>> \o Kept(f[c].sets[x], c)]
           back == WriteBack(placed, c, start, f[c].sets[x], line, L2)
           asked == [back.s EXCEPT ![c].ports[port] = back.time + PortLatency[c]]
           fill == L2(asked, back.time, line, FALSE)
           done == [fill.s EXCEPT ![c].mhsr[i] = [busy |-> TRUE, resolved |-> fill.time, line |-> line],
                                  ![c].arrives[line] = fill.time]
           a == AccessMiss(s, c, now, line, isStore, L2)
           ports == [f[c].ports EXCEPT ![port] = back.time + PortLatency[c]]
<1>1. a = Answer(done, fill.time + HitLatency[c], back.ok /\ fill.ok)
  BY DEF AccessMiss, WaysFor
<1>2. c \in Caches /\ c # "l2" /\ "l2" \in Caches /\ L1s \subseteq Caches /\ "l2" \notin L1s
  BY DEF Caches, L1s
<1>3. i \in Usable(s, c, now) /\ i \in 1..NumMHSR[c]
  <2>1. i \in Usable(s, c, now)
    BY <1>2, FirstUsableIs
  <2> QED
    BY <2>1 DEF Usable
<1> HIDE DEF i
<1>4. /\ Only(c, s, f) /\ CacheOK(c, f[c], now) /\ f[c].mhsr = [s[c].mhsr EXCEPT ![i] = FreeMHSR]
      /\ \A y \in SetsOf(c) : \A j \in DOMAIN f[c].sets[y] : f[c].sets[y][j].mhsr # i
      /\ ~Hits(f, c, line)
  <2>1. Frees(c, s, f, i, now)
    BY <1>2, <1>3, FreedIs
  <2> HIDE DEF f
  <2> QED
    BY <2>1 DEF Frees
<1> HIDE DEF f
<1>5. x \in SetsOf(c) /\ port \in 1..NumPorts[c] /\ f[c] \in CacheStates(c)
  BY <1>2, <1>4, SetOfType, NextPortIs, StateIs DEF CacheOK
<1> HIDE DEF port
<1>6. start \in Nat /\ start > now
  BY <1>2, <1>4, <1>5, FillStartIs
<1> HIDE DEF start
<1> DEFINE k == f[c]
           sets == [k.sets EXCEPT ![x] = <<new>> \o Kept(k.sets[x], c)]
<1>7. Only(c, f, placed) /\ placed[c] = [k EXCEPT !.sets = sets]
  <2>1. AllCaches(f) /\ placed = [f EXCEPT ![c] = [k EXCEPT !.sets = sets]]
    BY <1>4 DEF Only
  <2> HIDE DEF placed, sets, k
  <2> QED
    BY <2>1, <1>2 DEF Only, AllCaches, k
<1>8. AllCaches(placed) /\ placed["l2"] = s["l2"] /\ CacheOK("l2", placed["l2"], now)
  BY <1>2, <1>4, <1>7 DEF Only
<1> HIDE DEF placed
<1>9. \/ back = Answer(placed, start, TRUE)
      \/ L2Answers(placed, back, start, line, now)
  <2>1. back = L2(placed, start, line, TRUE) \/ back = Answer(placed, start, TRUE)
    BY DEF WriteBack
  <2> HIDE DEF back
  <2> QED
    BY <2>1, <1>6, <1>8, L2Is
<1> HIDE DEF back
<1>10. Only("l2", placed, back.s) /\ CacheOK("l2", back.s["l2"], now) /\ back.time \in Nat /\ back.time >= now
  <2>1. CASE back = Answer(placed, start, TRUE)
    <3>1. back.s = placed /\ back.time = start /\ back.ok = TRUE
      BY <2>1 DEF Answer
    <3> QED
      BY <3>1, <1>6, <1>8 DEF Only
  <2>2. CASE L2Answers(placed, back, start, line, now)
    BY <2>2, <1>6 DEF L2Answers
  <2> QED
    BY <2>1, <2>2, <1>9
<1>11. Only(c, back.s, asked) /\ asked[c] = [k EXCEPT !.sets = sets, !.ports = ports]
  <2>1. back.s[c] = placed[c] /\ AllCaches(back.s)
    BY <1>2, <1>10 DEF Only
  <2>2. k = [sets |-> k.sets, mhsr |-> k.mhsr, ports |-> k.ports, arrives |-> k.arrives]
    BY <1>2, <1>5, StateIs
  <2> HIDE DEF k, sets
  <2>3. back.s[c].ports = k.ports /\ back.s[c] = [k EXCEPT !.sets = sets]
    BY <2>1, <2>2, <1>7
  <2>4. asked = [back.s EXCEPT ![c] = [back.s[c] EXCEPT !.ports = ports]]
    BY <2>3 DEF k
  <2> HIDE DEF asked, ports
  <2> QED
    BY <2>1, <2>3, <2>4, <1>2 DEF Only, AllCaches
<1>12. L2Answers(asked, fill, back.time, line, now)
  <2> HIDE DEF asked
  <2>1. AllCaches(asked) /\ CacheOK("l2", asked["l2"], now)
    BY <1>2, <1>10, <1>11 DEF Only
  <2> QED
    BY <2>1, <1>10, L2Is
<1> HIDE DEF asked, fill
<1>13. fill.time \in Nat /\ fill.time >= back.time /\ Only("l2", asked, fill.s)
       /\ CacheOK("l2", fill.s["l2"], now)
  BY <1>12 DEF L2Answers
<1>14. Only(c, fill.s, done) /\ done[c] = Filled(c, f[c], line, i, isStore, ports, fill.time)
  <2> DEFINE mhsr == [k.mhsr EXCEPT ![i] = [busy |-> TRUE, resolved |-> fill.time, line |-> line]]
             arrives == [k.arrives EXCEPT ![line] = fill.time]
  <2>1. fill.s[c] = asked[c] /\ AllCaches(fill.s)
    BY <1>2, <1>13 DEF Only
  <2>2. k = [sets |-> k.sets, mhsr |-> k.mhsr, ports |-> k.ports, arrives |-> k.arrives]
    BY <1>2, <1>5, StateIs
  <2> HIDE DEF k, sets, ports
  <2>3. fill.s[c] = [sets |-> sets, mhsr |-> k.mhsr, ports |-> ports, arrives |-> k.arrives]
    BY <2>1, <2>2, <1>11
  <2>a. fill.s[c].mhsr = k.mhsr /\ fill.s[c].arrives = k.arrives
    BY <2>3
  <2>4. done = [fill.s EXCEPT ![c] = [fill.s[c] EXCEPT !.mhsr = mhsr, !.arrives = arrives]]
    BY <2>a
  <2> HIDE DEF done, mhsr, arrives
  <2>5. Only(c, fill.s, done) /\ done[c] = [fill.s[c] EXCEPT !.mhsr = mhsr, !.arrives = arrives]
    BY <2>1, <2>4, <1>2 DEF Only, AllCaches
  <2> DEFINE r == fill.s[c]
  <2>b. r = [sets |-> sets, mhsr |-> k.mhsr, ports |-> ports, arrives |-> k.arrives]
        /\ done[c] = [r EXCEPT !.mhsr = mhsr, !.arrives = arrives]
    BY <2>3, <2>5
  <2> HIDE DEF r
  <2>6. done[c] = [sets |-> sets, mhsr |-> mhsr, ports |-> ports, arrives |-> arrives]
    BY <2>b
  <2> QED
    BY <2>5, <2>6 DEF Filled, sets, mhsr, arrives, k
<1>15. ports \in [1..NumPorts[c] -> Nat]
  <2>1. f[c].ports \in [1..NumPorts[c] -> Nat]
    BY <1>2, <1>5, StateIs
  <2>2. back.time + PortLatency[c] \in Nat
    BY <1>2, <1>10, Parameters
  <2> QED
    BY <2>1, <2>2, <1>5
<1> HIDE DEF ports, done, k, sets
<1>16. CacheOK(c, done[c], now)
  <2>1. /\ CacheOK(c, f[c], now) /\ ~Hits(f, c, line) /\ fill.time \in Nat
        /\ \A y \in SetsOf(c) : \A j \in DOMAIN f[c].sets[y] : f[c].sets[y][j].mhsr # i
        /\ done[c] = Filled(c, f[c], line, i, isStore, ports, fill.time)
    BY <1>4, <1>13, <1>14
  <2> QED
    BY <2>1, <1>2, <1>3, <1>15, FilledIs
<1>17. /\ AllCaches(done) /\ done["l2"] = fill.s["l2"] /\ asked["l2"] = back.s["l2"]
       /\ \A d \in L1s : d # c => done[d] = s[d]
  <2>1. AllCaches(done) /\ done["l2"] = fill.s["l2"] /\ asked["l2"] = back.s["l2"]
    BY <1>2, <1>11, <1>14 DEF Only
  <2>2. ASSUME NEW d \in L1s, d # c PROVE done[d] = s[d]
    <3>1. d \in Caches /\ d # "l2"
      BY <1>2
    <3>2. done[d] = fill.s[d] /\ fill.s[d] = asked[d] /\ asked[d] = back.s[d]
      BY <3>1, <2>2, <1>11, <1>13, <1>14 DEF Only
    <3>3. back.s[d] = placed[d] /\ placed[d] = f[d] /\ f[d] = s[d]
      BY <3>1, <2>2, <1>4, <1>7, <1>10 DEF Only
    <3> QED
      BY <3>2, <3>3
  <2> QED
    BY <2>1, <2>2
<1>18. done[c].mhsr = [s[c].mhsr EXCEPT ![i] = [busy |-> TRUE, resolved |-> fill.time, line |-> line]]
  <2>1. done[c].mhsr = [f[c].mhsr EXCEPT ![i] = [busy |-> TRUE, resolved |-> fill.time, line |-> line]]
    BY <1>14 DEF Filled
  <2>2. s[c].mhsr \in [1..NumMHSR[c] -> Registers]
    BY <1>2, StateIs DEF CacheOK
  <2> QED
    BY <2>1, <2>2, <1>4
<1>19. a.s = done /\ a.ok = (back.ok /\ fill.ok)
  <2> HIDE DEF a
  <2> QED
    BY <1>1 DEF Answer
<1> HIDE DEF a
<1> DEFINE Taken == TakesOne("l2", s["l2"], done["l2"], TRUE, fill.time)
           Full == Usable(s, "l2", now) = {}
<1>20. \/ a.ok = TRUE /\ Taken
       \/ a.ok = FALSE /\ Full
  <2>1. s["l2"].mhsr \in [1..NumMHSR["l2"] -> Registers]
        /\ \A j \in 1..NumMHSR["l2"] : s["l2"].mhsr[j].resolved \in Nat
    BY <1>2, StateIs DEF CacheOK
  <2>2. CASE back = Answer(placed, start, TRUE)
    <3>1. asked["l2"] = s["l2"] /\ back.ok = TRUE
      BY <2>2, <1>8, <1>17 DEF Answer
    <3>2. CASE Refused(asked, "l2", back.time, line)
      <4>1. Usable(asked, "l2", back.time) = {} /\ a.ok = FALSE
        BY <3>2, <1>12, <1>19 DEF L2Answers, Refused
      <4>2. Full
        BY <4>1, <3>1, <2>1, <1>2, <1>10, UsableLater
      <4> QED
        BY <4>1, <4>2
    <3>3. CASE ~Refused(asked, "l2", back.time, line)
      <4>1. fill.ok = TRUE /\ TakesOne("l2", asked["l2"], fill.s["l2"], ~Hits(asked, "l2", line), fill.time)
        BY <3>3, <1>12 DEF L2Answers
      <4>2. Taken
        BY <4>1, <3>1, <1>17 DEF TakesOne
      <4>3. a.ok = TRUE
        BY <4>1, <3>1, <1>19
      <4> QED
        BY <4>2, <4>3
    <3> QED
      BY <3>2, <3>3
  <2>3. CASE L2Answers(placed, back, start, line, now) /\ Refused(placed, "l2", start, line)
    <3>1. back.ok = FALSE /\ Usable(placed, "l2", start) = {}
      BY <2>3 DEF L2Answers, Refused
    <3>2. s["l2"].mhsr = placed["l2"].mhsr /\ now <= start
      BY <1>6, <1>8
    <3>4. Full
      BY <3>1, <3>2, <2>1, <1>2, <1>6, UsableLater
    <3>3. a.ok = FALSE
      BY <3>1, <1>19
    <3> QED
      BY <3>3, <3>4
  <2>4. CASE L2Answers(placed, back, start, line, now) /\ ~Refused(placed, "l2", start, line)
    <3>1. /\ back.ok = TRUE /\ Hits(back.s, "l2", line)
          /\ TakesOne("l2", s["l2"], back.s["l2"], ~Hits(placed, "l2", line), back.time)
      BY <2>4, <1>8 DEF L2Answers
    <3>2. Hits(asked, "l2", line)
      BY <3>1, <1>17 DEF Hits, WaysFor
    <3>3. /\ fill.ok = TRUE
          /\ TakesOne("l2", back.s["l2"], fill.s["l2"], ~Hits(asked, "l2", line), fill.time)
      BY <3>2, <1>12, <1>17 DEF L2Answers, Refused
    <3>4. PICK i0 \in 1..NumMHSR["l2"] : \A j \in 1..NumMHSR["l2"] :
             \/ back.s["l2"].mhsr[j] = s["l2"].mhsr[j]
             \/ ~back.s["l2"].mhsr[j].busy
             \/ j = i0 /\ back.s["l2"].mhsr[j].resolved < back.time
      BY <3>1 DEF TakesOne
    <3>5. \A j \in 1..NumMHSR["l2"] : \/ fill.s["l2"].mhsr[j] = back.s["l2"].mhsr[j]
                                      \/ ~fill.s["l2"].mhsr[j].busy
      BY <3>2, <3>3 DEF TakesOne
    <3>6. \A j \in 1..NumMHSR["l2"] : back.s["l2"].mhsr[j].resolved \in Nat
      BY <1>2, <1>10, StateIs DEF CacheOK
    <3>7. ASSUME NEW j \in 1..NumMHSR["l2"]
          PROVE  \/ fill.s["l2"].mhsr[j] = s["l2"].mhsr[j]
                 \/ ~fill.s["l2"].mhsr[j].busy
                 \/ j = i0 /\ fill.s["l2"].mhsr[j].resolved < fill.time
      <4>1. CASE ~fill.s["l2"].mhsr[j].busy
        BY <4>1
      <4>2. CASE fill.s["l2"].mhsr[j] = back.s["l2"].mhsr[j]
        BY <4>2, <3>4, <3>6, <1>10, <1>13
      <4> QED
        BY <4>1, <4>2, <3>5
    <3>8. Taken
      BY <3>7, <1>17 DEF TakesOne
    <3>9. a.ok = TRUE
      BY <3>1, <3>3, <1>19
    <3> QED
      BY <3>8, <3>9
  <2> QED
    BY <2>2, <2>3, <2>4, <1>9
<1> HIDE DEF Taken, Full
<1>21. CacheOK("l2", done["l2"], now)
  BY <1>13, <1>17
<1>22. MissAnswers(c, s, a, line, now)
  BY <1>3, <1>13, <1>16, <1>17, <1>18, <1>19, <1>20, <1>21 DEF MissAnswers, Taken, Full
<1> QED
  BY <1>22 DEF a

-----------------------------------------------------------------------------
(* The miss registers.                                                     *)

\* Of the L1s only c changes, where the register i waits for the line.
TakesRegister(c, i, line, resolved) ==
  /\ \A d \in L1s : d # c => caches'[d] = caches[d]
  /\ caches'[c].mhsr = [caches[c].mhsr EXCEPT ![i] = [busy |-> TRUE, resolved |-> resolved, line |-> line]]

\* What an access leaves of the registers.
Accesses(c, line) ==
  \/ /\ rejected' = FALSE /\ caches'["l2"] = caches["l2"]
     /\ \A d \in L1s : \A i \in 1..NumMHSR[d] :
          \/ caches'[d].mhsr[i] = caches[d].mhsr[i]
          \/ caches[d].mhsr[i].resolved <= cycle
  \/ \E i \in Usable(caches, c, cycle), resolved \in Nat :
       /\ TakesRegister(c, i, line, resolved)
       /\ \/ rejected' = FALSE /\ TakesOne("l2", caches["l2"], caches'["l2"], TRUE, resolved)
          \/ rejected' = TRUE /\ Usable(caches, "l2", cycle) = {}

LEMMA AccessKeeps ==
  ASSUME CachesInv, NEW c \in L1s, NEW line \in Lines, NEW isStore \in BOOLEAN, L1Access(c, line, isStore)
  PROVE  CachesInv' /\ Accesses(c, line)
<1> DEFINE a == Access(caches, c, cycle, line, isStore, L2)
<1>1. /\ ~Refused(caches, c, cycle, line)
      /\ caches' = a.s /\ rejected' = ~a.ok /\ cycle' = cycle
  BY DEF L1Access
<1>2. /\ c \in Caches /\ c # "l2" /\ "l2" \in Caches /\ L1s \subseteq Caches
      /\ Caches = L1s \cup {"l2"} /\ "l2" \notin L1s
  BY DEF Caches, L1s
<1>3. /\ cycle \in Nat /\ AllCaches(caches) /\ \A d \in Caches : CacheOK(d, caches[d], cycle)
  BY DEF CachesInv
<1>4. CASE Hits(caches, c, line)
  <2>1. a = AccessHit(caches, c, cycle, line, isStore)
    BY <1>4 DEF Access
  <2> HIDE DEF a
  <2>2. HitAnswers(c, caches, a, cycle, line, cycle)
    BY <2>1, <1>2, <1>3, <1>4, HitIs
  <2>3. /\ AllCaches(caches') /\ CacheOK(c, caches'[c], cycle)
        /\ \A d \in Caches : d # c => caches'[d] = caches[d]
    BY <2>2, <1>1 DEF HitAnswers, Only
  <2>4. \A d \in Caches : CacheOK(d, caches'[d], cycle)
    BY <2>3, <1>3
  <2>5. rejected' = FALSE
    BY <2>2, <1>1 DEF HitAnswers
  <2>6. CachesInv'
    BY <2>3, <2>4, <2>5, <1>1, <1>3 DEF CachesInv
  <2>7. ASSUME NEW d \in L1s, NEW i \in 1..NumMHSR[d]
        PROVE  caches'[d].mhsr[i] = caches[d].mhsr[i] \/ caches[d].mhsr[i].resolved <= cycle
    <3>1. CASE d = c
      BY <3>1, <2>2, <1>1 DEF HitAnswers
    <3>2. CASE d # c
      BY <3>2, <2>3, <1>2
    <3> QED
      BY <3>1, <3>2
  <2> QED
    BY <2>3, <2>5, <2>6, <2>7, <1>2 DEF Accesses
<1>5. CASE ~Hits(caches, c, line)
  <2>1. Usable(caches, c, cycle) # {} /\ a = AccessMiss(caches, c, cycle, line, isStore, L2)
    BY <1>1, <1>5 DEF Access, Refused
  <2> HIDE DEF a
  <2>2. MissAnswers(c, caches, a, line, cycle)
    BY <2>1, <1>2, <1>3, <1>5, L1Misses
  <2>3. \A d \in Caches : CacheOK(d, caches'[d], cycle)
    BY <2>2, <1>1, <1>2, <1>3 DEF MissAnswers
  <2>4. PICK i \in Usable(caches, c, cycle), resolved \in Nat :
          /\ caches'[c].mhsr = [caches[c].mhsr EXCEPT ![i] = [busy |-> TRUE, resolved |-> resolved, line |-> line]]
          /\ \/ a.ok = TRUE /\ TakesOne("l2", caches["l2"], caches'["l2"], TRUE, resolved)
             \/ a.ok = FALSE /\ Usable(caches, "l2", cycle) = {}
    BY <2>2, <1>1 DEF MissAnswers
  <2>5. /\ \/ rejected' = FALSE /\ TakesOne("l2", caches["l2"], caches'["l2"], TRUE, resolved)
           \/ rejected' = TRUE /\ Usable(caches, "l2", cycle) = {}
    BY <2>4, <1>1
  <2>6. CachesInv'
    BY <2>2, <2>3, <2>5, <1>1, <1>3 DEF MissAnswers, CachesInv
  <2>7. \A d \in L1s : d # c => caches'[d] = caches[d]
    BY <2>2, <1>1 DEF MissAnswers
  <2> QED
    BY <2>4, <2>5, <2>6, <2>7 DEF Accesses, TakesRegister
<1> QED
  BY <1>4, <1>5

LEMMA TickKeeps ==
  ASSUME CachesInv, Tick
  PROVE  CachesInv'
<1>1. cycle \in Nat /\ cycle' \in Nat /\ cycle <= cycle' /\ caches' = caches /\ rejected' = rejected
  BY DEF CachesInv, Tick
<1>2. ASSUME NEW c \in Caches PROVE CacheOK(c, caches[c], cycle')
  <2> DEFINE k == caches[c]
  <2>1. CacheOK(c, k, cycle)
    BY DEF CachesInv
  <2>2. k.arrives \in [Lines -> Nat]
    BY <2>1, StateIs DEF CacheOK
  <2> HIDE DEF k
  <2>3. ASSUME NEW x \in SetsOf(c), NEW j \in DOMAIN k.sets[x] PROVE WayOK(c, k, k.sets[x][j], cycle')
    <3> DEFINE w == k.sets[x][j]
    <3>1. w.line \in Lines /\ WayOK(c, k, w, cycle)
      BY <2>1, <2>3, WayIs
    <3>2. k.arrives[w.line] \in Nat
      BY <3>1, <2>2
    <3> HIDE DEF w
    <3>3. WayOK(c, k, w, cycle')
      BY <3>1, <3>2, <1>1 DEF WayOK
    <3> QED
      BY <3>3 DEF w
  <2>4. CacheOK(c, k, cycle')
    BY <2>1, <2>3 DEF CacheOK
  <2> QED
    BY <2>4 DEF k
<1> QED
  BY <1>1, <1>2 DEF CachesInv

LEMMA CachesInitially ==
  ASSUME Init
  PROVE  CachesInv
<1>1. cycle = 0 /\ rejected = FALSE
  BY DEF Init
<1>2. ASSUME NEW c \in Caches PROVE CacheOK(c, caches[c], cycle)
  <2> DEFINE k == caches[c]
  <2>1. k = [sets |-> [x \in 0..Sets[c]-1 |-> <<>>], mhsr |-> [i \in 1..NumMHSR[c] |-> FreeMHSR],
             ports |-> [i \in 1..NumPorts[c] |-> 0], arrives |-> [l \in Lines |-> 0]]
    BY DEF Init
  <2>2. /\ k.sets = [x \in SetsOf(c) |-> <<>>] /\ k.mhsr \in [1..NumMHSR[c] -> Registers]
        /\ k.ports \in [1..NumPorts[c] -> Nat] /\ k.arrives \in [Lines -> Nat]
    BY <2>1 DEF FreeMHSR, Registers, SetsOf
  <2>3. <<>> \in Seq(WaysIn(c)) /\ DOMAIN <<>> = {} /\ Len(<<>>) = 0
    OBVIOUS
  <2> HIDE DEF k
  <2>4. k \in CacheStates(c)
    BY <2>1, <2>2, <2>3 DEF CacheStates
  <2>5. ASSUME NEW x \in SetsOf(c)
        PROVE  SetOK(c, x, k.sets[x]) /\ \A j \in DOMAIN k.sets[x] : WayOK(c, k, k.sets[x][j], cycle)
    <3>1. k.sets[x] = <<>>
      BY <2>2
    <3> QED
      BY <3>1, <2>3, Parameters DEF SetOK
  <2>6. CacheOK(c, k, cycle)
    BY <2>4, <2>5 DEF CacheOK
  <2> QED
    BY <2>6 DEF k
<1>3. AllCaches(caches)
  BY DEF Init, AllCaches
<1> QED
  BY <1>1, <1>2, <1>3 DEF CachesInv

LEMMA CachesStep ==
  ASSUME CachesInv, [Next]_vars
  PROVE  CachesInv'
<1>1. CASE DCLoad
  <2>1. PICK line \in Lines : L1Access("dc", line, FALSE)
    BY <1>1 DEF DCLoad
  <2> QED
    BY <2>1, AccessKeeps DEF L1s
<1>2. CASE DCStore
  <2>1. PICK line \in Lines : L1Access("dc", line, TRUE)
    BY <1>2 DEF DCStore
  <2> QED
    BY <2>1, AccessKeeps DEF L1s
<1>3. CASE ICFetch
  <2>1. PICK line \in Lines : L1Access("ic", line, FALSE)
    BY <1>3 DEF ICFetch
  <2> QED
    BY <2>1, AccessKeeps DEF L1s
<1>4. CASE Tick
  BY <1>4, TickKeeps
<1>5. CASE UNCHANGED vars
  BY <1>5 DEF vars, CachesInv
<1> QED
  BY <1>1, <1>2, <1>3, <1>4, <1>5 DEF Next

\* The invariant says what MHSRsExact says.
LEMMA CachesExact ==
  ASSUME CachesInv
  PROVE  MHSRsExact
<1>1. ASSUME NEW c \in Caches
      PROVE  /\ CacheOK(c, caches[c], cycle) /\ caches[c] \in CacheStates(c)
             /\ DOMAIN caches[c].sets = SetsOf(c)
             /\ WaysOf(c) = UNION {{<<x, k>> : k \in DOMAIN caches[c].sets[x]} : x \in SetsOf(c)}
  <2>1. CacheOK(c, caches[c], cycle) /\ caches[c] \in CacheStates(c)
    BY DEF CachesInv, CacheOK
  <2>2. DOMAIN caches[c].sets = SetsOf(c)
    BY <2>1, StateIs
  <2> QED
    BY <2>1, <2>2 DEF WaysOf
<1>2. ASSUME NEW c \in Caches, NEW p \in WaysOf(c)
      PROVE  /\ p[1] \in SetsOf(c) /\ p[2] \in DOMAIN caches[c].sets[p[1]] /\ p = <<p[1], p[2]>>
             /\ Way(c, p) \in WaysIn(c) /\ SetOf(c, Way(c, p).line) = p[1]
             /\ WayOK(c, caches[c], Way(c, p), cycle)
  <2>1. PICK x \in SetsOf(c) : \E k \in DOMAIN caches[c].sets[x] : p = <<x, k>>
    BY <1>1
  <2>2. PICK k \in DOMAIN caches[c].sets[x] : p = <<x, k>>
    BY <2>1
  <2>3. Way(c, p) = caches[c].sets[x][k] /\ p[1] = x /\ p[2] = k
    BY <2>2 DEF Way
  <2> QED
    BY <2>2, <2>3, <1>1, WayIs
<1>3. TypeOK
  <2>1. cycle \in Nat /\ rejected \in BOOLEAN
    BY DEF CachesInv
  <2>2. ASSUME NEW c \in Caches
        PROVE  /\ \A p \in WaysOf(c) :
                    /\ Way(c, p).line \in Lines /\ SetOf(c, Way(c, p).line) = p[1]
                    /\ Way(c, p).mhsr \in {None} \cup 1..NumMHSR[c]
                    /\ Way(c, p).dirty \in BOOLEAN
               /\ \A p, q \in WaysOf(c) : Way(c, p).line = Way(c, q).line => p = q
               /\ \A x \in DOMAIN caches[c].sets : Len(caches[c].sets[x]) <= Assoc[c]
               /\ \A i \in 1..NumMHSR[c] : caches[c].mhsr[i].resolved \in Nat
               /\ caches[c].ports \in [1..NumPorts[c] -> Nat]
    <3>1. \A p \in WaysOf(c) :
            /\ Way(c, p).line \in Lines /\ SetOf(c, Way(c, p).line) = p[1]
            /\ Way(c, p).mhsr \in {None} \cup 1..NumMHSR[c]
            /\ Way(c, p).dirty \in BOOLEAN
      BY <1>2 DEF WaysIn
    <3>2. ASSUME NEW p \in WaysOf(c), NEW q \in WaysOf(c), Way(c, p).line = Way(c, q).line PROVE p = q
      <4>1. p[1] = q[1]
        BY <1>2, <3>2
      <4>2. SetOK(c, p[1], caches[c].sets[p[1]])
        BY <1>1, <1>2 DEF CacheOK
      <4>3. p[2] = q[2]
        BY <4>1, <4>2, <1>2, <3>2 DEF SetOK, Way
      <4> QED
        BY <4>1, <4>3, <1>2
    <3>3. \A x \in DOMAIN caches[c].sets : Len(caches[c].sets[x]) <= Assoc[c]
      BY <1>1 DEF CacheOK, SetOK
    <3>4. (\A i \in 1..NumMHSR[c] : caches[c].mhsr[i].resolved \in Nat)
          /\ caches[c].ports \in [1..NumPorts[c] -> Nat]
      BY <1>1, StateIs
    <3> QED
      BY <3>1, <3>2, <3>3, <3>4
  <2> QED
    BY <2>1, <2>2 DEF TypeOK
<1> QED
  BY <1>2, <1>3 DEF MHSRsExact, WayOK

\* In every cache, a line that names a miss-handling register is the line that
\* register brings in, when it brings it in, however registers are freed and
\* handed on and lines replaced while fills are under way (FindFreeMHSR(),
\* Access(), lookup()); an L1 line that names none has arrived.
THEOREM CacheMHSRs == Spec => []MHSRsExact
<1>1. Init => CachesInv
  BY CachesInitially
<1>2. CachesInv /\ [Next]_vars => CachesInv'
  BY CachesStep
<1>3. CachesInv => MHSRsExact
  BY CachesExact
<1> QED
  BY <1>1, <1>2, <1>3, PTL DEF Spec

-----------------------------------------------------------------------------
(* The next level.                                                         *)

\* An L2 register is pending while its fill may still be awaited.
Pending == {j \in 1..NumMHSR["l2"] : caches["l2"].mhsr[j].busy /\ caches["l2"].mhsr[j].resolved >= cycle}

\* The registers of the L1s, numbered through.
L1MHSRs == 1..NumMHSR["ic"] + NumMHSR["dc"]
NumberOf(c, i) == IF c = "ic" THEN i ELSE NumMHSR["ic"] + i
L1Register(s, n) ==
  IF n <= NumMHSR["ic"] THEN s["ic"].mhsr[n] ELSE s["dc"].mhsr[n - NumMHSR["ic"]]

\* f gives each pending register of L2 an L1 register of its own, whose fill
\* comes later.
Covers(f) ==
  /\ f \in Injection(Pending, L1MHSRs)
  /\ \A j \in Pending :
       L1Register(caches, f[j]).busy /\ caches["l2"].mhsr[j].resolved < L1Register(caches, f[j]).resolved

NextLevelInv == CachesInv /\ ~rejected /\ \E f : Covers(f)

LEMMA Numbers ==
  /\ NumMHSR["ic"] \in Nat \ {0} /\ NumMHSR["dc"] \in Nat \ {0} /\ NumMHSR["l2"] \in Nat \ {0}
  /\ \A c \in L1s : \A i \in 1..NumMHSR[c] :
       NumberOf(c, i) \in L1MHSRs /\ \A s : L1Register(s, NumberOf(c, i)) = s[c].mhsr[i]
  /\ \A n \in L1MHSRs : \E c \in L1s : \E i \in 1..NumMHSR[c] : n = NumberOf(c, i)
  /\ \A c, d \in L1s : \A i \in 1..NumMHSR[c] : \A j \in 1..NumMHSR[d] :
       NumberOf(c, i) = NumberOf(d, j) => c = d /\ i = j
<1>1. NumMHSR["ic"] \in Nat \ {0} /\ NumMHSR["dc"] \in Nat \ {0} /\ NumMHSR["l2"] \in Nat \ {0}
  BY Parameters DEF Caches, L1s
<1>2. ASSUME NEW c \in L1s, NEW i \in 1..NumMHSR[c]
      PROVE  NumberOf(c, i) \in L1MHSRs /\ \A s : L1Register(s, NumberOf(c, i)) = s[c].mhsr[i]
  <2>1. CASE c = "ic"
    BY <1>1, <1>2, <2>1 DEF NumberOf, L1MHSRs, L1Register
  <2>2. CASE c = "dc"
    <3>1. i \in 1..NumMHSR["dc"] /\ NumberOf(c, i) = NumMHSR["ic"] + i
      BY <1>2, <2>2 DEF NumberOf
    <3>2. ~(NumMHSR["ic"] + i <= NumMHSR["ic"]) /\ (NumMHSR["ic"] + i) - NumMHSR["ic"] = i
          /\ NumMHSR["ic"] + i \in 1..NumMHSR["ic"] + NumMHSR["dc"]
      BY <1>1, <3>1
    <3> QED
      BY <3>1, <3>2, <2>2 DEF L1MHSRs, L1Register
  <2> QED
    BY <2>1, <2>2 DEF L1s
<1>3. ASSUME NEW n \in L1MHSRs
      PROVE  \E c \in L1s : \E i \in 1..NumMHSR[c] : n = NumberOf(c, i)
  <2>1. CASE n <= NumMHSR["ic"]
    BY <1>1, <1>3, <2>1 DEF L1MHSRs, NumberOf, L1s
  <2>2. CASE ~(n <= NumMHSR["ic"])
    <3>1. n - NumMHSR["ic"] \in 1..NumMHSR["dc"] /\ n = NumMHSR["ic"] + (n - NumMHSR["ic"])
      BY <1>1, <1>3, <2>2 DEF L1MHSRs
    <3> QED
      BY <3>1 DEF NumberOf, L1s
  <2> QED
    BY <2>1, <2>2
<1>4. ASSUME NEW c \in L1s, NEW d \in L1s, NEW i \in 1..NumMHSR[c], NEW j \in 1..NumMHSR[d],
             NumberOf(c, i) = NumberOf(d, j)
      PROVE  c = d /\ i = j
  <2>1. (c = "ic" \/ c = "dc") /\ (d = "ic" \/ d = "dc")
    BY DEF L1s
  <2> QED
    BY <1>1, <1>4, <2>1 DEF NumberOf
<1> QED
  BY <1>1, <1>2, <1>3, <1>4

LEMMA RegisterTypes ==
  ASSUME CachesInv, NEW c \in Caches, NEW i \in 1..NumMHSR[c]
  PROVE  /\ caches[c].mhsr \in [1..NumMHSR[c] -> Registers]
         /\ caches[c].mhsr[i].resolved \in Nat /\ caches[c].mhsr[i].busy \in BOOLEAN
BY StateIs DEF CachesInv, CacheOK

\* While an L1 register is idle, the others are too few to cover all of L2's.
LEMMA L2HasRoom ==
  ASSUME NumMHSR["l2"] >= NumMHSR["ic"] + NumMHSR["dc"],
         NEW f, Covers(f), NEW p \in L1MHSRs, \A j \in Pending : f[j] # p
  PROVE  Pending # 1..NumMHSR["l2"]
<1> DEFINE n == NumMHSR["l2"]
           m == NumMHSR["ic"] + NumMHSR["dc"]
           Others == L1MHSRs \ {p}
<1>1. SUFFICES ASSUME Pending = 1..n PROVE FALSE
  OBVIOUS
<1>2. n \in Nat \ {0} /\ m \in Nat \ {0} /\ ~(n <= m - 1) /\ L1MHSRs = 1..m
  BY Numbers DEF L1MHSRs
<1> HIDE DEF n, m
<1>3. \A q \in Nat \ {0} : IsFiniteSet(1..q) /\ Cardinality(1..q) = q
  <2> TAKE q \in Nat \ {0}
  <2>1. 1 \in Int /\ q \in Int /\ ~(1 > q) /\ q - 1 + 1 = q
    OBVIOUS
  <2>2. IsFiniteSet(1..q) /\ Cardinality(1..q) = IF 1 > q THEN 0 ELSE q - 1 + 1
    BY <2>1, FS_Interval
  <2> QED
    BY <2>1, <2>2
<1>4. IsFiniteSet(Others) /\ Cardinality(Others) = m - 1
  <2>1. IsFiniteSet(L1MHSRs) /\ Cardinality(L1MHSRs) = m
    BY <1>2, <1>3
  <2> QED
    BY <2>1, FS_RemoveElement
<1>5. f \in Injection(1..n, Others)
  <2>1. f \in [1..n -> L1MHSRs] /\ IsInjective(f)
    BY <1>1 DEF Covers, Injection
  <2>2. f \in [1..n -> Others]
    BY <2>1, <1>1
  <2> QED
    BY <2>1, <2>2 DEF Injection
<1>6. Cardinality(1..n) <= Cardinality(Others)
  <2> HIDE DEF Others
  <2> QED
    BY <1>4, <1>5, FS_Injection
<1> QED
  BY <1>2, <1>3, <1>4, <1>6

\* A hit, or a tick: no register is taken, and of the L1s' only those are freed
\* whose lines are there.
LEMMA CoveredStill ==
  ASSUME CachesInv, CachesInv', NEW f, Covers(f), cycle' >= cycle,
         caches'["l2"] = caches["l2"],
         \A d \in L1s : \A i \in 1..NumMHSR[d] :
           \/ caches'[d].mhsr[i] = caches[d].mhsr[i]
           \/ caches[d].mhsr[i].resolved <= cycle
  PROVE  \E g : Covers(g)'
<1>1. cycle \in Nat /\ cycle' \in Nat
  BY DEF CachesInv
<1>2. Pending' \subseteq Pending
  <2> SUFFICES ASSUME NEW j \in Pending' PROVE j \in Pending
    OBVIOUS
  <2>1. j \in 1..NumMHSR["l2"] /\ caches["l2"].mhsr[j].busy /\ caches["l2"].mhsr[j].resolved >= cycle'
    BY DEF Pending
  <2>2. caches["l2"].mhsr[j].resolved \in Nat
    BY <2>1, RegisterTypes DEF Caches
  <2> QED
    BY <2>1, <2>2, <1>1 DEF Pending
<1>3. f \in [Pending -> L1MHSRs] /\ IsInjective(f)
  BY DEF Covers, Injection
<1>4. PICK g : g = [j \in Pending' |-> f[j]]
  OBVIOUS
<1>5. g \in Injection(Pending', L1MHSRs)
  BY <1>2, <1>3, <1>4 DEF Injection, IsInjective
<1>6. ASSUME NEW j \in Pending'
      PROVE  /\ L1Register(caches', g[j]).busy
             /\ caches'["l2"].mhsr[j].resolved < L1Register(caches', g[j]).resolved
  <2>1. j \in Pending /\ j \in 1..NumMHSR["l2"] /\ caches["l2"].mhsr[j].resolved >= cycle /\ f[j] \in L1MHSRs
        /\ g[j] = f[j]
    BY <1>2, <1>3, <1>4, <1>6 DEF Pending
  <2>2. PICK c \in L1s : \E i \in 1..NumMHSR[c] : f[j] = NumberOf(c, i)
    BY <2>1, Numbers
  <2>3. PICK i \in 1..NumMHSR[c] : f[j] = NumberOf(c, i)
    BY <2>2
  <2>4. L1Register(caches, f[j]) = caches[c].mhsr[i] /\ L1Register(caches', f[j]) = caches'[c].mhsr[i]
    BY <2>3, Numbers
  <2>5. caches["l2"].mhsr[j].resolved \in Nat /\ caches[c].mhsr[i].resolved \in Nat
    BY <2>1, RegisterTypes DEF Caches
  <2>6. caches[c].mhsr[i].busy /\ caches["l2"].mhsr[j].resolved < caches[c].mhsr[i].resolved
    BY <2>1, <2>4 DEF Covers
  <2>7. caches'[c].mhsr[i] = caches[c].mhsr[i]
    BY <2>1, <2>5, <2>6, <1>1
  <2> QED
    BY <2>1, <2>4, <2>6, <2>7
<1>7. Covers(g)'
  BY <1>5, <1>6 DEF Covers
<1> QED
  BY <1>7

\* A miss: the L1 register it takes covers the one it may take in L2.
LEMMA CoveredAnew ==
  ASSUME CachesInv, CachesInv', NEW f, Covers(f), cycle' = cycle, NEW c \in L1s, NEW line,
         NEW i \in Usable(caches, c, cycle), NEW resolved \in Nat,
         TakesRegister(c, i, line, resolved),
         TakesOne("l2", caches["l2"], caches'["l2"], TRUE, resolved)
  PROVE  \E g : Covers(g)'
<1> DEFINE p == NumberOf(c, i)
           Stays(j) == caches'["l2"].mhsr[j] = caches["l2"].mhsr[j]
<1>1. /\ cycle \in Nat /\ i \in 1..NumMHSR[c] /\ p \in L1MHSRs /\ c \in Caches /\ "l2" \in Caches
      /\ \A s : L1Register(s, p) = s[c].mhsr[i]
  BY Numbers DEF CachesInv, Usable, Caches
<1>2. PICK i0 \in 1..NumMHSR["l2"] : \A j \in 1..NumMHSR["l2"] :
        Stays(j) \/ ~caches'["l2"].mhsr[j].busy \/ (j = i0 /\ caches'["l2"].mhsr[j].resolved < resolved)
  BY DEF TakesOne
<1>3. ASSUME NEW j \in Pending'
      PROVE  /\ j \in 1..NumMHSR["l2"]
             /\ \/ Stays(j) /\ j \in Pending
                \/ ~Stays(j) /\ j = i0 /\ caches'["l2"].mhsr[j].resolved < resolved
  <2>1. j \in 1..NumMHSR["l2"] /\ caches'["l2"].mhsr[j].busy /\ caches'["l2"].mhsr[j].resolved >= cycle
    BY <1>3 DEF Pending
  <2>2. Stays(j) => j \in Pending
    BY <2>1 DEF Pending
  <2> QED
    BY <2>1, <2>2, <1>2
<1>4. f \in [Pending -> L1MHSRs] /\ IsInjective(f)
  BY DEF Covers, Injection
<1>5. ASSUME NEW j \in Pending PROVE f[j] # p
  <2>1. L1Register(caches, f[j]).busy /\ caches["l2"].mhsr[j].resolved < L1Register(caches, f[j]).resolved
    BY DEF Covers
  <2>2. j \in 1..NumMHSR["l2"] /\ caches["l2"].mhsr[j].resolved >= cycle
    BY DEF Pending
  <2>3. caches["l2"].mhsr[j].resolved \in Nat /\ caches[c].mhsr[i].resolved \in Nat
    BY <2>2, <1>1, RegisterTypes
  <2>4. ~caches[c].mhsr[i].busy \/ caches[c].mhsr[i].resolved < cycle
    BY DEF Usable
  <2>5. ASSUME f[j] = p PROVE FALSE
    <3>1. L1Register(caches, f[j]) = caches[c].mhsr[i]
      BY <2>5, <1>1
    <3> HIDE DEF p
    <3> QED
      BY <3>1, <2>1, <2>2, <2>3, <2>4, <1>1
  <2> QED
    BY <2>5
<1>6. PICK g : g = [j \in Pending' |-> IF Stays(j) THEN f[j] ELSE p]
  OBVIOUS
<1>7. g \in Injection(Pending', L1MHSRs)
  <2> HIDE DEF p, Stays
  <2>1. g \in [Pending' -> L1MHSRs]
    BY <1>1, <1>3, <1>4, <1>6
  <2>2. ASSUME NEW a \in Pending', NEW b \in Pending', g[a] = g[b] PROVE a = b
    <3>1. CASE Stays(a) /\ Stays(b)
      BY <3>1, <2>2, <1>3, <1>4, <1>6 DEF IsInjective
    <3>2. CASE ~Stays(a) /\ ~Stays(b)
      BY <3>2, <1>3
    <3>3. CASE Stays(a) /\ ~Stays(b)
      BY <3>3, <2>2, <1>3, <1>5, <1>6
    <3>4. CASE ~Stays(a) /\ Stays(b)
      BY <3>4, <2>2, <1>3, <1>5, <1>6
    <3> QED
      BY <3>1, <3>2, <3>3, <3>4
  <2> QED
    BY <2>1, <2>2 DEF Injection, IsInjective
<1>8. ASSUME NEW j \in Pending'
      PROVE  /\ L1Register(caches', g[j]).busy
             /\ caches'["l2"].mhsr[j].resolved < L1Register(caches', g[j]).resolved
  <2>1. CASE ~Stays(j)
    <3>1. g[j] = p /\ caches'["l2"].mhsr[j].resolved < resolved
      BY <2>1, <1>3, <1>6
    <3>2. caches'[c].mhsr[i] = [busy |-> TRUE, resolved |-> resolved, line |-> line]
      BY <1>1, RegisterTypes DEF TakesRegister
    <3>3. L1Register(caches', g[j]) = [busy |-> TRUE, resolved |-> resolved, line |-> line]
      BY <3>1, <3>2, <1>1
    <3> HIDE DEF Stays, p
    <3> QED
      BY <3>1, <3>3
  <2>2. CASE Stays(j)
    <3>1. g[j] = f[j] /\ j \in Pending /\ f[j] \in L1MHSRs /\ f[j] # p
      BY <2>2, <1>3, <1>4, <1>5, <1>6
    <3>2. PICK d \in L1s : \E m \in 1..NumMHSR[d] : f[j] = NumberOf(d, m)
      BY <3>1, Numbers
    <3>3. PICK m \in 1..NumMHSR[d] : f[j] = NumberOf(d, m)
      BY <3>2
    <3>4. L1Register(caches, f[j]) = caches[d].mhsr[m] /\ L1Register(caches', f[j]) = caches'[d].mhsr[m]
      BY <3>3, Numbers
    <3>5. caches'[d].mhsr[m] = caches[d].mhsr[m]
      <4>1. CASE d # c
        BY <4>1 DEF TakesRegister
      <4>2. CASE d = c
        <5>1. m # i
          BY <4>2, <3>1, <3>3
        <5> QED
          BY <4>2, <5>1, <1>1, RegisterTypes DEF TakesRegister
      <4> QED
        BY <4>1, <4>2
    <3>6. L1Register(caches, f[j]).busy /\ caches["l2"].mhsr[j].resolved < L1Register(caches, f[j]).resolved
      BY <3>1 DEF Covers
    <3> QED
      BY <2>2, <3>1, <3>4, <3>5, <3>6
  <2> QED
    BY <2>1, <2>2
<1>9. Covers(g)'
  BY <1>7, <1>8 DEF Covers
<1> QED
  BY <1>9

LEMMA NextLevelInitially ==
  ASSUME Init
  PROVE  NextLevelInv
<1>1. CachesInv /\ rejected = FALSE
  BY CachesInitially DEF Init
<1>2. Pending = {}
  <2> SUFFICES ASSUME NEW j \in 1..NumMHSR["l2"] PROVE ~caches["l2"].mhsr[j].busy
    BY DEF Pending
  <2>1. caches["l2"].mhsr = [i \in 1..NumMHSR["l2"] |-> FreeMHSR]
    BY DEF Init, Caches
  <2> QED
    BY <2>1 DEF FreeMHSR
<1>3. PICK f : f = [j \in {} |-> 0]
  OBVIOUS
<1>4. Covers(f)
  BY <1>2, <1>3 DEF Covers, Injection, IsInjective
<1> QED
  BY <1>1, <1>4 DEF NextLevelInv

LEMMA NextLevelAccess ==
  ASSUME NumMHSR["l2"] >= NumMHSR["ic"] + NumMHSR["dc"], NextLevelInv,
         NEW c \in L1s, NEW line \in Lines, NEW isStore \in BOOLEAN, L1Access(c, line, isStore)
  PROVE  NextLevelInv'
<1>1. PICK f : Covers(f)
  BY DEF NextLevelInv
<1>2. CachesInv /\ CachesInv' /\ Accesses(c, line) /\ cycle' = cycle /\ cycle \in Nat
  BY AccessKeeps DEF NextLevelInv, L1Access, CachesInv
<1>3. CASE /\ rejected' = FALSE /\ caches'["l2"] = caches["l2"]
           /\ \A d \in L1s : \A i \in 1..NumMHSR[d] :
                \/ caches'[d].mhsr[i] = caches[d].mhsr[i]
                \/ caches[d].mhsr[i].resolved <= cycle
  <2>1. cycle' >= cycle
    BY <1>2
  <2>2. \E g : Covers(g)'
    BY <1>1, <1>2, <1>3, <2>1, CoveredStill
  <2> QED
    BY <1>2, <1>3, <2>2 DEF NextLevelInv
<1>4. ASSUME NEW i \in Usable(caches, c, cycle), NEW resolved \in Nat,
             TakesRegister(c, i, line, resolved),
             \/ rejected' = FALSE /\ TakesOne("l2", caches["l2"], caches'["l2"], TRUE, resolved)
             \/ rejected' = TRUE /\ Usable(caches, "l2", cycle) = {}
      PROVE  NextLevelInv'
  <2>1. Usable(caches, "l2", cycle) # {}
    <3>1. SUFFICES ASSUME Usable(caches, "l2", cycle) = {} PROVE Pending = 1..NumMHSR["l2"]
      <4>1. i \in 1..NumMHSR[c] /\ (~caches[c].mhsr[i].busy \/ caches[c].mhsr[i].resolved < cycle)
        BY DEF Usable
      <4>2. NumberOf(c, i) \in L1MHSRs /\ L1Register(caches, NumberOf(c, i)) = caches[c].mhsr[i]
        BY <4>1, Numbers
      <4>3. ASSUME NEW j \in Pending PROVE f[j] # NumberOf(c, i)
        <5>1. L1Register(caches, f[j]).busy /\ caches["l2"].mhsr[j].resolved < L1Register(caches, f[j]).resolved
          BY <1>1 DEF Covers
        <5>2. j \in 1..NumMHSR["l2"] /\ caches["l2"].mhsr[j].resolved >= cycle
          BY DEF Pending
        <5>3. caches["l2"].mhsr[j].resolved \in Nat /\ caches[c].mhsr[i].resolved \in Nat
          BY <1>2, <4>1, <5>2, RegisterTypes DEF Caches
        <5>4. ASSUME f[j] = NumberOf(c, i) PROVE FALSE
          <6>1. L1Register(caches, f[j]) = caches[c].mhsr[i]
            BY <4>2, <5>4
          <6> QED
            BY <6>1, <4>1, <5>1, <5>2, <5>3, <1>2
        <5> QED
          BY <5>4
      <4>4. Pending # 1..NumMHSR["l2"]
        BY <1>1, <4>2, <4>3, L2HasRoom
      <4> QED
        BY <4>4
    <3>2. ASSUME NEW j \in 1..NumMHSR["l2"] PROVE j \in Pending
      <4>1. caches["l2"].mhsr[j].busy /\ ~(caches["l2"].mhsr[j].resolved < cycle)
        BY <3>1 DEF Usable
      <4>2. caches["l2"].mhsr[j].resolved \in Nat
        BY <1>2, RegisterTypes DEF Caches
      <4> QED
        BY <4>1, <4>2, <1>2 DEF Pending
    <3> QED
      BY <3>2 DEF Pending
  <2>2. rejected' = FALSE /\ TakesOne("l2", caches["l2"], caches'["l2"], TRUE, resolved)
    BY <1>4, <2>1
  <2>3. \E g : Covers(g)'
    BY <1>1, <1>2, <1>4, <2>2, CoveredAnew
  <2> QED
    BY <1>2, <2>2, <2>3 DEF NextLevelInv
<1> QED
  BY <1>2, <1>3, <1>4 DEF Accesses

LEMMA NextLevelTick ==
  ASSUME NextLevelInv, Tick \/ UNCHANGED vars
  PROVE  NextLevelInv'
<1>1. PICK f : Covers(f)
  BY DEF NextLevelInv
<1>2. CachesInv /\ CachesInv' /\ cycle' >= cycle /\ caches' = caches /\ rejected' = FALSE
  <2>1. CachesInv /\ CachesInv'
    BY CachesStep DEF NextLevelInv, Next
  <2> QED
    BY <2>1 DEF NextLevelInv, Tick, vars, CachesInv
<1>3. \E g : Covers(g)'
  BY <1>1, <1>2, CoveredStill
<1> QED
  BY <1>2, <1>3 DEF NextLevelInv

\* "Cannot miss in MHSR in the next level if the next level has as many or
\* more MHSRs as this level" (Access()) holds when L2 has as many as both L1s
\* have together: then it never refuses an access of theirs, although its
\* registers are taken by write-backs too and freed at other times.
THEOREM CacheNextLevel ==
  ASSUME NumMHSR["l2"] >= NumMHSR["ic"] + NumMHSR["dc"]
  PROVE  Spec => []NextLevelAccepts
<1>1. Init => NextLevelInv
  BY NextLevelInitially
<1>2. NextLevelInv /\ [Next]_vars => NextLevelInv'
  <2> SUFFICES ASSUME NextLevelInv, [Next]_vars PROVE NextLevelInv'
    OBVIOUS
  <2>1. CASE DCLoad
    <3>1. PICK line \in Lines : L1Access("dc", line, FALSE)
      BY <2>1 DEF DCLoad
    <3> QED
      BY <3>1, NextLevelAccess DEF L1s
  <2>2. CASE DCStore
    <3>1. PICK line \in Lines : L1Access("dc", line, TRUE)
      BY <2>2 DEF DCStore
    <3> QED
      BY <3>1, NextLevelAccess DEF L1s
  <2>3. CASE ICFetch
    <3>1. PICK line \in Lines : L1Access("ic", line, FALSE)
      BY <2>3 DEF ICFetch
    <3> QED
      BY <3>1, NextLevelAccess DEF L1s
  <2>4. CASE Tick \/ UNCHANGED vars
    BY <2>4, NextLevelTick
  <2> QED
    BY <2>1, <2>2, <2>3, <2>4 DEF Next
<1>3. NextLevelInv => NextLevelAccepts
  BY DEF NextLevelInv, NextLevelAccepts
<1> QED
  BY <1>1, <1>2, <1>3, PTL DEF Spec
=============================================================================
