-------------------------- MODULE IssueQueueProofs --------------------------
(***************************************************************************)
(* Theorems about IssueQueue.tla, for every size of the queue, every       *)
(* number and depth of lanes and every program.                            *)
(***************************************************************************)
EXTENDS IssueQueue, FiniteSetTheorems, TLAPS

-----------------------------------------------------------------------------
(* Types.                                                                  *)

NoTag == Tags \cup {None}
Insn == [tag : Tags, op : Ops, srcs : SUBSET Tags, completed : BOOLEAN]
Entry == [valid : BOOLEAN, tag : NoTag, waits : SUBSET Tags, lanes : SUBSET LaneIDs,
          prev : Slots \cup {None}, next : Slots \cup {None}]
Queue == [q : [Slots -> Entry], fl : [Slots -> Slots], fl_head : Slots, fl_tail : Slots,
          fl_length : 0 .. IQSize, oldest : Slots \cup {None},
          youngest : Slots \cup {None}, part_next : Slots]
Stages == {f \in [LaneIDs -> Seq(NoTag)] : \A l \in LaneIDs : f[l] \in [1 .. Depth[l] -> NoTag]}
Core == [iq : Queue, rr : [LaneIDs -> NoTag], ex : Stages, wb : [LaneIDs -> NoTag],
         ready : SUBSET Tags, written : SUBSET Tags, stalled : SUBSET Tags,
         al : Seq(Insn), ptr : [FUs -> LaneIDs]]

-----------------------------------------------------------------------------
(* The invariant.                                                          *)

(* The free list: the k-th free slot from its head, and that it holds each *)
(* invalid slot once.                                                      *)
Free(q, k) == q.fl[(q.fl_head + k) % IQSize]
FreeListOK(q) ==
  /\ q.fl_tail = (q.fl_head + q.fl_length) % IQSize
  /\ \A k \in 0 .. q.fl_length - 1 : ~q.q[Free(q, k)].valid
  /\ \A j, k \in 0 .. q.fl_length - 1 : Free(q, j) = Free(q, k) => j = k
  /\ \A i \in Slots : ~q.q[i].valid => \E k \in 0 .. q.fl_length - 1 : Free(q, k) = i

(* The age list: each valid slot is linked to the next and the previous    *)
(* ones by the places R of their tags.                                     *)
Valid(q, i) == i \in Slots /\ q.q[i].valid
Comes(q, R, i, j) == R[q.q[i].tag] < R[q.q[j].tag]
AgeListOK(q, R) ==
  /\ \A i, j \in Slots : Valid(q, i) /\ Valid(q, j) /\ i # j
                         => Comes(q, R, i, j) \/ Comes(q, R, j, i)
  /\ \A i \in Slots : Valid(q, i) =>
       /\ q.q[i].next # None =>
            Valid(q, q.q[i].next) /\ Comes(q, R, i, q.q[i].next)
       /\ q.q[i].prev # None =>
            Valid(q, q.q[i].prev) /\ Comes(q, R, q.q[i].prev, i)
  /\ \A i, j \in Slots : Valid(q, i) /\ Valid(q, j) /\ Comes(q, R, i, j) =>
       /\ q.q[i].next # None /\ ~Comes(q, R, j, q.q[i].next)
       /\ q.q[j].prev # None /\ ~Comes(q, R, q.q[j].prev, i)
  /\ q.oldest # None => Valid(q, q.oldest)
  /\ q.youngest # None => Valid(q, q.youngest)
  /\ \A i \in Slots : Valid(q, i) => /\ q.oldest # None /\ ~Comes(q, R, i, q.oldest)
                                     /\ q.youngest # None /\ ~Comes(q, R, q.youngest, i)

(* Where a tag is: in a slot, in the d-th pipeline register of a lane, in  *)
(* the Load Queue, or completed.                                           *)
At(s, l, d) == IF d = 1 THEN s.rr[l] ELSE IF d = Depth[l] + 2 THEN s.wb[l] ELSE s.ex[l][d - 1]
Registers(l) == 1 .. Depth[l] + 2
InSlot(s, i, t) == s.iq.q[i].valid /\ s.iq.q[i].tag = t
InQueue(s, t) == \E i \in Slots : InSlot(s, i, t)
InLane(s, t) == \E l \in LaneIDs : \E d \in Registers(l) : At(s, l, d) = t
Done(s, t) == \E k \in DOMAIN s.al : s.al[k].tag = t /\ s.al[k].completed

OnePlace(s, t) ==
  /\ \A i, j \in Slots : InSlot(s, i, t) /\ InSlot(s, j, t) => i = j
  /\ \A l, m \in LaneIDs : \A d \in Registers(l), e \in Registers(m) :
       At(s, l, d) = t /\ At(s, m, e) = t => l = m /\ d = e
  /\ t \in TagsOf(s) <=> (InQueue(s, t) \/ InLane(s, t) \/ t \in s.stalled \/ Done(s, t))
  /\ InQueue(s, t) => ~InLane(s, t) /\ t \notin s.stalled /\ ~Done(s, t)
  /\ InLane(s, t) => t \notin s.stalled /\ ~Done(s, t)
  /\ t \in s.stalled => ~Done(s, t)

(* The producer t has not woken its dependents yet.                        *)
Asleep(s, t, load) ==
  \/ InQueue(s, t) \/ t \in s.stalled
  \/ \E l \in LaneIDs : \E d \in 1 .. Depth[l] + 1 :
       At(s, l, d) = t /\ (load \/ d <= Depth[l])
(* Its value is there, or will be a stage ahead of who reads it.           *)
InTime(s, t, load) ==
  t \in s.written \/ (~load /\ \E l \in LaneIDs : At(s, l, Depth[l] + 1) = t)

Wakes(s, t) ==
  t \in TagsOf(s) /\ HasDest(InsnOf(s, t)) =>
    /\ t \in s.ready <=> ~Asleep(s, t, IsLoad(InsnOf(s, t)))
    /\ t \in s.ready => InTime(s, t, IsLoad(InsnOf(s, t)))

Place(s) == [t \in Tags |-> IF t \in TagsOf(s) THEN Position(s, t) ELSE 0]

(* The Active List: tags differ, and a source is an older instruction's or *)
(* has been written for good.                                              *)
ActiveListOK(s) ==
  /\ \A j, k \in DOMAIN s.al : s.al[j].tag = s.al[k].tag => j = k
  /\ \A k \in DOMAIN s.al : \A t \in s.al[k].srcs :
       IF t \in TagsOf(s) THEN Position(s, t) < k /\ HasDest(InsnOf(s, t))
                          ELSE t \in s.ready /\ t \in s.written

Consumers(s) ==
  /\ \A i \in Slots : s.iq.q[i].valid =>
       s.iq.q[i].waits = InsnOf(s, s.iq.q[i].tag).srcs \ s.ready
  /\ \A l \in LaneIDs : s.rr[l] # None => InsnOf(s, s.rr[l]).srcs \subseteq s.ready

CoreOK(s) ==
  /\ s \in Core
  /\ FreeListOK(s.iq) /\ AgeListOK(s.iq, Place(s))
  /\ \A t \in Tags : OnePlace(s, t) /\ Wakes(s, t)
  /\ \A i \in Slots : s.iq.q[i].valid => s.iq.q[i].tag \in Tags
  /\ ActiveListOK(s) /\ Consumers(s)

-----------------------------------------------------------------------------
(* Sizes and fields.                                                       *)

LEMMA Sizes ==
  /\ IQSize \in Nat \ {0} /\ Lanes \in Nat \ {0} /\ ActiveSize \in Nat
  /\ NumParts \in Nat \ {0}
  /\ \A l \in LaneIDs : Depth[l] \in 1 .. 16 /\ Depth[l] \in Nat
  /\ None \notin Tags /\ None \notin Slots /\ None \notin LaneIDs /\ Tags \subseteq Nat
  /\ LaneIDs \subseteq Nat
<1>1. /\ IQSize \in Nat \ {0} /\ Lanes \in Nat \ {0} /\ ActiveSize \in Nat
      /\ NumParts \in Nat \ {0}
  BY IssueQueueAssumption
<1>2. \A l \in LaneIDs : Depth[l] \in 1 .. 16
  BY IssueQueueAssumption
<1>3. Tags \subseteq Nat
  BY IssueQueueAssumption
<1> QED
  BY <1>1, <1>2, <1>3 DEF None, Slots, LaneIDs

LEMMA CoreIs ==
  ASSUME NEW s \in Core
  PROVE  /\ s.iq \in Queue /\ s.rr \in [LaneIDs -> NoTag] /\ s.wb \in [LaneIDs -> NoTag]
         /\ s.ex \in [LaneIDs -> Seq(NoTag)]
         /\ \A l \in LaneIDs : s.ex[l] \in [1 .. Depth[l] -> NoTag]
         /\ s.ready \in SUBSET Tags /\ s.written \in SUBSET Tags /\ s.stalled \in SUBSET Tags
         /\ s.al \in Seq(Insn) /\ s.ptr \in [FUs -> LaneIDs]
BY DEF Core, Stages

LEMMA QueueIs ==
  ASSUME NEW q \in Queue
  PROVE  /\ q.q \in [Slots -> Entry] /\ q.fl \in [Slots -> Slots] /\ q.fl_head \in Slots
         /\ q.fl_tail \in Slots /\ q.fl_length \in 0 .. IQSize
         /\ q.oldest \in Slots \cup {None} /\ q.youngest \in Slots \cup {None}
         /\ q.part_next \in Slots
         /\ \A i \in Slots :
              /\ q.q[i] \in Entry /\ q.q[i].valid \in BOOLEAN /\ q.q[i].tag \in NoTag
              /\ q.q[i].waits \in SUBSET Tags /\ q.q[i].lanes \in SUBSET LaneIDs
              /\ q.q[i].prev \in Slots \cup {None} /\ q.q[i].next \in Slots \cup {None}
BY DEF Queue, Entry

LEMMA WrapIs ==
  ASSUME NEW a \in Slots, NEW k \in 0 .. IQSize
  PROVE  /\ (a + k) % IQSize = IF a + k < IQSize THEN a + k ELSE a + k - IQSize
         /\ (a + k) % IQSize \in Slots
BY Sizes DEF Slots

LEMMA WrapInjective ==
  ASSUME NEW a \in Slots, NEW j \in 0 .. IQSize - 1, NEW k \in 0 .. IQSize - 1,
         (a + j) % IQSize = (a + k) % IQSize
  PROVE  j = k
<1>1. j \in 0 .. IQSize /\ k \in 0 .. IQSize
  BY Sizes
<1>2. /\ (a + j) % IQSize = IF a + j < IQSize THEN a + j ELSE a + j - IQSize
      /\ (a + k) % IQSize = IF a + k < IQSize THEN a + k ELSE a + k - IQSize
  BY <1>1, WrapIs
<1>3. a + j = a + k \/ a + j = a + k - IQSize \/ a + j - IQSize = a + k
  BY <1>2, Sizes DEF Slots
<1> QED
  BY <1>3, Sizes DEF Slots

LEMMA WrapNext ==
  ASSUME NEW a \in Slots, NEW k \in 0 .. IQSize - 1
  PROVE  (((a + 1) % IQSize) + k) % IQSize = (a + (k + 1)) % IQSize
<1>1. 1 \in 0 .. IQSize /\ k + 1 \in 0 .. IQSize /\ k \in 0 .. IQSize
  BY Sizes
<1>2. PICK b \in Slots : b = (a + 1) % IQSize
  BY <1>1, WrapIs
<1>3. b = IF a + 1 < IQSize THEN a + 1 ELSE a + 1 - IQSize
  BY <1>1, <1>2, WrapIs
<1>4. (b + k) % IQSize = IF b + k < IQSize THEN b + k ELSE b + k - IQSize
  BY <1>1, WrapIs
<1>5. (a + (k + 1)) % IQSize = IF a + (k + 1) < IQSize THEN a + (k + 1) ELSE a + (k + 1) - IQSize
  BY <1>1, WrapIs
<1> QED
  BY <1>2, <1>3, <1>4, <1>5, Sizes DEF Slots

-----------------------------------------------------------------------------
(* The queue.                                                              *)

LEMMA FreeType ==
  ASSUME NEW q \in Queue, NEW k \in 0 .. IQSize
  PROVE  Free(q, k) \in Slots
BY QueueIs, WrapIs DEF Free

(* While a slot is valid there is room for it in the free list.            *)
LEMMA FreeListHasRoom ==
  ASSUME NEW q \in Queue, FreeListOK(q), NEW i \in Slots, q.q[i].valid
  PROVE  q.fl_length < IQSize
<1>0. q.fl_length \in 0 .. IQSize
  BY QueueIs
<1> SUFFICES ASSUME q.fl_length = IQSize PROVE FALSE
  BY <1>0, Sizes
<1> DEFINE f == [k \in 0 .. IQSize - 1 |-> Free(q, k)]
<1>1. f \in [0 .. IQSize - 1 -> Slots \ {i}]
  BY FreeType, Sizes DEF FreeListOK
<1>2. \A j, k \in 0 .. IQSize - 1 : f[j] = f[k] => j = k
  BY DEF FreeListOK
<1>3. IsFiniteSet(Slots) /\ Cardinality(Slots) = IQSize
  BY FS_Interval, Sizes DEF Slots
<1>4. IsFiniteSet(Slots \ {i}) /\ Cardinality(Slots \ {i}) = IQSize - 1
  BY <1>3, FS_RemoveElement
<1>5. PICK j, k \in 0 .. IQSize - 1 : j # k /\ f[j] = f[k]
  <2>1. Cardinality(Slots) > Cardinality(Slots \ {i})
    BY <1>3, <1>4, Sizes
  <2>2. f \in [Slots -> Slots \ {i}]
    BY <1>1 DEF Slots
  <2> HIDE DEF f
  <2>3. \E j, k \in Slots : j # k /\ f[j] = f[k]
    BY <1>3, <1>4, <2>1, <2>2, FS_PigeonHole
  <2> QED
    BY <2>3 DEF Slots
<1> QED
  BY <1>2, <1>5

(* The age list is about links and order only.                             *)
LEMMA AgeListSame ==
  ASSUME NEW q, NEW x, NEW R, NEW T, AgeListOK(q, R),
         x.oldest = q.oldest, x.youngest = q.youngest,
         \A i \in Slots : /\ x.q[i].valid = q.q[i].valid
                          /\ x.q[i].next = q.q[i].next /\ x.q[i].prev = q.q[i].prev,
         \A i, j \in Slots : Valid(q, i) /\ Valid(q, j) =>
                               (Comes(x, T, i, j) <=> Comes(q, R, i, j))
  PROVE  AgeListOK(x, T)
<1>1. \A i : Valid(x, i) <=> Valid(q, i)
  BY DEF Valid
<1>2. \A i : Valid(q, i) => /\ i \in Slots /\ x.q[i].next = q.q[i].next
                            /\ x.q[i].prev = q.q[i].prev
  BY DEF Valid
<1>3. \A i, j : Valid(q, i) /\ Valid(q, j) => (Comes(x, T, i, j) <=> Comes(q, R, i, j))
  BY <1>2
<1>4. \A i, j \in Slots : Valid(x, i) /\ Valid(x, j) /\ i # j
                          => Comes(x, T, i, j) \/ Comes(x, T, j, i)
  BY <1>1, <1>3 DEF AgeListOK
<1>5. ASSUME NEW i \in Slots, Valid(x, i)
      PROVE  /\ x.q[i].next # None =>
                  Valid(x, x.q[i].next) /\ Comes(x, T, i, x.q[i].next)
             /\ x.q[i].prev # None =>
                  Valid(x, x.q[i].prev) /\ Comes(x, T, x.q[i].prev, i)
  <2>1. Valid(q, i) /\ x.q[i].next = q.q[i].next /\ x.q[i].prev = q.q[i].prev
    BY <1>1, <1>2, <1>5
  <2>2. /\ q.q[i].next # None => Valid(q, q.q[i].next) /\ Comes(q, R, i, q.q[i].next)
        /\ q.q[i].prev # None => Valid(q, q.q[i].prev) /\ Comes(q, R, q.q[i].prev, i)
    BY <2>1 DEF AgeListOK
  <2> QED
    BY <1>1, <1>3, <2>1, <2>2
<1>6. ASSUME NEW i \in Slots, NEW j \in Slots, Valid(x, i), Valid(x, j), Comes(x, T, i, j)
      PROVE  /\ x.q[i].next # None /\ ~Comes(x, T, j, x.q[i].next)
             /\ x.q[j].prev # None /\ ~Comes(x, T, x.q[j].prev, i)
  <2>1. /\ Valid(q, i) /\ Valid(q, j) /\ Comes(q, R, i, j)
        /\ x.q[i].next = q.q[i].next /\ x.q[j].prev = q.q[j].prev
    BY <1>1, <1>2, <1>3, <1>6
  <2>2. /\ q.q[i].next # None /\ ~Comes(q, R, j, q.q[i].next)
        /\ q.q[j].prev # None /\ ~Comes(q, R, q.q[j].prev, i)
    BY <2>1 DEF AgeListOK
  <2>3. Valid(q, q.q[i].next) /\ Valid(q, q.q[j].prev)
    BY <2>1, <2>2 DEF AgeListOK
  <2> QED
    BY <1>3, <2>1, <2>2, <2>3
<1>7. /\ x.oldest # None => Valid(x, x.oldest)
      /\ x.youngest # None => Valid(x, x.youngest)
  BY <1>1 DEF AgeListOK
<1>8. ASSUME NEW i \in Slots, Valid(x, i)
      PROVE  /\ x.oldest # None /\ ~Comes(x, T, i, x.oldest)
             /\ x.youngest # None /\ ~Comes(x, T, x.youngest, i)
  <2>1. Valid(q, i)
    BY <1>1, <1>8
  <2>2. /\ q.oldest # None /\ ~Comes(q, R, i, q.oldest)
        /\ q.youngest # None /\ ~Comes(q, R, q.youngest, i)
    BY <2>1 DEF AgeListOK
  <2>3. Valid(q, q.oldest) /\ Valid(q, q.youngest)
    BY <2>2 DEF AgeListOK
  <2> QED
    BY <1>3, <2>1, <2>2, <2>3
<1> QED
  BY <1>4, <1>5, <1>6, <1>7, <1>8 DEF AgeListOK

(* x is q without slot i.                                                  *)
Removed(q, i, x) ==
  /\ \A j \in Slots : x.q[j].valid <=> (q.q[j].valid /\ j # i)
  /\ \A j \in Slots \ {i} :
       /\ x.q[j].tag = q.q[j].tag /\ x.q[j].waits = q.q[j].waits
       /\ x.q[j].lanes = q.q[j].lanes
       /\ x.q[j].next = (IF j = q.q[i].prev THEN q.q[i].next ELSE q.q[j].next)
       /\ x.q[j].prev = (IF j = q.q[i].next THEN q.q[i].prev ELSE q.q[j].prev)
  /\ x.oldest = (IF q.oldest = i THEN q.q[i].next ELSE q.oldest)
  /\ x.youngest = (IF q.youngest = i THEN q.q[i].prev ELSE q.youngest)
  /\ x.fl = [k \in Slots |-> IF k = q.fl_tail THEN i ELSE q.fl[k]]
  /\ x.fl_head = q.fl_head /\ x.fl_tail = (q.fl_tail + 1) % IQSize
  /\ x.fl_length = q.fl_length + 1 /\ x.part_next = q.part_next

LEMMA RemovedIs ==
  ASSUME NEW q \in Queue, FreeListOK(q), NEW i \in Slots, q.q[i].valid,
         NEW x, x = RemoveEntry(q, i)
  PROVE  x \in Queue /\ Removed(q, i, x)
<1>1. q.fl_length \in 0 .. IQSize - 1 /\ 1 \in 0 .. IQSize
  BY FreeListHasRoom, QueueIs, Sizes
<1>2. PICK p : p = q.q[i].prev
  OBVIOUS
<1>3. PICK n : n = q.q[i].next
  OBVIOUS
<1>4. PICK unlinked : unlinked =
         [j \in Slots |-> IF j = i THEN NoEntry
                          ELSE [q.q[j] EXCEPT !.next = IF j = p THEN n ELSE @,
                                              !.prev = IF j = n THEN p ELSE @]]
  OBVIOUS
<1>5. p \in Slots \cup {None} /\ n \in Slots \cup {None} /\ q.q \in [Slots -> Entry]
  BY <1>2, <1>3, QueueIs
<1>6. NoEntry \in Entry /\ NoEntry.valid = FALSE
  BY DEF NoEntry, Entry, NoTag
<1>7. ASSUME NEW j \in Slots
      PROVE  /\ unlinked[j] \in Entry
             /\ unlinked[j].valid <=> (q.q[j].valid /\ j # i)
             /\ j # i => /\ unlinked[j].tag = q.q[j].tag /\ unlinked[j].waits = q.q[j].waits
                         /\ unlinked[j].lanes = q.q[j].lanes
                         /\ unlinked[j].next = (IF j = p THEN n ELSE q.q[j].next)
                         /\ unlinked[j].prev = (IF j = n THEN p ELSE q.q[j].prev)
  <2>1. q.q[j] \in Entry
    BY <1>5
  <2>2. CASE j = i
    BY <1>4, <1>6, <2>2
  <2>3. CASE j # i
    <3>1. unlinked[j] = [q.q[j] EXCEPT !.next = IF j = p THEN n ELSE @,
                                       !.prev = IF j = n THEN p ELSE @]
      BY <1>4, <2>3
    <3> QED
      BY <1>5, <2>1, <2>3, <3>1 DEF Entry
  <2> QED
    BY <2>2, <2>3
<1>8. unlinked \in [Slots -> Entry]
  BY <1>4, <1>7
<1>9. PICK fl : fl = [k \in Slots |-> IF k = q.fl_tail THEN i ELSE q.fl[k]]
  OBVIOUS
<1>10. fl \in [Slots -> Slots] /\ fl = Put(q.fl, q.fl_tail, i)
  BY <1>9, QueueIs DEF Put
<1>11. x = [q EXCEPT !.q = unlinked, !.fl = fl, !.fl_tail = (@ + 1) % IQSize,
                     !.fl_length = @ + 1,
                     !.oldest = IF @ = i THEN n ELSE @,
                     !.youngest = IF @ = i THEN p ELSE @]
  BY <1>2, <1>3, <1>4, <1>10 DEF RemoveEntry
<1>12. (q.fl_tail + 1) % IQSize \in Slots /\ q.fl_length + 1 \in 0 .. IQSize
  <2>1. q.fl_tail \in Slots
    BY QueueIs
  <2>2. (q.fl_tail + 1) % IQSize \in Slots
    BY <1>1, <2>1, WrapIs
  <2>3. q.fl_length + 1 \in 0 .. IQSize
    BY <1>1, Sizes
  <2> QED
    BY <2>2, <2>3
<1>13. /\ x \in Queue /\ x.q = unlinked /\ x.fl = fl /\ x.fl_head = q.fl_head
       /\ x.fl_tail = (q.fl_tail + 1) % IQSize /\ x.fl_length = q.fl_length + 1
       /\ x.oldest = (IF q.oldest = i THEN n ELSE q.oldest)
       /\ x.youngest = (IF q.youngest = i THEN p ELSE q.youngest)
       /\ x.part_next = q.part_next
  BY <1>5, <1>8, <1>10, <1>11, <1>12, ZenonT(60) DEF Queue
<1>14. Removed(q, i, x)
  BY <1>2, <1>3, <1>7, <1>9, <1>13 DEF Removed
<1> QED
  BY <1>13, <1>14

LEMMA RemovedFreeList ==
  ASSUME NEW q \in Queue, FreeListOK(q), NEW i \in Slots, q.q[i].valid
  PROVE  FreeListOK(RemoveEntry(q, i))
<1>1. PICK x : x = RemoveEntry(q, i)
  OBVIOUS
<1>2. PICK n \in Nat : n = q.fl_length
  BY QueueIs, Sizes
<1>3. n \in 0 .. IQSize - 1 /\ n \in 0 .. IQSize /\ n + 1 - 1 = n
  BY <1>2, FreeListHasRoom, QueueIs, Sizes
<1>4. q.fl_head \in Slots /\ q.fl_tail = (q.fl_head + n) % IQSize
  BY <1>2, QueueIs DEF FreeListOK
<1>5. /\ x.fl_head = q.fl_head /\ x.fl_length = n + 1 /\ x.fl_tail = (q.fl_tail + 1) % IQSize
      /\ x.fl = [k \in Slots |-> IF k = q.fl_tail THEN i ELSE q.fl[k]]
      /\ \A j \in Slots : x.q[j].valid <=> (q.q[j].valid /\ j # i)
  <2>1. Removed(q, i, x)
    BY <1>1, RemovedIs
  <2> QED
    BY <1>2, <2>1 DEF Removed
<1>6. ASSUME NEW k \in 0 .. n
      PROVE  Free(x, k) = IF k = n THEN i ELSE Free(q, k)
  <2>1. k \in 0 .. IQSize - 1 /\ k \in 0 .. IQSize
    BY <1>3, Sizes
  <2>2. (q.fl_head + k) % IQSize = q.fl_tail => k = n
    BY <1>3, <1>4, <2>1, WrapInjective
  <2>3. (q.fl_head + k) % IQSize \in Slots
    BY <1>4, <2>1, WrapIs
  <2> QED
    BY <1>4, <1>5, <2>2, <2>3 DEF Free
<1>7. x.fl_tail = (x.fl_head + x.fl_length) % IQSize
  <2>1. PICK t \in Slots : t = q.fl_tail
    BY QueueIs
  <2>2. 1 \in 0 .. IQSize /\ n + 1 \in 0 .. IQSize
    BY <1>3, Sizes
  <2>3. t = IF q.fl_head + n < IQSize THEN q.fl_head + n ELSE q.fl_head + n - IQSize
    BY <1>3, <1>4, <2>1, WrapIs
  <2>4. (t + 1) % IQSize = IF t + 1 < IQSize THEN t + 1 ELSE t + 1 - IQSize
    BY <2>2, WrapIs
  <2>5. (q.fl_head + (n + 1)) % IQSize = IF q.fl_head + (n + 1) < IQSize THEN q.fl_head + (n + 1)
                                         ELSE q.fl_head + (n + 1) - IQSize
    BY <1>4, <2>2, WrapIs
  <2>6. (t + 1) % IQSize = (q.fl_head + (n + 1)) % IQSize
    BY <1>3, <1>4, <2>3, <2>4, <2>5, Sizes DEF Slots
  <2> QED
    BY <1>5, <2>1, <2>6
<1>8. \A k \in 0 .. n - 1 : k \in 0 .. n /\ k # n /\ Free(q, k) \in Slots
  <2> TAKE k \in 0 .. n - 1
  <2>1. k \in 0 .. n /\ k # n /\ k \in 0 .. IQSize
    BY <1>3, Sizes
  <2> QED
    BY <2>1, FreeType
<1>9. \A k \in 0 .. n : k = n \/ k \in 0 .. n - 1
  BY <1>3
<1>10. \A k \in 0 .. n - 1 : ~q.q[Free(q, k)].valid
  BY <1>2 DEF FreeListOK
<1>11. \A k \in 0 .. n : ~x.q[Free(x, k)].valid
  BY <1>5, <1>6, <1>8, <1>9, <1>10
<1>12. \A j, k \in 0 .. n : Free(x, j) = Free(x, k) => j = k
  <2> TAKE j, k \in 0 .. n
  <2>1. CASE j = n \/ k = n
    BY <1>6, <1>9, <1>10, <2>1
  <2>2. CASE j # n /\ k # n
    BY <1>2, <1>6, <1>9, <2>2 DEF FreeListOK
  <2> QED
    BY <2>1, <2>2
<1>13. ASSUME NEW j \in Slots, ~x.q[j].valid
       PROVE  \E k \in 0 .. n : Free(x, k) = j
  <2>1. CASE j = i
    BY <1>3, <1>6, <2>1
  <2>2. CASE j # i
    <3>1. PICK k \in 0 .. n - 1 : Free(q, k) = j
      BY <1>2, <1>5, <1>13, <2>2 DEF FreeListOK
    <3> QED
      BY <1>6, <1>8, <3>1
  <2> QED
    BY <2>1, <2>2
<1> QED
  BY <1>1, <1>3, <1>5, <1>7, <1>11, <1>12, <1>13 DEF FreeListOK

LEMMA RemovedAgeList ==
  ASSUME NEW q \in Queue, FreeListOK(q), NEW i \in Slots, q.q[i].valid,
         NEW R, AgeListOK(q, R), \A j \in Slots : q.q[j].valid => R[q.q[j].tag] \in Nat
  PROVE  AgeListOK(RemoveEntry(q, i), R)
<1>1. PICK x : x = RemoveEntry(q, i)
  OBVIOUS
<1>2. PICK p : p = q.q[i].prev
  OBVIOUS
<1>3. PICK n : n = q.q[i].next
  OBVIOUS
<1>4. PICK r : r = [j \in Slots |-> R[q.q[j].tag]]
  OBVIOUS
<1>5. x \in Queue /\ Removed(q, i, x)
  BY <1>1, RemovedIs
<1>6. \A j \in Slots : Valid(q, j) => r[j] \in Nat
  BY <1>4 DEF Valid
<1>7. \A j, k \in Slots : Comes(q, R, j, k) <=> r[j] < r[k]
  BY <1>4 DEF Comes
<1>8. \A j : Valid(x, j) <=> (Valid(q, j) /\ j # i)
  BY <1>5 DEF Removed, Valid
<1>9. \A j, k \in Slots : Valid(x, j) /\ Valid(x, k) => (Comes(x, R, j, k) <=> r[j] < r[k])
  BY <1>4, <1>5, <1>8 DEF Removed, Valid, Comes
<1>10. /\ p \in Slots \cup {None} /\ n \in Slots \cup {None} /\ None \notin Slots
       /\ Valid(q, i) /\ \A j : Valid(q, j) => j \in Slots
  BY <1>2, <1>3, QueueIs, Sizes DEF Valid
<1>11. \A j \in Slots : j # i =>
         /\ x.q[j].next = (IF j = p THEN n ELSE q.q[j].next)
         /\ x.q[j].prev = (IF j = n THEN p ELSE q.q[j].prev)
  BY <1>2, <1>3, <1>5 DEF Removed
<1>12. /\ x.oldest = (IF q.oldest = i THEN n ELSE q.oldest)
       /\ x.youngest = (IF q.youngest = i THEN p ELSE q.youngest)
  BY <1>2, <1>3, <1>5 DEF Removed
(* What the list of q says, in terms of r.                                 *)
<1>13. /\ \A j, k \in Slots : Valid(q, j) /\ Valid(q, k) /\ j # k => r[j] < r[k] \/ r[k] < r[j]
       /\ \A j \in Slots : Valid(q, j) =>
            /\ q.q[j].next # None => Valid(q, q.q[j].next) /\ r[j] < r[q.q[j].next]
            /\ q.q[j].prev # None => Valid(q, q.q[j].prev) /\ r[q.q[j].prev] < r[j]
       /\ \A j, k \in Slots : Valid(q, j) /\ Valid(q, k) /\ r[j] < r[k] =>
            /\ q.q[j].next # None /\ ~(r[k] < r[q.q[j].next])
            /\ q.q[k].prev # None /\ ~(r[q.q[k].prev] < r[j])
       /\ q.oldest # None => Valid(q, q.oldest)
       /\ q.youngest # None => Valid(q, q.youngest)
       /\ \A j \in Slots : Valid(q, j) => /\ q.oldest # None /\ ~(r[j] < r[q.oldest])
                                          /\ q.youngest # None /\ ~(r[q.youngest] < r[j])
  BY <1>7, <1>10 DEF AgeListOK
<1>14. /\ p # None => Valid(q, p) /\ r[p] < r[i] /\ p # i /\ q.q[p].next = i
       /\ n # None => Valid(q, n) /\ r[i] < r[n] /\ n # i /\ q.q[n].prev = i
  BY <1>2, <1>3, <1>6, <1>10, <1>13
<1>15. ASSUME NEW j \in Slots, Valid(x, j)
       PROVE  /\ x.q[j].next # None => Valid(x, x.q[j].next) /\ r[j] < r[x.q[j].next]
              /\ x.q[j].prev # None => Valid(x, x.q[j].prev) /\ r[x.q[j].prev] < r[j]
  <2>0. Valid(q, j) /\ j # i /\ r[j] \in Nat /\ r[i] \in Nat
    BY <1>6, <1>8, <1>10, <1>15
  <2>1. ASSUME x.q[j].next # None PROVE Valid(x, x.q[j].next) /\ r[j] < r[x.q[j].next]
    <3>1. CASE j = p
      <4>1. x.q[j].next = n /\ Valid(q, n) /\ n # i /\ r[p] < r[i] /\ r[i] < r[n] /\ r[n] \in Nat
        BY <1>6, <1>10, <1>11, <1>14, <2>0, <2>1, <3>1
      <4> QED
        BY <1>8, <2>0, <3>1, <4>1
    <3>2. CASE j # p
      <4>1. x.q[j].next = q.q[j].next /\ Valid(q, q.q[j].next) /\ r[j] < r[q.q[j].next]
        BY <1>11, <1>13, <2>0, <2>1, <3>2
      <4>2. q.q[j].next # i
        <5> SUFFICES ASSUME q.q[j].next = i PROVE FALSE
          OBVIOUS
        <5>1. r[j] < r[i] /\ p # None /\ ~(r[p] < r[j])
          BY <1>2, <1>10, <1>13, <2>0, <4>1
        <5>2. Valid(q, p) /\ r[p] < r[i] /\ r[p] \in Nat /\ p \in Slots
          BY <1>6, <1>10, <1>14, <5>1
        <5>3. r[j] < r[p]
          BY <1>13, <2>0, <3>2, <5>1, <5>2
        <5>4. ~(r[p] < r[q.q[j].next])
          BY <1>13, <2>0, <5>2, <5>3
        <5> QED
          BY <5>2, <5>4
      <4> QED
        BY <1>8, <4>1, <4>2
    <3> QED
      BY <3>1, <3>2
  <2>2. ASSUME x.q[j].prev # None PROVE Valid(x, x.q[j].prev) /\ r[x.q[j].prev] < r[j]
    <3>1. CASE j = n
      <4>1. x.q[j].prev = p /\ Valid(q, p) /\ p # i /\ r[p] < r[i] /\ r[i] < r[n] /\ r[p] \in Nat
        BY <1>6, <1>10, <1>11, <1>14, <2>0, <2>2, <3>1
      <4> QED
        BY <1>8, <2>0, <3>1, <4>1
    <3>2. CASE j # n
      <4>1. x.q[j].prev = q.q[j].prev /\ Valid(q, q.q[j].prev) /\ r[q.q[j].prev] < r[j]
        BY <1>11, <1>13, <2>0, <2>2, <3>2
      <4>2. q.q[j].prev # i
        <5> SUFFICES ASSUME q.q[j].prev = i PROVE FALSE
          OBVIOUS
        <5>1. r[i] < r[j] /\ n # None /\ ~(r[j] < r[n])
          BY <1>3, <1>10, <1>13, <2>0, <4>1
        <5>2. Valid(q, n) /\ r[i] < r[n] /\ r[n] \in Nat /\ n \in Slots
          BY <1>6, <1>10, <1>14, <5>1
        <5>3. r[n] < r[j]
          BY <1>13, <2>0, <3>2, <5>1, <5>2
        <5>4. ~(r[q.q[j].prev] < r[n])
          BY <1>13, <2>0, <5>2, <5>3
        <5> QED
          BY <5>2, <5>4
      <4> QED
        BY <1>8, <4>1, <4>2
    <3> QED
      BY <3>1, <3>2
  <2> QED
    BY <2>1, <2>2
<1>16. ASSUME NEW j \in Slots, NEW k \in Slots, Valid(x, j), Valid(x, k), r[j] < r[k]
       PROVE  /\ x.q[j].next # None /\ ~(r[k] < r[x.q[j].next])
              /\ x.q[k].prev # None /\ ~(r[x.q[k].prev] < r[j])
  <2>0. /\ Valid(q, j) /\ j # i /\ r[j] \in Nat /\ r[i] \in Nat
        /\ Valid(q, k) /\ k # i /\ r[k] \in Nat
    BY <1>6, <1>8, <1>10, <1>16
  <2>1. /\ q.q[j].next # None /\ ~(r[k] < r[q.q[j].next])
        /\ q.q[k].prev # None /\ ~(r[q.q[k].prev] < r[j])
    BY <1>13, <1>16, <2>0
  <2>2. x.q[j].next # None /\ ~(r[k] < r[x.q[j].next])
    <3>1. CASE j = p
      <4>1. q.q[p].next = i /\ r[i] < r[k]
        BY <1>10, <1>13, <1>14, <2>0, <2>1, <3>1
      <4>2. n # None /\ ~(r[k] < r[n])
        BY <1>3, <1>10, <1>13, <2>0, <4>1
      <4> QED
        BY <1>11, <2>0, <3>1, <4>2
    <3>2. CASE j # p
      BY <1>11, <2>0, <2>1, <3>2
    <3> QED
      BY <3>1, <3>2
  <2>3. x.q[k].prev # None /\ ~(r[x.q[k].prev] < r[j])
    <3>1. CASE k = n
      <4>1. q.q[n].prev = i /\ r[j] < r[i]
        BY <1>10, <1>13, <1>14, <2>0, <2>1, <3>1
      <4>2. p # None /\ ~(r[p] < r[j])
        BY <1>2, <1>10, <1>13, <2>0, <4>1
      <4> QED
        BY <1>11, <2>0, <3>1, <4>2
    <3>2. CASE k # n
      BY <1>11, <2>0, <2>1, <3>2
    <3> QED
      BY <3>1, <3>2
  <2> QED
    BY <2>2, <2>3
<1>17. /\ x.oldest # None => Valid(x, x.oldest)
       /\ x.youngest # None => Valid(x, x.youngest)
  BY <1>8, <1>10, <1>12, <1>13, <1>14
<1>18. ASSUME NEW j \in Slots, Valid(x, j)
       PROVE  /\ x.oldest # None /\ ~(r[j] < r[x.oldest])
              /\ x.youngest # None /\ ~(r[x.youngest] < r[j])
  <2>0. /\ Valid(q, j) /\ j # i /\ r[j] \in Nat /\ r[i] \in Nat
        /\ r[j] < r[i] \/ r[i] < r[j]
    BY <1>6, <1>8, <1>10, <1>13, <1>18
  <2>1. /\ q.oldest # None /\ ~(r[j] < r[q.oldest])
        /\ q.youngest # None /\ ~(r[q.youngest] < r[j])
    BY <1>13, <2>0
  <2>2. x.oldest # None /\ ~(r[j] < r[x.oldest])
    <3>1. CASE q.oldest = i
      <4>1. r[i] < r[j] /\ x.oldest = n
        BY <1>12, <2>0, <2>1, <3>1
      <4> QED
        BY <1>3, <1>10, <1>13, <2>0, <4>1
    <3>2. CASE q.oldest # i
      BY <1>12, <2>1, <3>2
    <3> QED
      BY <3>1, <3>2
  <2>3. x.youngest # None /\ ~(r[x.youngest] < r[j])
    <3>1. CASE q.youngest = i
      <4>1. r[j] < r[i] /\ x.youngest = p
        BY <1>12, <2>0, <2>1, <3>1
      <4> QED
        BY <1>2, <1>10, <1>13, <2>0, <4>1
    <3>2. CASE q.youngest # i
      BY <1>12, <2>1, <3>2
    <3> QED
      BY <3>1, <3>2
  <2> QED
    BY <2>2, <2>3
<1>19. \A j, k \in Slots : Valid(x, j) /\ Valid(x, k) /\ j # k
                           => Comes(x, R, j, k) \/ Comes(x, R, k, j)
  BY <1>8, <1>9, <1>13
<1>20. \A j : Valid(x, j) => j \in Slots
  BY DEF Valid
<1>21. \A j \in Slots : Valid(x, j) =>
         /\ x.q[j].next # None => Valid(x, x.q[j].next) /\ Comes(x, R, j, x.q[j].next)
         /\ x.q[j].prev # None => Valid(x, x.q[j].prev) /\ Comes(x, R, x.q[j].prev, j)
  BY <1>9, <1>15, <1>20
<1>22. \A j, k \in Slots : Valid(x, j) /\ Valid(x, k) /\ Comes(x, R, j, k) =>
         /\ x.q[j].next # None /\ ~Comes(x, R, k, x.q[j].next)
         /\ x.q[k].prev # None /\ ~Comes(x, R, x.q[k].prev, j)
  BY <1>9, <1>15, <1>16, <1>20
<1>23. \A j \in Slots : Valid(x, j) => /\ x.oldest # None /\ ~Comes(x, R, j, x.oldest)
                                       /\ x.youngest # None /\ ~Comes(x, R, x.youngest, j)
  BY <1>9, <1>17, <1>18, <1>20
<1> QED
  BY <1>1, <1>17, <1>19, <1>21, <1>22, <1>23 DEF AgeListOK

(* x is q with tag in the slot f.                                          *)
Inserted(q, f, tag, waits, lanes, x) ==
  /\ f \in Slots /\ ~q.q[f].valid
  /\ \A j \in Slots : x.q[j].valid <=> (q.q[j].valid \/ j = f)
  /\ \A j \in Slots \ {f} :
       /\ x.q[j].tag = q.q[j].tag /\ x.q[j].waits = q.q[j].waits
       /\ x.q[j].prev = q.q[j].prev
       /\ x.q[j].next = (IF j = q.youngest THEN f ELSE q.q[j].next)
  /\ x.q[f].tag = tag /\ x.q[f].waits = waits /\ x.q[f].lanes = lanes
  /\ x.q[f].prev = q.youngest /\ x.q[f].next = None
  /\ x.youngest = f /\ x.oldest = (IF q.oldest = None THEN f ELSE q.oldest)
  /\ x.fl = q.fl /\ x.fl_head = (q.fl_head + 1) % IQSize /\ x.fl_tail = q.fl_tail
  /\ x.fl_length = q.fl_length - 1 /\ x.part_next = q.part_next

LEMMA InsertedIs ==
  ASSUME NEW q \in Queue, FreeListOK(q), q.fl_length >= 1, NEW tag \in Tags,
         NEW waits \in SUBSET Tags, NEW lanes \in SUBSET LaneIDs,
         NEW x, x = InsertEntry(q, tag, waits, lanes)
  PROVE  x \in Queue /\ \E f \in Slots : f = Free(q, 0) /\ Inserted(q, f, tag, waits, lanes, x)
<1>1. q.fl_length \in 1 .. IQSize /\ 0 \in 0 .. q.fl_length - 1 /\ 0 \in 0 .. IQSize /\ 1 \in 0 .. IQSize
  BY QueueIs, Sizes
<1>2. PICK f \in Slots : f = Free(q, 0)
  BY <1>1, FreeType
<1>3. f = q.fl[q.fl_head] /\ ~q.q[f].valid
  <2>0. PICK h \in Slots : h = q.fl_head
    BY QueueIs
  <2>1. (q.fl_head + 0) % IQSize = q.fl_head
    BY <1>1, <2>0, WrapIs, Sizes DEF Slots
  <2> QED
    BY <1>1, <1>2, <2>1 DEF Free, FreeListOK
<1>4. PICK entry : entry = [valid |-> TRUE, tag |-> tag, waits |-> waits, lanes |-> lanes,
                            prev |-> q.youngest, next |-> None]
  OBVIOUS
<1>5. /\ entry \in Entry /\ entry.valid /\ entry.tag = tag /\ entry.waits = waits
      /\ entry.lanes = lanes /\ entry.prev = q.youngest /\ entry.next = None
  BY <1>4, QueueIs DEF Entry, NoTag
<1>6. PICK linked : linked = [j \in Slots |-> IF j = f THEN entry
                                 ELSE IF j = q.youngest THEN [q.q[j] EXCEPT !.next = f]
                                 ELSE q.q[j]]
  OBVIOUS
<1>7. ASSUME NEW j \in Slots
      PROVE  /\ linked[j] \in Entry
             /\ linked[j].valid <=> (q.q[j].valid \/ j = f)
             /\ j # f => /\ linked[j].tag = q.q[j].tag /\ linked[j].waits = q.q[j].waits
                         /\ linked[j].prev = q.q[j].prev
                         /\ linked[j].next = (IF j = q.youngest THEN f ELSE q.q[j].next)
  <2>1. q.q[j] \in Entry
    BY QueueIs
  <2>2. CASE j = f
    BY <1>5, <1>6, <2>2
  <2>3. CASE j # f /\ j = q.youngest
    <3>1. linked[j] = [q.q[j] EXCEPT !.next = f]
      BY <1>6, <2>3
    <3> QED
      BY <2>1, <2>3, <3>1 DEF Entry
  <2>4. CASE j # f /\ j # q.youngest
    <3>1. linked[j] = q.q[j]
      BY <1>6, <2>4
    <3> QED
      BY <2>1, <2>4, <3>1
  <2> QED
    BY <2>2, <2>3, <2>4
<1>8. linked \in [Slots -> Entry] /\ linked[f] = entry
  BY <1>6, <1>7
<1>9. x = [q EXCEPT !.q = linked, !.fl_head = (@ + 1) % IQSize, !.fl_length = @ - 1,
                    !.youngest = f, !.oldest = IF @ = None THEN f ELSE @]
  BY <1>3, <1>4, <1>6 DEF InsertEntry
<1>10. (q.fl_head + 1) % IQSize \in Slots /\ q.fl_length - 1 \in 0 .. IQSize
  <2>1. q.fl_head \in Slots
    BY QueueIs
  <2>2. (q.fl_head + 1) % IQSize \in Slots
    BY <1>1, <2>1, WrapIs
  <2>3. q.fl_length - 1 \in 0 .. IQSize
    BY <1>1, Sizes
  <2> QED
    BY <2>2, <2>3
<1>11. /\ x \in Queue /\ x.q = linked /\ x.fl = q.fl /\ x.fl_head = (q.fl_head + 1) % IQSize
       /\ x.fl_tail = q.fl_tail /\ x.fl_length = q.fl_length - 1
       /\ x.oldest = (IF q.oldest = None THEN f ELSE q.oldest) /\ x.youngest = f
       /\ x.part_next = q.part_next
  BY <1>2, <1>8, <1>9, <1>10 DEF Queue
<1>12. Inserted(q, f, tag, waits, lanes, x)
  BY <1>3, <1>5, <1>7, <1>8, <1>11 DEF Inserted
<1> QED
  BY <1>2, <1>11, <1>12

LEMMA InsertedFreeList ==
  ASSUME NEW q \in Queue, FreeListOK(q), q.fl_length >= 1, NEW tag, NEW waits, NEW lanes,
         NEW f \in Slots, f = Free(q, 0), NEW x, Inserted(q, f, tag, waits, lanes, x)
  PROVE  FreeListOK(x)
<1>1. PICK n \in Nat : n = q.fl_length - 1
  BY QueueIs, Sizes
<1>2. /\ n \in 0 .. IQSize - 1 /\ n + 1 = q.fl_length /\ 1 \in 0 .. IQSize /\ n + 1 \in 0 .. IQSize
      /\ q.fl_head \in Slots
  BY <1>1, QueueIs, Sizes
<1>3. /\ x.fl = q.fl /\ x.fl_head = (q.fl_head + 1) % IQSize /\ x.fl_tail = q.fl_tail
      /\ x.fl_length = n /\ \A j \in Slots : x.q[j].valid <=> (q.q[j].valid \/ j = f)
  BY <1>1 DEF Inserted
<1>4. ASSUME NEW k \in 0 .. n - 1
      PROVE  /\ Free(x, k) = Free(q, k + 1) /\ k + 1 \in 0 .. n /\ k + 1 # 0
             /\ Free(q, k + 1) \in Slots
  <2>1. k \in 0 .. IQSize - 1 /\ k + 1 \in 0 .. n /\ k + 1 # 0 /\ k + 1 \in 0 .. IQSize
    BY <1>2, Sizes
  <2>2. (((q.fl_head + 1) % IQSize) + k) % IQSize = (q.fl_head + (k + 1)) % IQSize
    BY <1>2, <2>1, WrapNext
  <2> QED
    BY <1>3, <2>1, <2>2, FreeType DEF Free
<1>5. /\ \A k \in 0 .. n : ~q.q[Free(q, k)].valid
      /\ \A j, k \in 0 .. n : Free(q, j) = Free(q, k) => j = k
      /\ \A i \in Slots : ~q.q[i].valid => \E k \in 0 .. n : Free(q, k) = i
      /\ q.fl_tail = (q.fl_head + (n + 1)) % IQSize /\ 0 \in 0 .. n
  BY <1>1, <1>2 DEF FreeListOK
<1>6. x.fl_tail = (x.fl_head + x.fl_length) % IQSize
  BY <1>2, <1>3, <1>5, WrapNext
<1>7. \A k \in 0 .. n - 1 : ~x.q[Free(x, k)].valid
  BY <1>3, <1>4, <1>5
<1>8. ASSUME NEW j \in 0 .. n - 1, NEW k \in 0 .. n - 1, Free(x, j) = Free(x, k)
      PROVE  j = k
  <2>1. j + 1 = k + 1
    BY <1>4, <1>5, <1>8
  <2> QED
    BY <2>1
<1>9. ASSUME NEW i \in Slots, ~x.q[i].valid
      PROVE  \E k \in 0 .. n - 1 : Free(x, k) = i
  <2>1. PICK k \in 0 .. n : Free(q, k) = i
    BY <1>3, <1>5, <1>9
  <2>2. k # 0
    BY <1>3, <1>9, <2>1
  <2>3. k - 1 \in 0 .. n - 1 /\ (k - 1) + 1 = k
    BY <1>2, <2>2
  <2>4. Free(x, k - 1) = Free(q, (k - 1) + 1)
    BY <1>4, <2>3
  <2> QED
    BY <2>1, <2>3, <2>4
<1> QED
  BY <1>3, <1>6, <1>7, <1>8, <1>9 DEF FreeListOK

(* The new one comes after all others.                                     *)
LEMMA InsertedAgeList ==
  ASSUME NEW q \in Queue, NEW tag, NEW waits, NEW lanes, NEW R, AgeListOK(q, R),
         NEW f \in Slots, NEW x, Inserted(q, f, tag, waits, lanes, x),
         R[tag] \in Nat,
         \A j \in Slots : q.q[j].valid => R[q.q[j].tag] \in Nat /\ R[q.q[j].tag] < R[tag]
  PROVE  AgeListOK(x, R)
<1>1. PICK r : r = [j \in Slots |-> R[x.q[j].tag]]
  OBVIOUS
<1>2. /\ \A j : Valid(x, j) <=> (Valid(q, j) \/ j = f)
      /\ ~Valid(q, f) /\ None \notin Slots /\ f # None
      /\ \A j : Valid(q, j) => j \in Slots /\ j # f
      /\ \A j : Valid(x, j) => j \in Slots
  BY Sizes DEF Inserted, Valid
<1>3. r[f] = R[tag] /\ \A j \in Slots : j # f => r[j] = R[q.q[j].tag]
  BY <1>1 DEF Inserted
<1>4. /\ r[f] \in Nat /\ \A j : Valid(q, j) => r[j] \in Nat /\ r[j] < r[f]
      /\ \A j : Valid(x, j) => r[j] \in Nat
  BY <1>2, <1>3 DEF Valid
<1>5. \A j, k : Valid(q, j) /\ Valid(q, k) => (Comes(q, R, j, k) <=> r[j] < r[k])
  BY <1>2, <1>3 DEF Comes
<1>6. \A j, k : Valid(x, j) /\ Valid(x, k) => (Comes(x, R, j, k) <=> r[j] < r[k])
  BY <1>1, <1>2 DEF Comes
<1>7. /\ \A j, k \in Slots : Valid(q, j) /\ Valid(q, k) /\ j # k => r[j] < r[k] \/ r[k] < r[j]
      /\ \A j \in Slots : Valid(q, j) =>
           /\ q.q[j].next # None => Valid(q, q.q[j].next) /\ r[j] < r[q.q[j].next]
           /\ q.q[j].prev # None => Valid(q, q.q[j].prev) /\ r[q.q[j].prev] < r[j]
      /\ \A j, k \in Slots : Valid(q, j) /\ Valid(q, k) /\ r[j] < r[k] =>
           /\ q.q[j].next # None /\ ~(r[k] < r[q.q[j].next])
           /\ q.q[k].prev # None /\ ~(r[q.q[k].prev] < r[j])
      /\ q.oldest # None => Valid(q, q.oldest)
      /\ q.youngest # None => Valid(q, q.youngest)
      /\ \A j \in Slots : Valid(q, j) => /\ q.oldest # None /\ ~(r[j] < r[q.oldest])
                                         /\ q.youngest # None /\ ~(r[q.youngest] < r[j])
  BY <1>5 DEF AgeListOK
<1>8. /\ \A j \in Slots : j # f => /\ x.q[j].prev = q.q[j].prev
                                   /\ x.q[j].next = (IF j = q.youngest THEN f ELSE q.q[j].next)
      /\ x.q[f].prev = q.youngest /\ x.q[f].next = None
      /\ x.youngest = f /\ x.oldest = (IF q.oldest = None THEN f ELSE q.oldest)
  BY DEF Inserted
<1>9. \A j, k \in Slots : Valid(x, j) /\ Valid(x, k) /\ j # k => r[j] < r[k] \/ r[k] < r[j]
  BY <1>2, <1>4, <1>7
<1>10. ASSUME NEW j \in Slots, Valid(x, j)
       PROVE  /\ x.q[j].next # None => Valid(x, x.q[j].next) /\ r[j] < r[x.q[j].next]
              /\ x.q[j].prev # None => Valid(x, x.q[j].prev) /\ r[x.q[j].prev] < r[j]
  <2>1. CASE j = f
    BY <1>2, <1>4, <1>7, <1>8, <2>1
  <2>2. CASE j # f
    <3>1. Valid(q, j)
      BY <1>2, <1>10, <2>2
    <3>2. x.q[j].next # None => Valid(x, x.q[j].next) /\ r[j] < r[x.q[j].next]
      BY <1>2, <1>4, <1>7, <1>8, <2>2, <3>1
    <3>3. x.q[j].prev # None => Valid(x, x.q[j].prev) /\ r[x.q[j].prev] < r[j]
      BY <1>2, <1>7, <1>8, <2>2, <3>1
    <3> QED
      BY <3>2, <3>3
  <2> QED
    BY <2>1, <2>2
<1>11. ASSUME NEW j \in Slots, NEW k \in Slots, Valid(x, j), Valid(x, k), r[j] < r[k]
       PROVE  /\ x.q[j].next # None /\ ~(r[k] < r[x.q[j].next])
              /\ x.q[k].prev # None /\ ~(r[x.q[k].prev] < r[j])
  <2>1. Valid(q, j) /\ j # f /\ r[j] \in Nat /\ r[k] \in Nat
    BY <1>2, <1>4, <1>11
  <2>2. CASE k = f
    <3>1. q.youngest # None /\ ~(r[q.youngest] < r[j])
      BY <1>7, <2>1
    <3>2. x.q[j].next # None /\ ~(r[k] < r[x.q[j].next])
      <4>1. CASE j = q.youngest
        BY <1>2, <1>4, <1>8, <2>1, <2>2, <4>1
      <4>2. CASE j # q.youngest
        <5>1. Valid(q, q.youngest) /\ r[j] < r[q.youngest] /\ r[q.youngest] \in Nat
          BY <1>2, <1>4, <1>7, <2>1, <3>1, <4>2
        <5>2. q.q[j].next # None /\ Valid(q, q.q[j].next)
          BY <1>2, <1>7, <2>1, <5>1
        <5>3. r[q.q[j].next] < r[f] /\ r[q.q[j].next] \in Nat
          BY <1>4, <5>2
        <5> QED
          BY <1>8, <2>1, <2>2, <4>2, <5>2, <5>3
      <4> QED
        BY <4>1, <4>2
    <3> QED
      BY <1>8, <2>2, <3>1, <3>2
  <2>3. CASE k # f
    <3>1. Valid(q, k)
      BY <1>2, <1>11, <2>3
    <3>2. /\ q.q[j].next # None /\ ~(r[k] < r[q.q[j].next])
          /\ q.q[k].prev # None /\ ~(r[q.q[k].prev] < r[j])
      BY <1>7, <1>11, <2>1, <3>1
    <3>3. j # q.youngest
      BY <1>7, <1>11, <3>1
    <3> QED
      BY <1>8, <2>1, <2>3, <3>2, <3>3
  <2> QED
    BY <2>2, <2>3
<1>12. /\ x.oldest # None => Valid(x, x.oldest)
       /\ x.youngest # None => Valid(x, x.youngest)
  BY <1>2, <1>7, <1>8
<1>13. ASSUME NEW j \in Slots, Valid(x, j)
       PROVE  /\ x.oldest # None /\ ~(r[j] < r[x.oldest])
              /\ x.youngest # None /\ ~(r[x.youngest] < r[j])
  <2>1. CASE j = f
    BY <1>2, <1>4, <1>7, <1>8, <2>1
  <2>2. CASE j # f
    BY <1>2, <1>4, <1>7, <1>8, <1>13, <2>2
  <2> QED
    BY <2>1, <2>2
<1>14. \A j, k \in Slots : Valid(x, j) /\ Valid(x, k) /\ j # k
                           => Comes(x, R, j, k) \/ Comes(x, R, k, j)
  BY <1>6, <1>9
<1>15. \A j \in Slots : Valid(x, j) =>
         /\ x.q[j].next # None => Valid(x, x.q[j].next) /\ Comes(x, R, j, x.q[j].next)
         /\ x.q[j].prev # None => Valid(x, x.q[j].prev) /\ Comes(x, R, x.q[j].prev, j)
  BY <1>6, <1>10
<1>16. \A j, k \in Slots : Valid(x, j) /\ Valid(x, k) /\ Comes(x, R, j, k) =>
         /\ x.q[j].next # None /\ ~Comes(x, R, k, x.q[j].next)
         /\ x.q[k].prev # None /\ ~Comes(x, R, x.q[k].prev, j)
  BY <1>6, <1>10, <1>11
<1>17. \A j \in Slots : Valid(x, j) => /\ x.oldest # None /\ ~Comes(x, R, j, x.oldest)
                                       /\ x.youngest # None /\ ~Comes(x, R, x.youngest, j)
  BY <1>6, <1>12, <1>13
<1> QED
  BY <1>12, <1>14, <1>15, <1>16, <1>17 DEF AgeListOK

LEMMA WakeUpIs ==
  ASSUME NEW q \in Queue, NEW tag, NEW x, x = WakeUp(q, tag)
  PROVE  /\ x \in Queue
         /\ \A i \in Slots :
              /\ x.q[i].valid = q.q[i].valid /\ x.q[i].tag = q.q[i].tag
              /\ x.q[i].next = q.q[i].next /\ x.q[i].prev = q.q[i].prev
              /\ x.q[i].waits = q.q[i].waits \ {tag}
         /\ x.fl = q.fl /\ x.fl_head = q.fl_head /\ x.fl_tail = q.fl_tail
         /\ x.fl_length = q.fl_length /\ x.oldest = q.oldest /\ x.youngest = q.youngest
         /\ x.part_next = q.part_next
<1>1. PICK woken : woken = [i \in Slots |-> [q.q[i] EXCEPT !.waits = @ \ {tag}]]
  OBVIOUS
<1>2. ASSUME NEW i \in Slots
      PROVE  /\ woken[i] \in Entry
             /\ woken[i].valid = q.q[i].valid /\ woken[i].tag = q.q[i].tag
             /\ woken[i].next = q.q[i].next /\ woken[i].prev = q.q[i].prev
             /\ woken[i].waits = q.q[i].waits \ {tag}
  <2>1. q.q[i] \in Entry /\ woken[i] = [q.q[i] EXCEPT !.waits = @ \ {tag}]
    BY <1>1, QueueIs
  <2> QED
    BY <2>1 DEF Entry
<1>3. x = [q EXCEPT !.q = woken]
  BY <1>1 DEF WakeUp
<1>4. woken \in [Slots -> Entry]
  BY <1>1, <1>2
<1>5. /\ x \in Queue /\ x.q = woken
      /\ x.fl = q.fl /\ x.fl_head = q.fl_head /\ x.fl_tail = q.fl_tail
      /\ x.fl_length = q.fl_length /\ x.oldest = q.oldest /\ x.youngest = q.youngest
      /\ x.part_next = q.part_next
  BY <1>3, <1>4 DEF Queue
<1> QED
  BY <1>2, <1>5

LEMMA WakeUpOK ==
  ASSUME NEW q \in Queue, NEW tag, NEW R, FreeListOK(q), AgeListOK(q, R)
  PROVE  FreeListOK(WakeUp(q, tag)) /\ AgeListOK(WakeUp(q, tag), R)
<1>1. PICK x : x = WakeUp(q, tag)
  OBVIOUS
<1>2. /\ \A i \in Slots :
              /\ x.q[i].valid = q.q[i].valid /\ x.q[i].tag = q.q[i].tag
              /\ x.q[i].next = q.q[i].next /\ x.q[i].prev = q.q[i].prev
      /\ x.fl = q.fl /\ x.fl_head = q.fl_head /\ x.fl_tail = q.fl_tail
      /\ x.fl_length = q.fl_length /\ x.oldest = q.oldest /\ x.youngest = q.youngest
  BY <1>1, WakeUpIs
<1>3. FreeListOK(x)
  <2>1. \A k : Free(x, k) = Free(q, k)
    BY <1>2 DEF Free
  <2>2. \A k \in 0 .. q.fl_length - 1 : Free(q, k) \in Slots
    <3> TAKE k \in 0 .. q.fl_length - 1
    <3>1. k \in 0 .. IQSize
      BY QueueIs, Sizes
    <3> QED
      BY <3>1, FreeType
  <2> QED
    BY <1>2, <2>1, <2>2 DEF FreeListOK
<1>4. \A i, j \in Slots : Comes(x, R, i, j) <=> Comes(q, R, i, j)
  BY <1>2 DEF Comes
<1>5. AgeListOK(x, R)
  BY <1>2, <1>4, AgeListSame
<1> QED
  BY <1>1, <1>3, <1>5

LEMMA EmptyQueueOK ==
  ASSUME NEW n \in Slots, NEW x, x = [EmptyIQ EXCEPT !.part_next = n]
  PROVE  /\ x \in Queue /\ FreeListOK(x) /\ \A R : AgeListOK(x, R)
         /\ \A i \in Slots : ~x.q[i].valid
<1>1. NoEntry \in Entry /\ NoEntry.valid = FALSE
  BY DEF NoEntry, Entry, NoTag
<1>2. 0 \in Slots /\ IQSize \in 0 .. IQSize
  BY Sizes DEF Slots
<1>3. /\ x \in Queue /\ x.q = [i \in Slots |-> NoEntry] /\ x.fl = [i \in Slots |-> i]
      /\ x.fl_head = 0 /\ x.fl_tail = 0 /\ x.fl_length = IQSize
      /\ x.oldest = None /\ x.youngest = None
  BY <1>1, <1>2 DEF EmptyIQ, Queue
<1>4. \A i \in Slots : x.q[i] = NoEntry
  BY <1>3
<1>5. \A i \in Slots : ~x.q[i].valid
  BY <1>1, <1>4
<1>6. ASSUME NEW k \in 0 .. IQSize - 1 PROVE Free(x, k) = k /\ k \in Slots
  <2>1. 0 + k = k /\ k \in 0 .. IQSize /\ k \in Slots
    BY Sizes DEF Slots
  <2>2. (0 + k) % IQSize = k
    BY <1>2, <2>1, WrapIs, Sizes
  <2> QED
    BY <1>3, <2>1, <2>2 DEF Free
<1>7. (0 + IQSize) % IQSize = 0
  <2>1. 0 + IQSize = IQSize
    BY Sizes
  <2>2. (0 + IQSize) % IQSize = IF 0 + IQSize < IQSize THEN 0 + IQSize ELSE 0 + IQSize - IQSize
    BY <1>2, WrapIs
  <2> QED
    BY <2>1, <2>2, Sizes
<1>8. FreeListOK(x)
  <2>1. \A i \in Slots : i \in 0 .. IQSize - 1
    BY DEF Slots
  <2> QED
    BY <1>3, <1>5, <1>6, <1>7, <2>1 DEF FreeListOK
<1>9. \A R : AgeListOK(x, R)
  BY <1>3, <1>5 DEF AgeListOK, Valid
<1> QED
  BY <1>3, <1>5, <1>8, <1>9

-----------------------------------------------------------------------------
(* The core: its Active List and its pipeline registers.                   *)

Distinct(s) == \A j, k \in DOMAIN s.al : s.al[j].tag = s.al[k].tag => j = k

LEMMA ActiveIs ==
  ASSUME NEW s, s.al \in Seq(Insn), Distinct(s)
  PROVE  /\ Len(s.al) \in Nat /\ DOMAIN s.al = 1 .. Len(s.al)
         /\ \A k \in DOMAIN s.al :
              /\ s.al[k] \in Insn /\ s.al[k].tag \in Tags /\ s.al[k].op \in Ops
              /\ s.al[k].srcs \in SUBSET Tags /\ s.al[k].completed \in BOOLEAN
              /\ s.al[k].tag \in TagsOf(s) /\ Position(s, s.al[k].tag) = k
              /\ InsnOf(s, s.al[k].tag) = s.al[k]
         /\ \A t \in TagsOf(s) :
              /\ t \in Tags /\ Position(s, t) \in DOMAIN s.al /\ s.al[Position(s, t)].tag = t
              /\ InsnOf(s, t) = s.al[Position(s, t)]
<1>1. Len(s.al) \in Nat /\ DOMAIN s.al = 1 .. Len(s.al)
  OBVIOUS
<1>2. \A k \in DOMAIN s.al : s.al[k] \in Insn
  BY <1>1
<1>3. ASSUME NEW k \in DOMAIN s.al
      PROVE  /\ s.al[k].tag \in TagsOf(s) /\ Position(s, s.al[k].tag) = k
             /\ InsnOf(s, s.al[k].tag) = s.al[k]
  <2>1. Position(s, s.al[k].tag) = k
    BY DEF Position, Distinct
  <2> QED
    BY <2>1 DEF TagsOf, InsnOf
<1>4. ASSUME NEW t \in TagsOf(s)
      PROVE  /\ t \in Tags /\ Position(s, t) \in DOMAIN s.al /\ s.al[Position(s, t)].tag = t
             /\ InsnOf(s, t) = s.al[Position(s, t)]
  <2>1. PICK k \in DOMAIN s.al : s.al[k].tag = t
    BY DEF TagsOf
  <2> QED
    BY <1>2, <1>3, <2>1 DEF Insn, InsnOf
<1> QED
  BY <1>1, <1>2, <1>3, <1>4 DEF Insn

LEMMA TagIs ==
  ASSUME NEW s, s.al \in Seq(Insn), Distinct(s), NEW k \in DOMAIN s.al
  PROVE  Position(s, s.al[k].tag) = k /\ InsnOf(s, s.al[k].tag) = s.al[k]
BY ActiveIs

LEMMA AtIs ==
  ASSUME NEW s \in Core, NEW l \in LaneIDs
  PROVE  /\ \A d \in Registers(l) : At(s, l, d) \in NoTag
         /\ At(s, l, 1) = s.rr[l] /\ At(s, l, Depth[l] + 2) = s.wb[l]
         /\ \A d \in 1 .. Depth[l] : At(s, l, d + 1) = s.ex[l][d]
         /\ \A d \in Registers(l) : d = 1 \/ d = Depth[l] + 2
                                    \/ (d - 1 \in 1 .. Depth[l] /\ At(s, l, d) = s.ex[l][d - 1])
<1>1. /\ s.rr \in [LaneIDs -> NoTag] /\ s.wb \in [LaneIDs -> NoTag]
      /\ s.ex[l] \in [1 .. Depth[l] -> NoTag]
  BY CoreIs
<1>2. Depth[l] \in Nat /\ Depth[l] >= 1
  BY Sizes
<1>3. At(s, l, 1) = s.rr[l] /\ At(s, l, Depth[l] + 2) = s.wb[l]
  BY <1>2 DEF At
<1>4. \A d \in 1 .. Depth[l] : At(s, l, d + 1) = s.ex[l][d]
  BY <1>2 DEF At
<1>5. ASSUME NEW d \in Registers(l), d # 1, d # Depth[l] + 2
      PROVE  d - 1 \in 1 .. Depth[l] /\ At(s, l, d) = s.ex[l][d - 1]
  BY <1>2, <1>5 DEF At, Registers
<1>6. ASSUME NEW d \in Registers(l) PROVE At(s, l, d) \in NoTag
  <2>1. d = 1 \/ d = Depth[l] + 2 \/ (d - 1 \in 1 .. Depth[l] /\ At(s, l, d) = s.ex[l][d - 1])
    BY <1>5
  <2>2. d - 1 \in 1 .. Depth[l] => s.ex[l][d - 1] \in NoTag
    BY <1>1
  <2>3. s.rr[l] \in NoTag /\ s.wb[l] \in NoTag
    BY <1>1
  <2> QED
    BY <1>3, <2>1, <2>2, <2>3
<1> QED
  BY <1>3, <1>4, <1>5, <1>6

(* Lane l with v in its d-th sub-stage.                                    *)
LEMMA PutStageIs ==
  ASSUME NEW f \in Stages, NEW l \in LaneIDs, NEW g \in [1 .. Depth[l] -> NoTag]
  PROVE  /\ Put(f, l, g) \in Stages
         /\ \A m \in LaneIDs : Put(f, l, g)[m] = IF m = l THEN g ELSE f[m]
<1>1. PICK n \in Nat : n = Depth[l]
  BY Sizes
<1>2. g \in Seq(NoTag)
  BY <1>1
<1>3. \A m \in LaneIDs : Put(f, l, g)[m] = IF m = l THEN g ELSE f[m]
  BY DEF Put, Stages
<1>4. Put(f, l, g) \in [LaneIDs -> Seq(NoTag)]
  BY <1>2 DEF Put, Stages
<1> QED
  BY <1>3, <1>4 DEF Stages

LEMMA PutRegisterIs ==
  ASSUME NEW f \in Stages, NEW l \in LaneIDs, NEW d \in 1 .. Depth[l], NEW v \in NoTag,
         NEW x, x = Put(f, l, Put(f[l], d, v))
  PROVE  /\ x \in Stages
         /\ \A m \in LaneIDs : \A c \in 1 .. Depth[m] :
              x[m][c] = IF m = l /\ c = d THEN v ELSE f[m][c]
<1>1. PICK g : g = Put(f[l], d, v)
  OBVIOUS
<1>2. f[l] \in [1 .. Depth[l] -> NoTag]
  BY DEF Stages
<1>3. g = [c \in 1 .. Depth[l] |-> IF c = d THEN v ELSE f[l][c]]
  BY <1>1, <1>2 DEF Put
<1>4. g \in [1 .. Depth[l] -> NoTag]
  BY <1>2, <1>3
<1>5. x \in Stages /\ \A m \in LaneIDs : x[m] = IF m = l THEN g ELSE f[m]
  BY <1>1, <1>4, PutStageIs
<1>6. ASSUME NEW m \in LaneIDs, NEW c \in 1 .. Depth[m]
      PROVE  x[m][c] = IF m = l /\ c = d THEN v ELSE f[m][c]
  <2>1. CASE m = l
    <3>1. x[m] = g /\ c \in 1 .. Depth[l]
      BY <1>5, <2>1
    <3>2. g[c] = IF c = d THEN v ELSE f[l][c]
      BY <1>3, <3>1
    <3> QED
      BY <2>1, <3>1, <3>2
  <2>2. CASE m # l
    <3>1. x[m] = f[m]
      BY <1>5, <2>2
    <3> QED
      BY <2>2, <3>1
  <2> QED
    BY <2>1, <2>2
<1> QED
  BY <1>5, <1>6

(* Where a tag is has not changed.                                         *)
SamePlaces(s, x, t) ==
  /\ \A i \in Slots : InSlot(x, i, t) <=> InSlot(s, i, t)
  /\ \A l \in LaneIDs : \A d \in Registers(l) : At(x, l, d) = t <=> At(s, l, d) = t
  /\ t \in x.stalled <=> t \in s.stalled
  /\ Done(x, t) <=> Done(s, t)
  /\ t \in TagsOf(x) <=> t \in TagsOf(s)

LEMMA SameOnePlace ==
  ASSUME NEW s, NEW x, NEW t, SamePlaces(s, x, t), OnePlace(s, t)
  PROVE  OnePlace(x, t)
<1>1. InQueue(x, t) <=> InQueue(s, t)
  BY DEF SamePlaces, InQueue
<1>2. InLane(x, t) <=> InLane(s, t)
  BY DEF SamePlaces, InLane
<1>3. \A i, j \in Slots : InSlot(x, i, t) /\ InSlot(x, j, t) => i = j
  BY DEF SamePlaces, OnePlace
<1>4. \A l, m \in LaneIDs : \A d \in Registers(l), e \in Registers(m) :
        At(x, l, d) = t /\ At(x, m, e) = t => l = m /\ d = e
  BY DEF SamePlaces, OnePlace
<1> QED
  BY <1>1, <1>2, <1>3, <1>4 DEF SamePlaces, OnePlace

LEMMA SameWakes ==
  ASSUME NEW s, NEW x, NEW t, SamePlaces(s, x, t), Wakes(s, t),
         t \in TagsOf(s) => InsnOf(x, t).op = InsnOf(s, t).op,
         t \in x.ready <=> t \in s.ready, t \in s.written => t \in x.written
  PROVE  Wakes(x, t)
<1> SUFFICES ASSUME t \in TagsOf(x), HasDest(InsnOf(x, t))
             PROVE  /\ t \in x.ready <=> ~Asleep(x, t, IsLoad(InsnOf(x, t)))
                    /\ t \in x.ready => InTime(x, t, IsLoad(InsnOf(x, t)))
  BY DEF Wakes
<1>1. PICK load : load = IsLoad(InsnOf(s, t))
  OBVIOUS
<1>2. t \in TagsOf(s) /\ HasDest(InsnOf(s, t)) /\ IsLoad(InsnOf(x, t)) = load
  BY <1>1 DEF SamePlaces, HasDest, IsLoad
<1>3. \A l \in LaneIDs : \A d \in 1 .. Depth[l] + 1 : d \in Registers(l)
  BY Sizes DEF Registers
<1>4. \A l \in LaneIDs : Depth[l] + 1 \in Registers(l)
  BY Sizes DEF Registers
<1>5. Asleep(x, t, load) <=> Asleep(s, t, load)
  BY <1>3 DEF Asleep, SamePlaces, InQueue
<1>6. InTime(s, t, load) => InTime(x, t, load)
  BY <1>4 DEF InTime, SamePlaces
<1> QED
  BY <1>1, <1>2, <1>5, <1>6 DEF Wakes

LEMMA SameActive ==
  ASSUME NEW s, NEW x, x.al = s.al
  PROVE  /\ TagsOf(x) = TagsOf(s) /\ Place(x) = Place(s)
         /\ \A t : /\ Position(x, t) = Position(s, t) /\ InsnOf(x, t) = InsnOf(s, t)
                   /\ Done(x, t) <=> Done(s, t)
<1>1. TagsOf(x) = TagsOf(s)
  BY DEF TagsOf
<1>2. \A t : Position(x, t) = Position(s, t)
  BY DEF Position
<1>3. \A t : InsnOf(x, t) = InsnOf(s, t)
  BY <1>2 DEF InsnOf
<1>4. \A t : Done(x, t) <=> Done(s, t)
  BY DEF Done
<1>5. Place(x) = Place(s)
  BY <1>1, <1>2 DEF Place
<1> QED
  BY <1>1, <1>2, <1>3, <1>4, <1>5

(* The invariant, but for who waits for a.                                 *)
SoundBut(s, a) ==
  /\ s \in Core
  /\ FreeListOK(s.iq) /\ AgeListOK(s.iq, Place(s))
  /\ \A t \in Tags : OnePlace(s, t)
  /\ \A t \in Tags \ {a} : Wakes(s, t)
  /\ \A i \in Slots : s.iq.q[i].valid => s.iq.q[i].tag \in Tags
  /\ ActiveListOK(s) /\ Consumers(s)

LEMMA SoundIs ==
  /\ \A s, a : CoreOK(s) => SoundBut(s, a)
  /\ \A s, a : SoundBut(s, a) /\ Wakes(s, a) => CoreOK(s)
BY DEF CoreOK, SoundBut

(* Active List and consumers when registers only become ready.             *)
LEMMA KeepsActive ==
  ASSUME NEW s, NEW x, x.al = s.al, s.ready \subseteq x.ready, s.written \subseteq x.written,
         ActiveListOK(s)
  PROVE  ActiveListOK(x)
<1>1. /\ TagsOf(x) = TagsOf(s)
      /\ \A t : Position(x, t) = Position(s, t) /\ InsnOf(x, t) = InsnOf(s, t)
  BY SameActive
<1>2. \A j, k \in DOMAIN x.al : x.al[j].tag = x.al[k].tag => j = k
  BY DEF ActiveListOK
<1>3. ASSUME NEW k \in DOMAIN x.al, NEW t \in x.al[k].srcs
      PROVE  IF t \in TagsOf(x) THEN Position(x, t) < k /\ HasDest(InsnOf(x, t))
                                ELSE t \in x.ready /\ t \in x.written
  BY <1>1 DEF ActiveListOK
<1> QED
  BY <1>2, <1>3 DEF ActiveListOK

LEMMA BroadcastIs ==
  ASSUME NEW s \in Core, NEW a \in Tags, NEW x, x = Broadcast(s, a)
  PROVE  /\ x \in Core /\ x.iq = WakeUp(s.iq, a) /\ x.ready = s.ready \cup {a}
         /\ x.rr = s.rr /\ x.ex = s.ex /\ x.wb = s.wb /\ x.written = s.written
         /\ x.stalled = s.stalled /\ x.al = s.al /\ x.ptr = s.ptr
         /\ \A l, d : At(x, l, d) = At(s, l, d)
<1>1. WakeUp(s.iq, a) \in Queue /\ s.ready \cup {a} \in SUBSET Tags
  BY CoreIs, WakeUpIs
<1>2. x = [s EXCEPT !.iq = WakeUp(s.iq, a), !.ready = s.ready \cup {a}]
  BY DEF Broadcast
<1>3. /\ x \in Core /\ x.iq = WakeUp(s.iq, a) /\ x.ready = s.ready \cup {a}
      /\ x.rr = s.rr /\ x.ex = s.ex /\ x.wb = s.wb /\ x.written = s.written
      /\ x.stalled = s.stalled /\ x.al = s.al /\ x.ptr = s.ptr
  BY <1>1, <1>2 DEF Core
<1> QED
  BY <1>3 DEF At

LEMMA BroadcastSound ==
  ASSUME NEW s, NEW a \in Tags, SoundBut(s, a), NEW x, x = Broadcast(s, a)
  PROVE  SoundBut(x, a)
<1>0. s \in Core
  BY DEF SoundBut
<1>1. /\ x \in Core /\ x.iq = WakeUp(s.iq, a) /\ x.ready = s.ready \cup {a}
      /\ x.rr = s.rr /\ x.written = s.written /\ x.stalled = s.stalled /\ x.al = s.al
      /\ \A l, d : At(x, l, d) = At(s, l, d)
  BY <1>0, BroadcastIs
<1>2. \A i \in Slots : /\ x.iq.q[i].valid = s.iq.q[i].valid /\ x.iq.q[i].tag = s.iq.q[i].tag
                       /\ x.iq.q[i].waits = s.iq.q[i].waits \ {a}
  BY <1>0, <1>1, CoreIs, WakeUpIs
<1>3. /\ TagsOf(x) = TagsOf(s) /\ Place(x) = Place(s)
      /\ \A t : /\ InsnOf(x, t) = InsnOf(s, t) /\ (Done(x, t) <=> Done(s, t))
  BY <1>1, SameActive
<1>4. \A t : SamePlaces(s, x, t)
  BY <1>1, <1>2, <1>3 DEF SamePlaces, InSlot
<1>5. \A t \in Tags : OnePlace(x, t)
  BY <1>4, SameOnePlace DEF SoundBut
<1>6. ASSUME NEW t \in Tags \ {a} PROVE Wakes(x, t)
  <2>1. (t \in x.ready <=> t \in s.ready) /\ InsnOf(x, t).op = InsnOf(s, t).op /\ Wakes(s, t)
    BY <1>1, <1>3 DEF SoundBut
  <2> QED
    BY <1>1, <1>4, <2>1, SameWakes
<1>7. FreeListOK(x.iq) /\ AgeListOK(x.iq, Place(x))
  BY <1>0, <1>1, <1>3, CoreIs, WakeUpOK DEF SoundBut
<1>8. ActiveListOK(x)
  BY <1>1, KeepsActive DEF SoundBut
<1>9. Consumers(x)
  <2>1. \A i \in Slots : x.iq.q[i].valid =>
          x.iq.q[i].waits = InsnOf(x, x.iq.q[i].tag).srcs \ x.ready
    <3> TAKE i \in Slots
    <3> HAVE x.iq.q[i].valid
    <3>1. s.iq.q[i].waits = InsnOf(s, s.iq.q[i].tag).srcs \ s.ready
      BY <1>2 DEF SoundBut, Consumers
    <3>2. x.iq.q[i].waits = (InsnOf(s, s.iq.q[i].tag).srcs \ s.ready) \ {a}
      BY <1>2, <3>1
    <3> QED
      BY <1>1, <1>2, <1>3, <3>2
  <2>2. \A l \in LaneIDs : x.rr[l] # None => InsnOf(x, x.rr[l]).srcs \subseteq x.ready
    BY <1>1, <1>3 DEF SoundBut, Consumers
  <2> QED
    BY <2>1, <2>2 DEF Consumers
<1> QED
  BY <1>1, <1>2, <1>5, <1>6, <1>7, <1>8, <1>9 DEF SoundBut

(* A tag moves from register d of a lane to register e.                    *)
LEMMA MoveSound ==
  ASSUME NEW s, NEW a \in Tags, SoundBut(s, a), NEW x \in Core,
         x.iq = s.iq, x.al = s.al, x.stalled = s.stalled, x.ready = s.ready,
         s.written \subseteq x.written, \A t \in x.written : t \in s.written \/ t = a,
         NEW l \in LaneIDs, NEW d \in Registers(l), NEW e \in Registers(l) \ {1, d},
         At(s, l, d) = a, At(s, l, e) = None,
         \A m \in LaneIDs : \A c \in Registers(m) :
           At(x, m, c) = IF m = l /\ c = d THEN None
                         ELSE IF m = l /\ c = e THEN a ELSE At(s, m, c)
  PROVE  SoundBut(x, a)
<1>0. s \in Core /\ a # None
  BY Sizes DEF SoundBut
<1>1. /\ TagsOf(x) = TagsOf(s) /\ Place(x) = Place(s)
      /\ \A t : /\ InsnOf(x, t) = InsnOf(s, t) /\ (Done(x, t) <=> Done(s, t))
  BY SameActive
<1>2. ASSUME NEW t \in Tags \ {a} PROVE SamePlaces(s, x, t)
  <2>1. t # None
    BY Sizes
  <2>2. \A m \in LaneIDs : \A c \in Registers(m) : At(x, m, c) = t <=> At(s, m, c) = t
    BY <2>1
  <2> QED
    BY <1>1, <2>2 DEF SamePlaces, InSlot
<1>3. ASSUME NEW t \in Tags \ {a} PROVE Wakes(x, t)
  <2>1. Wakes(s, t) /\ InsnOf(x, t).op = InsnOf(s, t).op
    BY <1>1 DEF SoundBut
  <2> QED
    BY <1>2, <2>1, SameWakes
<1>4. OnePlace(x, a)
  <2>1. OnePlace(s, a)
    BY DEF SoundBut
  <2>2. InLane(s, a)
    BY DEF InLane
  <2>3. \A m \in LaneIDs : \A c \in Registers(m) : At(x, m, c) = a <=> m = l /\ c = e
    BY <1>0, <2>1 DEF OnePlace
  <2>4. InLane(x, a)
    BY <2>3 DEF InLane
  <2>5. (InQueue(x, a) <=> InQueue(s, a)) /\ \A i : InSlot(x, i, a) <=> InSlot(s, i, a)
    BY DEF InQueue, InSlot
  <2>6. \A m, n \in LaneIDs : \A c \in Registers(m), b \in Registers(n) :
          At(x, m, c) = a /\ At(x, n, b) = a => m = n /\ c = b
    BY <2>3
  <2> QED
    BY <1>1, <2>1, <2>2, <2>4, <2>5, <2>6 DEF OnePlace
<1>5. \A t \in Tags : OnePlace(x, t)
  BY <1>2, <1>4, SameOnePlace DEF SoundBut
<1>6. ActiveListOK(x)
  BY KeepsActive DEF SoundBut
<1>7. Consumers(x)
  <2>1. \A m \in LaneIDs : x.rr[m] = None \/ x.rr[m] = s.rr[m]
    <3> TAKE m \in LaneIDs
    <3>1. 1 \in Registers(m) /\ At(x, m, 1) = x.rr[m] /\ At(s, m, 1) = s.rr[m]
      BY <1>0, AtIs, Sizes DEF Registers
    <3> QED
      BY <3>1
  <2> QED
    BY <1>1, <2>1 DEF SoundBut, Consumers
<1> QED
  BY <1>1, <1>3, <1>5, <1>6, <1>7 DEF SoundBut

(* A tag that is in one register only.                                     *)
LEMMA OnlyRegister ==
  ASSUME NEW s, NEW a, OnePlace(s, a), NEW l \in LaneIDs, NEW d \in Registers(l), At(s, l, d) = a
  PROVE  /\ a \in TagsOf(s) /\ ~InQueue(s, a) /\ a \notin s.stalled /\ ~Done(s, a)
         /\ \A m \in LaneIDs : \A c \in Registers(m) : At(s, m, c) = a => m = l /\ c = d
         /\ \A load : Asleep(s, a, load) <=> (d # Depth[l] + 2 /\ (load \/ d <= Depth[l]))
<1>1. InLane(s, a)
  BY DEF InLane
<1>2. \A m \in LaneIDs : \A c \in Registers(m) : At(s, m, c) = a => m = l /\ c = d
  BY DEF OnePlace
<1>3. a \in TagsOf(s) /\ ~InQueue(s, a) /\ a \notin s.stalled /\ ~Done(s, a)
  BY <1>1 DEF OnePlace
<1>4. \A m \in LaneIDs : \A c \in 1 .. Depth[m] + 1 : c \in Registers(m)
  BY Sizes DEF Registers
<1>5. d \in 1 .. Depth[l] + 1 <=> d # Depth[l] + 2
  BY Sizes DEF Registers
<1>6. ASSUME NEW load
      PROVE  Asleep(s, a, load) <=> (d # Depth[l] + 2 /\ (load \/ d <= Depth[l]))
  BY <1>2, <1>3, <1>4, <1>5 DEF Asleep
<1> QED
  BY <1>2, <1>3, <1>6

LEMMA RegisterReadOK ==
  ASSUME NEW s, CoreOK(s), NEW l \in LaneIDs, At(s, l, 2) = None, NEW x, x = RegisterRead(s, l)
  PROVE  CoreOK(x) /\ \A m \in LaneIDs \ {l} : \A c \in Registers(m) : At(x, m, c) = At(s, m, c)
<1>0. s \in Core /\ SoundBut(s, s.rr[l])
  BY SoundIs DEF CoreOK
<1>1. CASE s.rr[l] = None
  BY <1>1 DEF RegisterRead
<1>2. CASE s.rr[l] # None
  <2>1. PICK a \in Tags : a = s.rr[l]
    BY <1>0, <1>2, CoreIs DEF NoTag
  <2>2. PICK wakes \in BOOLEAN : wakes <=> Depth[l] = 1 /\ WakesEarly(InsnOf(s, a))
    OBVIOUS
  <2>3. PICK w : w = IF wakes THEN Broadcast(s, a) ELSE s
    OBVIOUS
  <2>4. /\ SoundBut(w, a) /\ w \in Core /\ w.al = s.al /\ w.rr = s.rr /\ w.ex = s.ex /\ w.wb = s.wb
        /\ w.ready = (IF wakes THEN s.ready \cup {a} ELSE s.ready)
        /\ \A m, c : At(w, m, c) = At(s, m, c)
    <3>1. CASE wakes
      BY <1>0, <2>1, <2>3, <3>1, BroadcastIs, BroadcastSound
    <3>2. CASE ~wakes
      BY <1>0, <2>1, <2>3, <3>2
    <3> QED
      BY <3>1, <3>2
  <2>5. x = [w EXCEPT !.ex = Put(@, l, Put(@[l], 1, a)), !.rr = Put(@, l, None)]
    BY <1>2, <2>1, <2>2, <2>3 DEF RegisterRead
  <2>6. /\ 1 \in 1 .. Depth[l] /\ 1 \in Registers(l) /\ 2 \in Registers(l) \ {1} /\ 2 # Depth[l] + 2
    BY Sizes DEF Registers
  <2>8. PICK f : f = Put(w.ex, l, Put(w.ex[l], 1, a))
    OBVIOUS
  <2>9. PICK r : r = Put(w.rr, l, None)
    OBVIOUS

  <2>11. /\ r \in [LaneIDs -> NoTag] /\ \A m \in LaneIDs : r[m] = IF m = l THEN None ELSE w.rr[m]
    BY <2>4, <2>9, CoreIs DEF Put, NoTag
  <2>12. /\ f \in Stages
         /\ \A m \in LaneIDs : \A c \in 1 .. Depth[m] :
              f[m][c] = IF m = l /\ c = 1 THEN a ELSE w.ex[m][c]
    <3>1. w.ex \in Stages /\ a \in NoTag
      BY <2>4 DEF Core, NoTag
    <3> QED
      BY <2>6, <2>8, <3>1, PutRegisterIs
  <2>13. /\ x \in Core /\ x.ex = f /\ x.rr = r /\ x.wb = w.wb /\ x.iq = w.iq /\ x.al = w.al
         /\ x.stalled = w.stalled /\ x.ready = w.ready /\ x.written = w.written
    <3>1. x = [w EXCEPT !.ex = f, !.rr = r]
      BY <2>5, <2>8, <2>9
    <3>2. f \in Stages /\ r \in [LaneIDs -> NoTag]
      BY <2>11, <2>12
    <3> QED
      BY <2>4, <3>1, <3>2, ZenonT(60) DEF Core
  <2>14. ASSUME NEW m \in LaneIDs, NEW c \in Registers(m)
         PROVE  At(x, m, c) = IF m = l /\ c = 1 THEN None
                              ELSE IF m = l /\ c = 2 THEN a ELSE At(w, m, c)
    <3>1. CASE c = 1
      BY <2>11, <2>13, <3>1 DEF At
    <3>2. CASE c = Depth[m] + 2
      BY <2>6, <2>13, <3>2, Sizes DEF At
    <3>3. CASE c # 1 /\ c # Depth[m] + 2
      <4>1. c - 1 \in 1 .. Depth[m] /\ At(w, m, c) = w.ex[m][c - 1]
        BY <2>4, <3>3, AtIs
      <4>2. c \in Int /\ (c - 1 = 1 <=> c = 2)
        BY Sizes DEF Registers
      <4>3. At(x, m, c) = f[m][c - 1]
        BY <2>13, <3>3 DEF At
      <4> QED
        BY <2>12, <3>3, <4>1, <4>2, <4>3
    <3> QED
      BY <3>1, <3>2, <3>3
  <2>15. At(w, l, 1) = a /\ At(w, l, 2) = None /\ At(s, l, 1) = a
    BY <1>0, <2>1, <2>4, AtIs
  <2>16. SoundBut(x, a)
    BY <2>4, <2>6, <2>13, <2>14, <2>15, MoveSound
  <2>17. Wakes(x, a)
    <3>1. OnePlace(s, a) /\ OnePlace(x, a) /\ Wakes(s, a)
      BY <2>16 DEF CoreOK, SoundBut
    <3>2. PICK insn : insn = InsnOf(s, a)
      OBVIOUS
    <3>3. InsnOf(x, a) = insn
      BY <2>4, <2>13, <3>2, SameActive
    <3>4. At(x, l, 2) = a
      BY <2>6, <2>14
    <3>5. /\ Asleep(x, a, IsLoad(insn)) <=> (IsLoad(insn) \/ 2 <= Depth[l])
          /\ Asleep(s, a, IsLoad(insn)) /\ a \in TagsOf(s)
      BY <2>6, <2>15, <3>1, <3>4, OnlyRegister, Sizes
    <3> SUFFICES ASSUME HasDest(insn)
                 PROVE  /\ a \in x.ready <=> ~Asleep(x, a, IsLoad(insn))
                        /\ a \in x.ready => InTime(x, a, IsLoad(insn))
      BY <3>3 DEF Wakes
    <3>6. a \notin s.ready
      BY <3>1, <3>2, <3>5 DEF Wakes
    <3>7. a \in x.ready <=> wakes
      BY <2>4, <2>13, <3>6
    <3>8. wakes <=> (Depth[l] = 1 /\ ~IsLoad(insn))
      BY <2>2, <3>2 DEF WakesEarly
    <3>9. Depth[l] = 1 <=> ~(2 <= Depth[l])
      BY Sizes
    <3>10. Depth[l] = 1 => At(x, l, Depth[l] + 1) = a
      BY <3>4
    <3> QED
      BY <3>5, <3>7, <3>8, <3>9, <3>10 DEF InTime
  <2>18. \A m \in LaneIDs \ {l} : \A c \in Registers(m) : At(x, m, c) = At(s, m, c)
    BY <2>4, <2>14
  <2> QED
    BY <2>16, <2>17, <2>18, SoundIs
<1> QED
  BY <1>1, <1>2

(* The same instructions, and but for a as far.                            *)
SameInsns(s, x, a) ==
  /\ x.al \in Seq(Insn) /\ DOMAIN x.al = DOMAIN s.al
  /\ \A k \in DOMAIN s.al :
       /\ x.al[k].tag = s.al[k].tag /\ x.al[k].op = s.al[k].op /\ x.al[k].srcs = s.al[k].srcs
       /\ s.al[k].tag # a => x.al[k].completed = s.al[k].completed

LEMMA SameInsnsIs ==
  ASSUME NEW s, NEW x, NEW a, s.al \in Seq(Insn), Distinct(s), SameInsns(s, x, a)
  PROVE  /\ Distinct(x) /\ TagsOf(x) = TagsOf(s) /\ Place(x) = Place(s)
         /\ \A t \in TagsOf(s) : /\ Position(x, t) = Position(s, t)
                                 /\ InsnOf(x, t).op = InsnOf(s, t).op
                                 /\ InsnOf(x, t).srcs = InsnOf(s, t).srcs
         /\ \A t : t # a => (Done(x, t) <=> Done(s, t))
<1>1. Distinct(x) /\ x.al \in Seq(Insn)
  BY DEF Distinct, SameInsns
<1>2. TagsOf(x) = TagsOf(s)
  BY DEF TagsOf, SameInsns
<1>3. ASSUME NEW t \in TagsOf(s)
      PROVE  /\ Position(x, t) = Position(s, t)
             /\ InsnOf(x, t).op = InsnOf(s, t).op
             /\ InsnOf(x, t).srcs = InsnOf(s, t).srcs
  <2>1. PICK k \in DOMAIN s.al : k = Position(s, t) /\ s.al[k].tag = t
    BY ActiveIs
  <2>2. InsnOf(s, t) = s.al[k]
    BY <2>1, ActiveIs
  <2>3. k \in DOMAIN x.al /\ x.al[k].tag = t
    BY <2>1 DEF SameInsns
  <2>4. Position(x, t) = k /\ InsnOf(x, t) = x.al[k]
    BY <1>1, <2>3, ActiveIs
  <2> QED
    BY <2>1, <2>2, <2>4 DEF SameInsns
<1>4. Place(x) = Place(s)
  BY <1>2, <1>3 DEF Place
<1>5. ASSUME NEW t, t # a PROVE Done(x, t) <=> Done(s, t)
  BY <1>5 DEF Done, SameInsns
<1> QED
  BY <1>1, <1>2, <1>3, <1>4, <1>5

(* A step that puts a elsewhere and leaves the others where they are.      *)
LEMMA OthersSound ==
  ASSUME NEW s, NEW a \in Tags, SoundBut(s, a), NEW x \in Core,
         x.iq = s.iq, x.ready = s.ready, s.written \subseteq x.written, SameInsns(s, x, a),
         \A m \in LaneIDs : x.rr[m] = None \/ x.rr[m] = s.rr[m],
         \A t \in Tags \ {a} : t \in x.stalled <=> t \in s.stalled,
         \A t \in Tags \ {a} : \A m \in LaneIDs : \A c \in Registers(m) :
           At(x, m, c) = t <=> At(s, m, c) = t,
         OnePlace(x, a)
  PROVE  SoundBut(x, a)
<1>1. s \in Core /\ s.al \in Seq(Insn) /\ Distinct(s)
  BY CoreIs DEF SoundBut, ActiveListOK, Distinct
<1>2. /\ Distinct(x) /\ TagsOf(x) = TagsOf(s) /\ Place(x) = Place(s)
      /\ \A t \in TagsOf(s) : /\ Position(x, t) = Position(s, t)
                              /\ InsnOf(x, t).op = InsnOf(s, t).op
                              /\ InsnOf(x, t).srcs = InsnOf(s, t).srcs
      /\ \A t : t # a => (Done(x, t) <=> Done(s, t))
  BY <1>1, SameInsnsIs
<1>3. ASSUME NEW t \in Tags \ {a} PROVE SamePlaces(s, x, t)
  BY <1>2 DEF SamePlaces, InSlot
<1>4. ASSUME NEW t \in Tags \ {a} PROVE OnePlace(x, t) /\ Wakes(x, t)
  <2>1. Wakes(s, t) /\ OnePlace(s, t)
    BY DEF SoundBut
  <2>2. t \in TagsOf(s) => InsnOf(x, t).op = InsnOf(s, t).op
    BY <1>2
  <2> QED
    BY <1>3, <2>1, <2>2, SameWakes, SameOnePlace
<1>5. ActiveListOK(x)
  <2>1. ASSUME NEW k \in DOMAIN x.al, NEW t \in x.al[k].srcs
        PROVE  IF t \in TagsOf(x) THEN Position(x, t) < k /\ HasDest(InsnOf(x, t))
                                  ELSE t \in x.ready /\ t \in x.written
    <3>1. k \in DOMAIN s.al /\ t \in s.al[k].srcs
      BY DEF SameInsns
    <3>2. IF t \in TagsOf(s) THEN Position(s, t) < k /\ HasDest(InsnOf(s, t))
                             ELSE t \in s.ready /\ t \in s.written
      BY <3>1 DEF SoundBut, ActiveListOK
    <3>3. t \in TagsOf(s) => Position(x, t) = Position(s, t) /\ InsnOf(x, t).op = InsnOf(s, t).op
      BY <1>2
    <3>4. x.ready = s.ready /\ s.written \subseteq x.written /\ TagsOf(x) = TagsOf(s)
      BY <1>2
    <3> QED
      BY <3>2, <3>3, <3>4 DEF HasDest
  <2> QED
    BY <1>2, <2>1 DEF ActiveListOK, Distinct
<1>6. Consumers(x)
  <2>1. \A i \in Slots : x.iq.q[i].valid =>
          x.iq.q[i].waits = InsnOf(x, x.iq.q[i].tag).srcs \ x.ready
    <3> TAKE i \in Slots
    <3> HAVE x.iq.q[i].valid
    <3>0. s.iq.q[i].valid
      OBVIOUS
    <3>1. PICK t \in Tags : t = s.iq.q[i].tag
      BY <3>0 DEF SoundBut
    <3>2. t \in TagsOf(s)
      <4>1. InQueue(s, t) /\ OnePlace(s, t)
        BY <3>0, <3>1 DEF InQueue, InSlot, SoundBut
      <4> QED
        BY <4>1 DEF OnePlace
    <3>3. s.iq.q[i].waits = InsnOf(s, t).srcs \ s.ready
      BY <3>0, <3>1 DEF SoundBut, Consumers
    <3> QED
      BY <1>2, <3>1, <3>2, <3>3
  <2>2. \A l \in LaneIDs : x.rr[l] # None => InsnOf(x, x.rr[l]).srcs \subseteq x.ready
    <3> TAKE l \in LaneIDs
    <3> HAVE x.rr[l] # None
    <3>1. PICK t \in Tags : t = s.rr[l] /\ t = x.rr[l]
      BY <1>1, CoreIs DEF NoTag
    <3>2. t \in TagsOf(s)
      <4>0. At(s, l, 1) = t /\ 1 \in Registers(l)
        BY <1>1, <3>1, AtIs, Sizes DEF Registers
      <4>1. InLane(s, t) /\ OnePlace(s, t)
        BY <4>0 DEF InLane, SoundBut
      <4> QED
        BY <4>1 DEF OnePlace
    <3>3. InsnOf(s, t).srcs \subseteq s.ready
      BY <3>1 DEF SoundBut, Consumers
    <3> QED
      BY <1>2, <3>1, <3>2, <3>3
  <2> QED
    BY <2>1, <2>2 DEF Consumers
<1> QED
  BY <1>2, <1>4, <1>5, <1>6 DEF SoundBut

(* A tag that is neither queued nor in a lane.                             *)
LEMMA NoRegister ==
  ASSUME NEW s, NEW x \in Core, NEW a, OnePlace(s, a), x.iq = s.iq,
         ~InQueue(s, a), TagsOf(x) = TagsOf(s), a \in TagsOf(s),
         \A m \in LaneIDs : \A c \in Registers(m) : At(x, m, c) # a,
         a \in x.stalled <=> ~Done(x, a)
  PROVE  OnePlace(x, a) /\ ~InQueue(x, a) /\ ~InLane(x, a)
         /\ \A load : Asleep(x, a, load) <=> a \in x.stalled
<1>1. ~InQueue(x, a) /\ \A i : InSlot(x, i, a) <=> InSlot(s, i, a)
  BY DEF InQueue, InSlot
<1>2. ~InLane(x, a)
  BY DEF InLane
<1>3. OnePlace(x, a)
  BY <1>1, <1>2 DEF OnePlace
<1>4. \A m \in LaneIDs : \A c \in 1 .. Depth[m] + 1 : c \in Registers(m)
  BY Sizes DEF Registers
<1> QED
  BY <1>1, <1>2, <1>3, <1>4 DEF Asleep

LEMMA ClearIs ==
  ASSUME NEW s \in Core, NEW l \in LaneIDs, NEW x \in Core, x.rr = s.rr, x.wb = s.wb,
         x.ex = Put(s.ex, l, Put(s.ex[l], Depth[l], None))
  PROVE  \A m \in LaneIDs : \A c \in Registers(m) :
           At(x, m, c) = IF m = l /\ c = Depth[l] + 1 THEN None ELSE At(s, m, c)
<1> SUFFICES ASSUME NEW m \in LaneIDs, NEW c \in Registers(m)
             PROVE  At(x, m, c) = IF m = l /\ c = Depth[l] + 1 THEN None ELSE At(s, m, c)
  OBVIOUS
<1>0. s.ex \in Stages /\ None \in NoTag
  BY DEF Core, NoTag
<1>1. s.ex \in Stages /\ None \in NoTag /\ Depth[l] \in 1 .. Depth[l]
  BY <1>0, Sizes
<1>2. \A n \in LaneIDs : \A d \in 1 .. Depth[n] :
        x.ex[n][d] = IF n = l /\ d = Depth[l] THEN None ELSE s.ex[n][d]
  BY <1>1, PutRegisterIs
<1>3. c \in Int /\ (c - 1 = Depth[l] <=> c = Depth[l] + 1) /\ Depth[m] + 2 # Depth[m] + 1
      /\ Depth[l] + 1 # 1 /\ Depth[m] \in Nat /\ Depth[l] \in Nat
  BY Sizes DEF Registers
<1>4. CASE c = 1
  BY <1>3, <1>4 DEF At
<1>5. CASE c = Depth[m] + 2
  BY <1>3, <1>5 DEF At
<1>6. CASE c # 1 /\ c # Depth[m] + 2
  <2>1. c - 1 \in 1 .. Depth[m] /\ At(s, m, c) = s.ex[m][c - 1]
    BY <1>6, AtIs
  <2>2. At(x, m, c) = x.ex[m][c - 1]
    BY <1>6 DEF At
  <2> QED
    BY <1>2, <1>3, <2>1, <2>2
<1> QED
  BY <1>4, <1>5, <1>6

LEMMA FinishOK ==
  ASSUME NEW s, CoreOK(s), NEW l \in LaneIDs, At(s, l, Depth[l] + 2) = None,
         NEW hits, NEW x, x = Finish(hits, s, l)
  PROVE  /\ CoreOK(x) /\ At(x, l, Depth[l] + 1) = None
         /\ \A m \in LaneIDs \ {l} : \A c \in Registers(m) : At(x, m, c) = At(s, m, c)
<1>0. s \in Core /\ SoundBut(s, s.ex[l][Depth[l]])
  BY SoundIs DEF CoreOK
<1>1. /\ Depth[l] \in 1 .. Depth[l] /\ Depth[l] \in Nat
      /\ Depth[l] + 1 \in Registers(l) /\ Depth[l] + 2 \in Registers(l) \ {1, Depth[l] + 1}
  BY Sizes DEF Registers
<1>2. At(s, l, Depth[l] + 1) = s.ex[l][Depth[l]]
  BY <1>0, <1>1, AtIs
<1>3. CASE s.ex[l][Depth[l]] = None
  <2>1. x = s
    BY <1>3 DEF Finish
  <2> QED
    BY <1>2, <1>3, <2>1
<1>4. CASE s.ex[l][Depth[l]] # None
  <2>1. PICK a \in Tags : a = s.ex[l][Depth[l]]
    BY <1>0, <1>1, <1>2, <1>4, AtIs DEF NoTag
  <2>2. PICK insn : insn = InsnOf(s, a)
    OBVIOUS
  <2>3. /\ OnePlace(s, a) /\ a \in TagsOf(s) /\ ~InQueue(s, a) /\ a \notin s.stalled /\ ~Done(s, a)
        /\ \A m \in LaneIDs : \A c \in Registers(m) : At(s, m, c) = a => m = l /\ c = Depth[l] + 1
        /\ \A load : Asleep(s, a, load) <=> load
    <3>1. OnePlace(s, a)
      BY DEF CoreOK
    <3>2. ~(Depth[l] + 1 <= Depth[l])
      BY <1>1
    <3>3. \A load : Asleep(s, a, load) <=> (Depth[l] + 1 # Depth[l] + 2 /\ (load \/ Depth[l] + 1 <= Depth[l]))
      BY <1>1, <1>2, <2>1, <3>1, OnlyRegister
    <3>4. \A load : Asleep(s, a, load) <=> load
      BY <1>1, <3>2, <3>3
    <3> QED
      BY <1>1, <1>2, <2>1, <3>1, <3>4, OnlyRegister
  <2>4. insn.op \in Ops /\ (IsLoad(insn) => HasDest(insn))
    <3>1. s.al \in Seq(Insn) /\ Distinct(s)
      BY <1>0, CoreIs DEF CoreOK, ActiveListOK, Distinct
    <3>2. insn.op \in Ops
      BY <2>2, <2>3, <3>1, ActiveIs
    <3> QED
      BY <3>2, IssueQueueAssumption DEF IsLoad, HasDest
  <2>5. PICK f : f = Put(s.ex, l, Put(s.ex[l], Depth[l], None))
    OBVIOUS
  <2>6. f \in Stages
    BY <1>0, <1>1, <2>5, PutRegisterIs, Sizes DEF Core, NoTag
  <2>7. CASE IsLoad(insn) /\ a \notin hits
    <3>0. PICK stalled_ \in SUBSET Tags : stalled_ = s.stalled \cup {a}
      BY <1>0, CoreIs
    <3>1. x = [s EXCEPT !.stalled = stalled_, !.ex = f]
      BY <1>4, <2>1, <2>2, <2>5, <2>7, <3>0 DEF Finish
    <3>2. /\ x \in Core /\ x.stalled = s.stalled \cup {a} /\ x.ex = f /\ x.rr = s.rr /\ x.wb = s.wb
          /\ x.iq = s.iq /\ x.al = s.al /\ x.ready = s.ready /\ x.written = s.written
      BY <1>0, <2>6, <3>0, <3>1 DEF Core
    <3>3. \A m \in LaneIDs : \A c \in Registers(m) :
            At(x, m, c) = IF m = l /\ c = Depth[l] + 1 THEN None ELSE At(s, m, c)
      BY <1>0, <2>5, <3>2, ClearIs
    <3>4. \A m \in LaneIDs : \A c \in Registers(m) : At(x, m, c) # a
      BY <2>3, <3>3, Sizes
    <3>5. /\ TagsOf(x) = TagsOf(s) /\ InsnOf(x, a) = insn /\ ~Done(x, a)
      BY <2>2, <2>3, <3>2, SameActive
    <3>6. OnePlace(x, a) /\ Asleep(x, a, TRUE)
      BY <2>3, <3>2, <3>4, <3>5, NoRegister
    <3>7. SameInsns(s, x, a)
      BY <1>0, <3>2, CoreIs DEF SameInsns
    <3>8. \A t \in Tags \ {a} : \A m \in LaneIDs : \A c \in Registers(m) :
            At(x, m, c) = t <=> At(s, m, c) = t
      <4>1. \A t \in Tags : t # None
        BY Sizes
      <4> QED
        BY <1>2, <2>1, <3>3, <4>1
    <3>9. SoundBut(x, a)
      BY <1>0, <2>1, <3>2, <3>6, <3>7, <3>8, OthersSound
    <3>10. Wakes(x, a)
      <4>1. Wakes(s, a) /\ Asleep(s, a, TRUE) /\ IsLoad(insn) \in BOOLEAN
        BY <2>3, <2>4, IssueQueueAssumption DEF CoreOK, IsLoad
      <4>2. Asleep(x, a, IsLoad(insn)) /\ Asleep(s, a, IsLoad(insn))
        BY <2>7, <3>6, <4>1
      <4> QED
        BY <2>2, <2>3, <3>2, <3>5, <4>1, <4>2 DEF Wakes
    <3> QED
      BY <1>1, <3>3, <3>9, <3>10, SoundIs
  <2>8. CASE ~(IsLoad(insn) /\ a \notin hits)
    <3>1. PICK b : b = IF IsLoad(insn) THEN Broadcast(s, a) ELSE s
      OBVIOUS
    <3>2. /\ SoundBut(b, a) /\ b \in Core /\ b.al = s.al /\ b.rr = s.rr /\ b.ex = s.ex /\ b.wb = s.wb
          /\ b.written = s.written
          /\ b.ready = (IF IsLoad(insn) THEN s.ready \cup {a} ELSE s.ready)
          /\ \A m, c : At(b, m, c) = At(s, m, c)
      <4>1. CASE IsLoad(insn)
        BY <1>0, <2>1, <3>1, <4>1, BroadcastIs, BroadcastSound
      <4>2. CASE ~IsLoad(insn)
        BY <1>0, <2>1, <3>1, <4>2
      <4> QED
        BY <4>1, <4>2
    <3>3. PICK wr : wr = IF HasDest(insn) THEN b.written \cup {a} ELSE b.written
      OBVIOUS
    <3>4. PICK wb_ : wb_ = Put(b.wb, l, a)
      OBVIOUS
    <3>5. wb_ \in [LaneIDs -> NoTag] /\ \A m \in LaneIDs : wb_[m] = IF m = l THEN a ELSE b.wb[m]
      BY <3>2, <3>4, CoreIs DEF Put, NoTag
    <3>6. wr \in SUBSET Tags /\ b.written \subseteq wr /\ \A t \in wr : t \in b.written \/ t = a
      BY <3>2, <3>3, CoreIs
    <3>7. PICK done : done = IF IsLoad(insn) THEN LoadHit(s, a)
                             ELSE IF HasDest(insn) THEN [s EXCEPT !.written = @ \cup {a}] ELSE s
      OBVIOUS
    <3>8. done = [b EXCEPT !.written = wr]
      <4>1. CASE IsLoad(insn)
        <5>1. LoadHit(s, a) = [b EXCEPT !.written = @ \cup {a}]
          BY <3>1, <4>1 DEF LoadHit
        <5> QED
          BY <2>4, <3>3, <3>7, <4>1, <5>1
      <4>2. CASE ~IsLoad(insn) /\ HasDest(insn)
        BY <3>1, <3>3, <3>7, <4>2
      <4>3. CASE ~IsLoad(insn) /\ ~HasDest(insn)
        <5>1. done = b /\ wr = b.written
          BY <3>1, <3>3, <3>7, <4>3
        <5> QED
          BY <3>2, <5>1 DEF Core
      <4> QED
        BY <4>1, <4>2, <4>3
    <3>9. /\ done \in Core /\ done.written = wr /\ done.iq = b.iq /\ done.rr = b.rr
          /\ done.ex = b.ex /\ done.wb = b.wb /\ done.ready = b.ready /\ done.stalled = b.stalled
          /\ done.al = b.al /\ done.ptr = b.ptr
      BY <3>2, <3>6, <3>8 DEF Core
    <3>10. x = [done EXCEPT !.wb = wb_, !.ex = f]
      <4>1. x = [done EXCEPT !.wb = Put(@, l, a), !.ex = Put(@, l, Put(@[l], Depth[l], None))]
        BY <1>4, <2>1, <2>2, <2>8, <3>7 DEF Finish
      <4> QED
        BY <2>5, <3>2, <3>4, <3>9, <4>1
    <3>11. /\ x \in Core /\ x.iq = b.iq /\ x.rr = b.rr /\ x.ex = f /\ x.wb = wb_ /\ x.ready = b.ready
           /\ x.written = wr /\ x.stalled = b.stalled /\ x.al = b.al
      BY <2>6, <3>5, <3>9, <3>10 DEF Core
    <3>12. ASSUME NEW m \in LaneIDs, NEW c \in Registers(m)
           PROVE  At(x, m, c) = IF m = l /\ c = Depth[l] + 1 THEN None
                                ELSE IF m = l /\ c = Depth[l] + 2 THEN a ELSE At(b, m, c)
      <4>1. PICK y : y = [b EXCEPT !.ex = f]
        OBVIOUS
      <4>2. y \in Core /\ y.rr = b.rr /\ y.wb = b.wb /\ y.ex = f
        BY <2>6, <3>2, <4>1 DEF Core
      <4>3. At(y, m, c) = IF m = l /\ c = Depth[l] + 1 THEN None ELSE At(b, m, c)
        BY <2>5, <3>2, <4>2, ClearIs
      <4>4. c = Depth[m] + 2 => c # 1
        BY Sizes
      <4>5. CASE c = Depth[m] + 2
        BY <1>1, <3>2, <3>5, <3>11, <4>4, <4>5, Sizes DEF At
      <4>6. CASE c # Depth[m] + 2
        <5>1. At(x, m, c) = At(y, m, c)
          BY <3>11, <4>2, <4>6 DEF At
        <5> QED
          BY <4>3, <4>6, <5>1
      <4> QED
        BY <4>5, <4>6
    <3>13. SoundBut(x, a)
      BY <1>1, <1>2, <2>1, <3>2, <3>6, <3>11, <3>12, MoveSound
    <3>14. Wakes(x, a)
      <4>1. OnePlace(x, a) /\ At(x, l, Depth[l] + 2) = a /\ Wakes(s, a)
        BY <1>1, <3>12, <3>13 DEF CoreOK, SoundBut
      <4>2. \A load : ~Asleep(x, a, load)
        BY <1>1, <4>1, OnlyRegister
      <4>3. InsnOf(x, a) = insn
        BY <2>2, <3>2, <3>11, SameActive
      <4>4. HasDest(insn) => a \in x.ready /\ a \in x.written
        <5>1. IsLoad(insn) => a \in x.ready
          BY <3>2, <3>11
        <5>2. ~IsLoad(insn) /\ HasDest(insn) => a \in s.ready
          BY <2>2, <2>3, <4>1 DEF Wakes
        <5> QED
          BY <3>2, <3>3, <3>11, <5>1, <5>2
      <4> QED
        BY <4>2, <4>3, <4>4 DEF Wakes, InTime
    <3> QED
      BY <1>1, <3>2, <3>12, <3>13, <3>14, SoundIs
  <2> QED
    BY <2>7, <2>8
<1> QED
  BY <1>3, <1>4

LEMMA AdvanceIs ==
  ASSUME NEW w \in Core, NEW l \in LaneIDs, NEW x, x = Advance(w, l)
  PROVE  /\ x \in Core /\ x.iq = w.iq /\ x.rr = w.rr /\ x.wb = w.wb /\ x.ready = w.ready
         /\ x.written = w.written /\ x.stalled = w.stalled /\ x.al = w.al
         /\ \A m \in LaneIDs : \A c \in Registers(m) :
              At(x, m, c) = IF m # l \/ c = 1 \/ c = Depth[m] + 2 THEN At(w, m, c)
                            ELSE IF c = 2 THEN None ELSE At(w, m, c - 1)
<1>1. PICK g : g = [d \in 1 .. Depth[l] |-> IF d = 1 THEN None ELSE w.ex[l][d - 1]]
  OBVIOUS
<1>2. w.ex \in Stages /\ w.ex[l] \in [1 .. Depth[l] -> NoTag]
  BY DEF Core, Stages
<1>3. g \in [1 .. Depth[l] -> NoTag]
  <2>1. Depth[l] \in Nat /\ None \in NoTag
    BY Sizes DEF NoTag
  <2>2. \A d \in 1 .. Depth[l] : d # 1 => d - 1 \in 1 .. Depth[l]
    BY <2>1
  <2> QED
    BY <1>1, <1>2, <2>1, <2>2
<1>4. PICK f : f = Put(w.ex, l, g)
  OBVIOUS
<1>5. f \in Stages /\ \A m \in LaneIDs : f[m] = IF m = l THEN g ELSE w.ex[m]
  BY <1>2, <1>3, <1>4, PutStageIs
<1>6. x = [w EXCEPT !.ex = f]
  BY <1>1, <1>4 DEF Advance
<1>7. /\ x \in Core /\ x.iq = w.iq /\ x.rr = w.rr /\ x.wb = w.wb /\ x.ready = w.ready
      /\ x.written = w.written /\ x.stalled = w.stalled /\ x.al = w.al /\ x.ex = f
  BY <1>5, <1>6 DEF Core
<1>8. ASSUME NEW m \in LaneIDs, NEW c \in Registers(m)
      PROVE  At(x, m, c) = IF m # l \/ c = 1 \/ c = Depth[m] + 2 THEN At(w, m, c)
                           ELSE IF c = 2 THEN None ELSE At(w, m, c - 1)
  <2>1. Depth[m] \in Nat /\ c \in Nat
    BY Sizes DEF Registers
  <2>2. CASE m # l \/ c = 1 \/ c = Depth[m] + 2
    BY <1>5, <1>7, <2>2 DEF At
  <2>3. CASE ~(m # l \/ c = 1 \/ c = Depth[m] + 2)
    <3>1. At(x, m, c) = g[c - 1] /\ c - 1 \in 1 .. Depth[l] /\ (c - 1 = 1 <=> c = 2)
      BY <1>5, <1>7, <2>1, <2>3 DEF At, Registers
    <3>2. CASE c = 2
      BY <1>1, <2>3, <3>1, <3>2
    <3>3. CASE c # 2
      <4>1. g[c - 1] = w.ex[l][c - 1 - 1]
        BY <1>1, <3>1, <3>3
      <4>2. At(w, m, c - 1) = w.ex[l][c - 1 - 1]
        BY <2>1, <2>3, <3>1, <3>3 DEF At, Registers
      <4> QED
        BY <2>3, <3>1, <3>3, <4>1, <4>2
    <3> QED
      BY <3>2, <3>3
  <2> QED
    BY <2>2, <2>3
<1> QED
  BY <1>7, <1>8

(* The tags of a lane move on by one register, and none falls off its end. *)
LEMMA AdvancePlaces ==
  ASSUME NEW w \in Core, NEW l \in LaneIDs, At(w, l, Depth[l] + 1) = None,
         NEW x, x = Advance(w, l), NEW t \in Tags, OnePlace(w, t)
  PROVE  /\ OnePlace(x, t)
         /\ \A load : Asleep(x, t, load) <=>
              (Asleep(w, t, load) /\ (load \/ Depth[l] = 1 \/ At(w, l, Depth[l]) # t))
         /\ \A load : InTime(w, t, load) => InTime(x, t, load)
         /\ Depth[l] > 1 /\ At(w, l, Depth[l]) = t => \A load : ~load => InTime(x, t, load)
<1>0. /\ x.iq = w.iq /\ x.written = w.written /\ x.stalled = w.stalled /\ x.al = w.al
      /\ \A m \in LaneIDs : \A c \in Registers(m) :
           At(x, m, c) = IF m # l \/ c = 1 \/ c = Depth[m] + 2 THEN At(w, m, c)
                         ELSE IF c = 2 THEN None ELSE At(w, m, c - 1)
  BY AdvanceIs
<1>1. t # None /\ \A m \in LaneIDs : Depth[m] \in Nat /\ Depth[m] >= 1
  BY Sizes
<1>2. \A m \in LaneIDs : \A c : c \in Registers(m) <=> (c \in Nat /\ 1 <= c /\ c <= Depth[m] + 2)
  BY <1>1 DEF Registers
(* The register before the step of the tag that is in register c after it. *)
<1> DEFINE Old(m, c) == IF m # l \/ c = 1 \/ c = Depth[m] + 2 THEN c ELSE c - 1
           New(m, c) == IF m # l \/ c = 1 \/ c = Depth[m] + 2 THEN c ELSE c + 1
<1>3. ASSUME NEW m \in LaneIDs, NEW c \in Registers(m), At(x, m, c) = t
      PROVE  Old(m, c) \in Registers(m) /\ At(w, m, Old(m, c)) = t /\ c = New(m, Old(m, c))
  <2>1. m # l \/ c = 1 \/ c = Depth[m] + 2 \/ c # 2
    BY <1>0, <1>1, <1>3
  <2>2. At(w, m, Old(m, c)) = t
    BY <1>0, <1>3, <2>1
  <2>3. c \in Nat /\ 1 <= c /\ c <= Depth[m] + 2 /\ Depth[m] \in Nat
    BY <1>1, <1>2
  <2>4. Old(m, c) \in Registers(m)
    BY <1>2, <2>1, <2>3
  <2>5. c = New(m, Old(m, c))
    BY <2>1, <2>3
  <2> QED
    BY <2>2, <2>4, <2>5
<1>4. ASSUME NEW m \in LaneIDs, NEW c \in Registers(m), At(w, m, c) = t
      PROVE  /\ New(m, c) \in Registers(m) /\ At(x, m, New(m, c)) = t
             /\ m = l => c # Depth[l] + 1
  <2>1. m = l => c # Depth[l] + 1
    BY <1>1, <1>4
  <2>2. c \in Nat /\ 1 <= c /\ c <= Depth[m] + 2 /\ Depth[m] \in Nat
    BY <1>1, <1>2
  <2>3. New(m, c) \in Registers(m)
    BY <1>2, <2>1, <2>2
  <2>4. CASE m # l \/ c = 1 \/ c = Depth[m] + 2
    BY <1>0, <1>4, <2>1, <2>3, <2>4
  <2>5. CASE ~(m # l \/ c = 1 \/ c = Depth[m] + 2)
    <3>1. New(m, c) = c + 1 /\ c + 1 # 1 /\ c + 1 # Depth[m] + 2 /\ c + 1 # 2 /\ (c + 1) - 1 = c
      BY <2>1, <2>2, <2>5
    <3>2. At(x, m, c + 1) = At(w, m, (c + 1) - 1)
      BY <1>0, <2>3, <2>5, <3>1
    <3> QED
      BY <1>4, <2>1, <2>3, <3>1, <3>2
  <2> QED
    BY <2>4, <2>5
<1>5. InLane(x, t) <=> InLane(w, t)
  <2> HIDE DEF Old, New
  <2> QED
    BY <1>3, <1>4 DEF InLane
<1>6. ASSUME NEW m \in LaneIDs, NEW n \in LaneIDs, NEW c \in Registers(m), NEW b \in Registers(n),
             At(x, m, c) = t, At(x, n, b) = t
      PROVE  m = n /\ c = b
  <2> HIDE DEF Old, New
  <2>1. m = n /\ Old(m, c) = Old(n, b)
    BY <1>3, <1>6 DEF OnePlace
  <2>2. c = New(m, Old(m, c)) /\ b = New(n, Old(n, b))
    BY <1>3, <1>6
  <2> QED
    BY <2>1, <2>2
<1>7. /\ \A i : InSlot(x, i, t) <=> InSlot(w, i, t)
      /\ InQueue(x, t) <=> InQueue(w, t)
      /\ Done(x, t) <=> Done(w, t)
      /\ TagsOf(x) = TagsOf(w)
  BY <1>0 DEF InSlot, InQueue, Done, TagsOf
<1>8. OnePlace(x, t)
  BY <1>0, <1>5, <1>6, <1>7 DEF OnePlace
<1>9. ASSUME NEW load
      PROVE  Asleep(x, t, load) <=>
              (Asleep(w, t, load) /\ (load \/ Depth[l] = 1 \/ At(w, l, Depth[l]) # t))
  <2>0. Depth[l] \in Registers(l)
    BY <1>1, <1>2
  <2>1. CASE ~InLane(w, t)
    <3>1. At(w, l, Depth[l]) # t
      BY <2>0, <2>1 DEF InLane
    <3>2. \A m \in LaneIDs : \A c \in 1 .. Depth[m] + 1 : At(w, m, c) # t /\ At(x, m, c) # t
      <4>1. \A m \in LaneIDs : \A c \in 1 .. Depth[m] + 1 : c \in Registers(m)
        BY <1>1 DEF Registers
      <4> QED
        BY <1>5, <2>1, <4>1 DEF InLane
    <3> QED
      BY <1>0, <1>7, <3>1, <3>2 DEF Asleep
  <2>2. CASE InLane(w, t)
    <3>0. PICK m \in LaneIDs : \E c \in Registers(m) : At(w, m, c) = t
      BY <2>2 DEF InLane
    <3>1. PICK c \in Registers(m) : At(w, m, c) = t
      BY <3>0
    <3>2. Asleep(w, t, load) <=> (c # Depth[m] + 2 /\ (load \/ c <= Depth[m]))
      BY <3>1, OnlyRegister
    <3>3. PICK e \in Registers(m) : e = New(m, c) /\ At(x, m, e) = t
      BY <1>4, <3>1
    <3>4. Asleep(x, t, load) <=> (e # Depth[m] + 2 /\ (load \/ e <= Depth[m]))
      BY <1>8, <3>3, OnlyRegister
    <3>5. At(w, l, Depth[l]) = t <=> m = l /\ c = Depth[l]
      BY <2>0, <3>1 DEF OnePlace
    <3>6. m = l => c # Depth[l] + 1
      BY <1>4, <3>1
    <3>7. e = (IF m # l \/ c = 1 \/ c = Depth[m] + 2 THEN c ELSE c + 1)
      BY <3>3
    <3>8. c \in Nat /\ 1 <= c /\ c <= Depth[m] + 2 /\ Depth[m] \in Nat /\ Depth[m] >= 1
      BY <1>1, <1>2
    <3> HIDE DEF Old, New
    <3>9. CASE m # l
      BY <3>2, <3>4, <3>5, <3>7, <3>9
    <3>10. CASE m = l
      BY <3>2, <3>4, <3>5, <3>6, <3>7, <3>8, <3>10
    <3> QED
      BY <3>9, <3>10
  <2> QED
    BY <2>1, <2>2
<1>10. ASSUME NEW load, InTime(w, t, load) PROVE InTime(x, t, load)
  <2>1. CASE t \in w.written
    BY <1>0, <2>1 DEF InTime
  <2>2. CASE t \notin w.written
    <3>1. PICK m \in LaneIDs : At(w, m, Depth[m] + 1) = t
      BY <1>10, <2>2 DEF InTime
    <3>2. m # l /\ Depth[m] + 1 \in Registers(m)
      BY <1>1, <1>2, <3>1
    <3>3. At(x, m, Depth[m] + 1) = t
      BY <1>0, <3>1, <3>2
    <3> QED
      BY <1>10, <2>2, <3>3 DEF InTime
  <2> QED
    BY <2>1, <2>2
<1>11. ASSUME Depth[l] > 1, At(w, l, Depth[l]) = t, NEW load, ~load PROVE InTime(x, t, load)
  <2>1. Depth[l] \in Registers(l) /\ New(l, Depth[l]) = Depth[l] + 1
    BY <1>1, <1>2, <1>11
  <2>2. At(x, l, Depth[l] + 1) = t
    BY <1>4, <1>11, <2>1
  <2> QED
    BY <1>11, <2>2 DEF InTime
<1> QED
  BY <1>8, <1>9, <1>10, <1>11

LEMMA ExecuteOK ==
  ASSUME NEW s, CoreOK(s), NEW l \in LaneIDs, At(s, l, Depth[l] + 2) = None,
         NEW hits, NEW x, x = Execute(hits, s, l)
  PROVE  /\ CoreOK(x) /\ At(x, l, 2) = None
         /\ \A m \in LaneIDs \ {l} : \A c \in Registers(m) : At(x, m, c) = At(s, m, c)
<1>1. PICK f : f = Finish(hits, s, l)
  OBVIOUS
<1>2. /\ CoreOK(f) /\ At(f, l, Depth[l] + 1) = None
      /\ \A m \in LaneIDs \ {l} : \A c \in Registers(m) : At(f, m, c) = At(s, m, c)
  BY <1>1, FinishOK
<1>3. f \in Core /\ Depth[l] \in Nat /\ Depth[l] >= 1
  BY <1>2, Sizes DEF CoreOK
<1>4. PICK b \in NoTag : b = IF Depth[l] > 1 THEN At(f, l, Depth[l]) ELSE None
  <2>1. Depth[l] > 1 => At(f, l, Depth[l]) \in NoTag
    BY <1>3, AtIs DEF Registers
  <2> QED
    BY <2>1 DEF NoTag
<1>5. PICK wakes \in BOOLEAN : wakes <=> b # None /\ WakesEarly(InsnOf(f, b))
  OBVIOUS
<1>6. PICK w : w = IF wakes THEN Broadcast(f, b) ELSE f
  OBVIOUS
<1>7. x = Advance(w, l)
  <2>1. CASE Depth[l] > 1
    <3>1. b = f.ex[l][Depth[l] - 1]
      BY <1>3, <1>4, <2>1 DEF At
    <3>2. WakeupStage(f, l) = w
      BY <1>5, <1>6, <2>1, <3>1 DEF WakeupStage
    <3> QED
      BY <1>1, <2>1, <3>2 DEF Execute
  <2>2. CASE ~(Depth[l] > 1)
    BY <1>1, <1>4, <1>5, <1>6, <2>2 DEF Execute
  <2> QED
    BY <2>1, <2>2
<1>8. /\ SoundBut(w, b) /\ w \in Core /\ w.al = f.al
      /\ w.ready = (IF wakes THEN f.ready \cup {b} ELSE f.ready)
      /\ w.stalled = f.stalled /\ w.written = f.written
      /\ \A m, c : At(w, m, c) = At(f, m, c)
      /\ \A i \in Slots : w.iq.q[i].valid = f.iq.q[i].valid /\ w.iq.q[i].tag = f.iq.q[i].tag
  <2>1. CASE wakes
    <3>1. b \in Tags
      BY <1>4, <1>5, <2>1 DEF NoTag
    <3>2. SoundBut(f, b)
      BY <1>2, SoundIs
    <3>3. /\ SoundBut(w, b) /\ w \in Core /\ w.al = f.al /\ w.ready = f.ready \cup {b}
          /\ w.stalled = f.stalled /\ w.written = f.written
          /\ \A m, c : At(w, m, c) = At(f, m, c)
          /\ w.iq = WakeUp(f.iq, b)
      BY <1>3, <1>6, <2>1, <3>1, <3>2, BroadcastIs, BroadcastSound
    <3>4. \A i \in Slots : w.iq.q[i].valid = f.iq.q[i].valid /\ w.iq.q[i].tag = f.iq.q[i].tag
      BY <1>3, <3>3, CoreIs, WakeUpIs
    <3> QED
      BY <2>1, <3>3, <3>4
  <2>2. CASE ~wakes
    BY <1>2, <1>3, <1>6, <2>2, SoundIs
  <2> QED
    BY <2>1, <2>2
<1>9. /\ x \in Core /\ x.iq = w.iq /\ x.rr = w.rr /\ x.wb = w.wb /\ x.ready = w.ready
      /\ x.written = w.written /\ x.stalled = w.stalled /\ x.al = w.al
      /\ \A m \in LaneIDs : \A c \in Registers(m) :
           At(x, m, c) = IF m # l \/ c = 1 \/ c = Depth[m] + 2 THEN At(w, m, c)
                         ELSE IF c = 2 THEN None ELSE At(w, m, c - 1)
  BY <1>7, <1>8, AdvanceIs
<1>10. /\ TagsOf(x) = TagsOf(w) /\ Place(x) = Place(w)
       /\ \A t : InsnOf(x, t) = InsnOf(w, t) /\ InsnOf(x, t) = InsnOf(f, t)
       /\ TagsOf(w) = TagsOf(f)
  BY <1>8, <1>9, SameActive
<1>11. At(w, l, Depth[l] + 1) = None
  BY <1>2, <1>8
<1>12. ASSUME NEW t \in Tags
       PROVE  /\ OnePlace(x, t)
              /\ \A load : Asleep(x, t, load) <=>
                   (Asleep(w, t, load) /\ (load \/ Depth[l] = 1 \/ At(w, l, Depth[l]) # t))
              /\ \A load : InTime(w, t, load) => InTime(x, t, load)
              /\ Depth[l] > 1 /\ At(w, l, Depth[l]) = t => \A load : ~load => InTime(x, t, load)
  <2>1. OnePlace(w, t)
    BY <1>8 DEF SoundBut
  <2> QED
    BY <1>7, <1>8, <1>11, <2>1, AdvancePlaces
<1>13. ASSUME NEW t \in Tags, t # b PROVE Wakes(x, t)
  <2>1. Depth[l] = 1 \/ At(w, l, Depth[l]) # t
    BY <1>3, <1>4, <1>8, <1>13
  <2>2. Wakes(w, t)
    BY <1>8, <1>13 DEF SoundBut
  <2>3. Asleep(x, t, IsLoad(InsnOf(x, t))) <=> Asleep(w, t, IsLoad(InsnOf(w, t)))
    BY <1>10, <1>12, <2>1
  <2>4. InTime(w, t, IsLoad(InsnOf(w, t))) => InTime(x, t, IsLoad(InsnOf(x, t)))
    BY <1>10, <1>12
  <2> QED
    BY <1>9, <1>10, <2>2, <2>3, <2>4 DEF Wakes
<1>14. ASSUME b \in Tags PROVE Wakes(x, b)
  <2>0. b # None /\ Depth[l] > 1 /\ At(w, l, Depth[l]) = b /\ At(f, l, Depth[l]) = b
    BY <1>4, <1>8, <1>14, Sizes
  <2>1. Depth[l] \in Registers(l) /\ Depth[l] # Depth[l] + 2 /\ Depth[l] <= Depth[l] /\ Depth[l] # 1
    BY <1>3, <2>0 DEF Registers
  <2>2. OnePlace(w, b) /\ OnePlace(f, b) /\ Wakes(f, b)
    BY <1>2, <1>8, <1>14 DEF SoundBut, CoreOK
  <2>3. /\ b \in TagsOf(f) /\ \A load : Asleep(w, b, load) /\ Asleep(f, b, load)
    BY <2>0, <2>1, <2>2, OnlyRegister
  <2>4. PICK insn : insn = InsnOf(f, b)
    OBVIOUS
  <2>5. Asleep(x, b, IsLoad(insn)) <=> IsLoad(insn)
    BY <1>12, <1>14, <2>0, <2>1, <2>3
  <2>6. ~IsLoad(insn) => InTime(x, b, IsLoad(insn))
    BY <1>12, <1>14, <2>0
  <2>7. HasDest(insn) => b \notin f.ready
    BY <2>2, <2>3, <2>4 DEF Wakes
  <2>8. HasDest(insn) => (b \in x.ready <=> ~IsLoad(insn))
    BY <1>5, <1>8, <1>9, <2>0, <2>4, <2>7 DEF WakesEarly
  <2> QED
    BY <1>10, <2>4, <2>5, <2>6, <2>8 DEF Wakes
<1>15. ActiveListOK(x)
  BY <1>8, <1>9, KeepsActive DEF SoundBut
<1>16. Consumers(x)
  BY <1>8, <1>9, <1>10 DEF SoundBut, Consumers
<1>17. CoreOK(x)
  BY <1>8, <1>9, <1>10, <1>12, <1>13, <1>14, <1>15, <1>16 DEF SoundBut, CoreOK
<1>18. At(x, l, 2) = None
  BY <1>3, <1>9 DEF Registers
<1>19. \A m \in LaneIDs \ {l} : \A c \in Registers(m) : At(x, m, c) = At(s, m, c)
  BY <1>2, <1>8, <1>9
<1> QED
  BY <1>17, <1>18, <1>19

-----------------------------------------------------------------------------
(* Loops: a function defined by recursion up to a bound.                   *)

LEMMA LeastElement ==
  ASSUME NEW T, T \subseteq Nat, T # {}
  PROVE  \E x \in T : \A y \in T : x <= y
<1>1. PICK x \in T : \A y \in T : ~(<<y, x>> \in OpToRel(<, Nat))
  BY NatLessThanWellFounded, WFMin
<1>2. ASSUME NEW y \in T PROVE x <= y
  <2>1. ~(<<y, x>> \in OpToRel(<, Nat)) /\ <<y, x>> \in Nat \X Nat
    BY <1>1
  <2>2. ~(y < x)
    BY <2>1 DEF OpToRel
  <2> QED
    BY <2>2
<1> QED
  BY <1>2

LEMMA UpTo ==
  ASSUME NEW n \in Nat, NEW G, 0 \in G, \A k \in 0 .. n - 1 : k \in G => k + 1 \in G
  PROVE  \A k \in 0 .. n : k \in G
<1> DEFINE T == {k \in 0 .. n : k \notin G}
<1> SUFFICES ASSUME T # {} PROVE FALSE
  OBVIOUS
<1>0. T \subseteq Nat
  OBVIOUS
<1>1. PICK x \in T : \A y \in T : x <= y
  <2> HIDE DEF T
  <2> QED
    BY <1>0, LeastElement
<1>2. x \in 1 .. n /\ x - 1 \in 0 .. n - 1 /\ x - 1 \notin T
  BY <1>1
<1>3. x - 1 \in G /\ x = (x - 1) + 1
  BY <1>2
<1> QED
  BY <1>1, <1>2, <1>3

(* f runs the steps G from v, and its values are in D.                     *)
Runs(n, D, G, v, f) ==
  /\ DOMAIN f = 0 .. n /\ f = [k \in 0 .. n |-> f[k]]
  /\ f[0] = v /\ \A k \in 1 .. n : f[k] = G[k][f[k - 1]]
  /\ \A k \in 0 .. n : f[k] \in D[k]

LEMMA RunExists ==
  ASSUME NEW n \in Nat, NEW D, NEW G, NEW v, v \in D[0],
         \A k \in 1 .. n : \A y \in D[k - 1] : G[k][y] \in D[k]
  PROVE  \E f : Runs(n, D, G, v, f)
<1> DEFINE T == {m \in Nat : m <= n => \E h : Runs(m, D, G, v, h)}
<1>1. 0 \in T
  <2>1. PICK f : f = [k \in 0 .. 0 |-> v]
    OBVIOUS
  <2>2. Runs(0, D, G, v, f)
    BY <2>1 DEF Runs
  <2> QED
    BY <2>2
<1>2. ASSUME NEW m \in 0 .. n - 1, m \in T PROVE m + 1 \in T
  <2>1. PICK f : Runs(m, D, G, v, f)
    BY <1>2
  <2>2. PICK g : g = [k \in 0 .. m + 1 |-> IF k = m + 1 THEN G[m + 1][f[m]] ELSE f[k]]
    OBVIOUS
  <2>3. /\ m + 1 \in 1 .. n /\ (m + 1) - 1 = m /\ m \in 0 .. m /\ m + 1 \in Nat /\ 0 # m + 1
        /\ \A k \in 0 .. m + 1 : k = m + 1 \/ (k \in 0 .. m /\ k # m + 1)
        /\ \A k \in 1 .. m + 1 : k - 1 \in 0 .. m /\ k - 1 # m + 1 /\ k - 1 \in 0 .. m + 1
        /\ \A k \in 1 .. m + 1 : k = m + 1 \/ (k \in 1 .. m /\ k # m + 1)
    OBVIOUS
  <2>4. /\ f[m] \in D[m] /\ f[0] = v /\ \A k \in 1 .. m : f[k] = G[k][f[k - 1]]
        /\ \A k \in 0 .. m : f[k] \in D[k]
    BY <2>1, <2>3 DEF Runs
  <2>5. G[m + 1][f[m]] \in D[m + 1]
    BY <2>3, <2>4
  <2>6. g[m + 1] = G[m + 1][f[m]] /\ \A k \in 0 .. m : g[k] = f[k]
    BY <2>2, <2>3
  <2>7. \A k \in 0 .. m + 1 : g[k] \in D[k]
    BY <2>3, <2>4, <2>5, <2>6
  <2>8. ASSUME NEW k \in 1 .. m + 1 PROVE g[k] = G[k][g[k - 1]]
    <3>1. g[k - 1] = f[k - 1]
      BY <2>3, <2>6
    <3>2. CASE k = m + 1
      BY <2>3, <2>6, <3>1, <3>2
    <3>3. CASE k # m + 1
      <4>1. k \in 1 .. m /\ k \in 0 .. m
        BY <2>3, <3>3
      <4> QED
        BY <2>4, <2>6, <3>1, <4>1
    <3> QED
      BY <3>2, <3>3
  <2>9. g[0] = v
    BY <2>4, <2>6
  <2>10. Runs(m + 1, D, G, v, g)
    BY <2>2, <2>7, <2>8, <2>9 DEF Runs
  <2> QED
    BY <2>3, <2>10
<1>3. n \in T
  <2> HIDE DEF T
  <2>1. \A k \in 0 .. n : k \in T
    BY <1>1, <1>2, UpTo
  <2> QED
    BY <2>1
<1> QED
  BY <1>3

-----------------------------------------------------------------------------
(* squash() of the queue.                                                  *)

(* y is q without the entries below k of these tags.                       *)
SquashedTo(q, R, tags, k, y) ==
  /\ FreeListOK(y) /\ AgeListOK(y, R)
  /\ \A i \in Slots :
       /\ y.q[i].valid <=> (q.q[i].valid /\ (i < k => q.q[i].tag \notin tags))
       /\ y.q[i].valid => /\ y.q[i].tag = q.q[i].tag /\ y.q[i].waits = q.q[i].waits

LEMMA SquashOne ==
  ASSUME NEW q \in Queue, NEW R, \A i \in Slots : q.q[i].valid => R[q.q[i].tag] \in Nat,
         NEW tags, NEW k \in 1 .. IQSize, NEW y \in Queue, SquashedTo(q, R, tags, k - 1, y),
         NEW x, x = IF y.q[k-1].valid /\ y.q[k-1].tag \in tags THEN RemoveEntry(y, k-1) ELSE y
  PROVE  x \in Queue /\ SquashedTo(q, R, tags, k, x)
<1>1. k - 1 \in Slots /\ k \in Int /\ \A i \in Slots : i \in Int /\ (i < k <=> (i < k - 1 \/ i = k - 1))
                                                       /\ ~(k - 1 < k - 1)
  BY Sizes DEF Slots
<1>2. /\ FreeListOK(y) /\ AgeListOK(y, R)
      /\ \A i \in Slots :
           /\ y.q[i].valid <=> (q.q[i].valid /\ (i < k - 1 => q.q[i].tag \notin tags))
           /\ y.q[i].valid => /\ y.q[i].tag = q.q[i].tag /\ y.q[i].waits = q.q[i].waits
  BY DEF SquashedTo
<1>3. CASE y.q[k-1].valid /\ y.q[k-1].tag \in tags
  <2>1. x = RemoveEntry(y, k - 1)
    BY <1>3
  <2>2. x \in Queue /\ Removed(y, k - 1, x)
    BY <1>1, <1>2, <1>3, <2>1, RemovedIs
  <2>3. FreeListOK(x)
    BY <1>1, <1>2, <1>3, <2>1, RemovedFreeList
  <2>4. AgeListOK(x, R)
    BY <1>1, <1>2, <1>3, <2>1, RemovedAgeList
  <2>5. /\ \A j \in Slots : x.q[j].valid <=> (y.q[j].valid /\ j # k - 1)
        /\ \A j \in Slots \ {k - 1} : x.q[j].tag = y.q[j].tag /\ x.q[j].waits = y.q[j].waits
    BY <2>2 DEF Removed
  <2> QED
    BY <1>1, <1>2, <1>3, <2>2, <2>3, <2>4, <2>5 DEF SquashedTo
<1>4. CASE ~(y.q[k-1].valid /\ y.q[k-1].tag \in tags)
  BY <1>1, <1>2, <1>4 DEF SquashedTo
<1> QED
  BY <1>3, <1>4

LEMMA SquashIQIs ==
  ASSUME NEW q \in Queue, NEW R, \A i \in Slots : q.q[i].valid => R[q.q[i].tag] \in Nat,
         FreeListOK(q), AgeListOK(q, R), NEW tags, NEW x, x = SquashIQ(q, tags)
  PROVE  /\ x \in Queue /\ FreeListOK(x) /\ AgeListOK(x, R)
         /\ \A i \in Slots :
              /\ x.q[i].valid <=> (q.q[i].valid /\ q.q[i].tag \notin tags)
              /\ x.q[i].valid => x.q[i].tag = q.q[i].tag /\ x.q[i].waits = q.q[i].waits
<1> DEFINE Step(y, k) == IF y.q[k-1].valid /\ y.q[k-1].tag \in tags THEN RemoveEntry(y, k-1) ELSE y
           D == [k \in 0 .. IQSize |-> {y \in Queue : SquashedTo(q, R, tags, k, y)}]
           G == [k \in 1 .. IQSize |-> [y \in D[k - 1] |-> Step(y, k)]]
           after[k \in 0 .. IQSize] ==
             IF k = 0 THEN q
             ELSE LET y == after[k - 1]
                  IN IF y.q[k-1].valid /\ y.q[k-1].tag \in tags THEN RemoveEntry(y, k-1) ELSE y
<1>1. /\ IQSize \in Nat /\ 0 \in 0 .. IQSize /\ IQSize \in 0 .. IQSize
      /\ \A k \in 1 .. IQSize : k - 1 \in 0 .. IQSize /\ k \in 0 .. IQSize /\ k # 0
      /\ \A k \in 0 .. IQSize - 1 : k + 1 \in 1 .. IQSize /\ (k + 1) - 1 = k
  BY Sizes
<1>2. q \in D[0]
  <2>1. \A i \in Slots : ~(i < 0)
    BY Sizes DEF Slots
  <2> QED
    BY <1>1, <2>1 DEF SquashedTo
<1>3. \A k \in 1 .. IQSize : \A y \in D[k - 1] : Step(y, k) \in D[k]
  BY <1>1, SquashOne
<1>4. PICK f : Runs(IQSize, D, G, q, f)
  <2>1. \A k \in 1 .. IQSize : \A y \in D[k - 1] : G[k][y] \in D[k]
    BY <1>3
  <2> HIDE DEF D, G
  <2> QED
    BY <1>1, <1>2, <2>1, RunExists
<1>5. f = [k \in 0 .. IQSize |-> IF k = 0 THEN q ELSE Step(f[k - 1], k)]
  <2>1. ASSUME NEW k \in 1 .. IQSize PROVE f[k] = Step(f[k - 1], k)
    <3>1. f[k] = G[k][f[k - 1]] /\ f[k - 1] \in D[k - 1]
      BY <1>1, <1>4 DEF Runs
    <3> HIDE DEF D, Step
    <3> QED
      BY <3>1
  <2>2. \A k \in 0 .. IQSize : k = 0 \/ k \in 1 .. IQSize
    BY <1>1
  <2>3. f[0] = q /\ f = [k \in 0 .. IQSize |-> f[k]]
    BY <1>4 DEF Runs
  <2> HIDE DEF Step
  <2> QED
    BY <2>1, <2>2, <2>3
<1>6. x = after[IQSize]
  BY DEF SquashIQ
<1>7. after = [k \in 0 .. IQSize |-> IF k = 0 THEN q ELSE Step(after[k - 1], k)]
  BY <1>5
<1> HIDE DEF after
<1>8. \A k \in 0 .. IQSize : after[k] \in D[k]
  <2> DEFINE H == {k \in 0 .. IQSize : after[k] \in D[k]}
  <2>1. 0 \in H
    BY <1>1, <1>2, <1>7
  <2>2. ASSUME NEW k \in 0 .. IQSize - 1, k \in H PROVE k + 1 \in H
    <3>2. after[k] \in D[(k + 1) - 1] /\ k + 1 \in 1 .. IQSize /\ k + 1 \in 0 .. IQSize
      BY <1>1, <2>2
    <3> HIDE DEF D, Step
    <3>1. after[k + 1] = Step(after[(k + 1) - 1], k + 1)
      BY <1>1, <1>7, <3>2
    <3> QED
      BY <1>3, <3>1, <3>2
  <2> HIDE DEF H
  <2>3. \A k \in 0 .. IQSize : k \in H
    BY <1>1, <2>1, <2>2, UpTo
  <2> QED
    BY <2>3 DEF H
<1>9. x \in Queue /\ SquashedTo(q, R, tags, IQSize, x)
  BY <1>1, <1>6, <1>8
<1>10. \A i \in Slots : i < IQSize
  BY Sizes DEF Slots
<1> QED
  BY <1>9, <1>10 DEF SquashedTo

-----------------------------------------------------------------------------
(* writeback().                                                            *)

LEMMA ActiveTypes ==
  ASSUME NEW s, CoreOK(s)
  PROVE  /\ s \in Core /\ s.al \in Seq(Insn) /\ Distinct(s)
         /\ \A i \in Slots : s.iq.q[i].valid =>
              s.iq.q[i].tag \in Tags /\ s.iq.q[i].tag \in TagsOf(s)
         /\ \A l \in LaneIDs : \A d \in Registers(l) :
              At(s, l, d) # None => At(s, l, d) \in Tags /\ At(s, l, d) \in TagsOf(s)
         /\ \A t \in TagsOf(s) : /\ t \in Tags /\ Place(s)[t] = Position(s, t)
                                 /\ Place(s)[t] \in Nat
         /\ \A t \in Tags \ TagsOf(s) : Place(s)[t] = 0
<1>1. s \in Core /\ s.al \in Seq(Insn) /\ Distinct(s)
  BY CoreIs DEF CoreOK, ActiveListOK, Distinct
<1>2. ASSUME NEW i \in Slots, s.iq.q[i].valid
      PROVE  s.iq.q[i].tag \in Tags /\ s.iq.q[i].tag \in TagsOf(s)
  <2>1. PICK t \in Tags : t = s.iq.q[i].tag
    BY <1>2 DEF CoreOK
  <2>2. InQueue(s, t) /\ OnePlace(s, t)
    BY <1>2, <2>1 DEF InQueue, InSlot, CoreOK
  <2> QED
    BY <2>1, <2>2 DEF OnePlace
<1>3. ASSUME NEW l \in LaneIDs, NEW d \in Registers(l), At(s, l, d) # None
      PROVE  At(s, l, d) \in Tags /\ At(s, l, d) \in TagsOf(s)
  <2>1. PICK t \in Tags : t = At(s, l, d)
    BY <1>1, <1>3, AtIs DEF NoTag
  <2>2. InLane(s, t) /\ OnePlace(s, t)
    BY <2>1 DEF InLane, CoreOK
  <2> QED
    BY <2>1, <2>2 DEF OnePlace
<1>4. \A t \in TagsOf(s) : t \in Tags /\ Position(s, t) \in Nat
  BY <1>1, ActiveIs
<1> QED
  BY <1>1, <1>2, <1>3, <1>4 DEF Place

LEMMA YoungerIs ==
  ASSUME NEW s, s.al \in Seq(Insn), Distinct(s), NEW a \in TagsOf(s)
  PROVE  \A t : t \in Younger(s, a) <=> (t \in TagsOf(s) /\ Position(s, a) < Position(s, t))
<1>1. /\ \A k \in DOMAIN s.al : s.al[k].tag \in TagsOf(s) /\ Position(s, s.al[k].tag) = k
      /\ \A t \in TagsOf(s) : Position(s, t) \in DOMAIN s.al /\ s.al[Position(s, t)].tag = t
      /\ DOMAIN s.al = 1 .. Len(s.al) /\ Len(s.al) \in Nat
  BY ActiveIs
<1>2. PICK p \in DOMAIN s.al : p = Position(s, a) /\ s.al[p].tag = a
  BY <1>1
<1>3. ASSUME NEW j \in DOMAIN s.al
      PROVE  (\E i \in 1 .. j - 1 : s.al[i].tag = a) <=> p < j
  <2>1. ASSUME NEW i \in 1 .. j - 1, s.al[i].tag = a PROVE p < j
    <3>1. i \in DOMAIN s.al
      BY <1>1
    <3>2. i = p
      BY <1>1, <1>2, <2>1, <3>1
    <3> QED
      BY <1>1, <3>2
  <2>2. p < j => p \in 1 .. j - 1
    BY <1>1
  <2> QED
    BY <1>2, <2>1, <2>2
<1>4. ASSUME NEW t PROVE t \in Younger(s, a) <=> (t \in TagsOf(s) /\ p < Position(s, t))
  <2>1. t \in Younger(s, a) <=> \E j \in DOMAIN s.al : p < j /\ s.al[j].tag = t
    BY <1>3 DEF Younger
  <2> QED
    BY <1>1, <2>1
<1> QED
  BY <1>2, <1>4

(* The Active List up to the instruction with tag a.                       *)
Prefix(s, a, x) ==
  /\ x.al \in Seq(Insn) /\ Distinct(x) /\ TagsOf(x) = TagsOf(s) \ Younger(s, a)
  /\ \A k \in DOMAIN x.al : k \in DOMAIN s.al /\ x.al[k] = s.al[k]
  /\ \A t \in TagsOf(x) : Position(x, t) = Position(s, t) /\ InsnOf(x, t) = InsnOf(s, t)
  /\ \A t : Done(x, t) <=> (Done(s, t) /\ t \notin Younger(s, a))

LEMMA PrefixIs ==
  ASSUME NEW s, s.al \in Seq(Insn), Distinct(s), NEW a \in TagsOf(s),
         NEW x, x.al = SubSeq(s.al, 1, Position(s, a))
  PROVE  Prefix(s, a, x)
<1>1. /\ \A k \in DOMAIN s.al : s.al[k].tag \in TagsOf(s) /\ Position(s, s.al[k].tag) = k
      /\ \A t \in TagsOf(s) : /\ Position(s, t) \in DOMAIN s.al /\ s.al[Position(s, t)].tag = t
                              /\ InsnOf(s, t) = s.al[Position(s, t)]
      /\ DOMAIN s.al = 1 .. Len(s.al) /\ Len(s.al) \in Nat
  BY ActiveIs
<1>2. PICK p \in 1 .. Len(s.al) : p = Position(s, a)
  BY <1>1
<1>3. /\ x.al \in Seq(Insn) /\ DOMAIN x.al = 1 .. p
      /\ \A k \in 1 .. p : k \in DOMAIN s.al /\ x.al[k] = s.al[k]
  BY <1>1, <1>2
<1>4. Distinct(x)
  BY <1>3 DEF Distinct
<1>5. \A t : t \in Younger(s, a) <=> (t \in TagsOf(s) /\ p < Position(s, t))
  BY <1>2, YoungerIs
<1>6. ASSUME NEW k \in DOMAIN s.al PROVE s.al[k].tag \in Younger(s, a) <=> k \notin 1 .. p
  BY <1>1, <1>2, <1>5
<1>7. TagsOf(x) = TagsOf(s) \ Younger(s, a)
  <2>1. ASSUME NEW t \in TagsOf(x) PROVE t \in TagsOf(s) \ Younger(s, a)
    <3>1. PICK k \in DOMAIN x.al : x.al[k].tag = t
      BY DEF TagsOf
    <3>2. k \in 1 .. p /\ k \in DOMAIN s.al /\ s.al[k].tag = t
      BY <1>3, <3>1
    <3> QED
      BY <1>6, <3>2 DEF TagsOf
  <2>2. ASSUME NEW t \in TagsOf(s) \ Younger(s, a) PROVE t \in TagsOf(x)
    <3>1. PICK k \in DOMAIN s.al : s.al[k].tag = t
      BY DEF TagsOf
    <3>2. k \in 1 .. p
      BY <1>6, <3>1
    <3>3. k \in DOMAIN x.al /\ x.al[k].tag = t
      BY <1>3, <3>1, <3>2
    <3> QED
      BY <3>3 DEF TagsOf
  <2> QED
    BY <2>1, <2>2
<1>8. ASSUME NEW t \in TagsOf(x)
      PROVE  Position(x, t) = Position(s, t) /\ InsnOf(x, t) = InsnOf(s, t)
  <2>1. PICK k \in DOMAIN x.al : x.al[k].tag = t
    BY DEF TagsOf
  <2>2. Position(x, t) = k /\ InsnOf(x, t) = x.al[k]
    BY <1>3, <1>4, <2>1, ActiveIs
  <2>3. k \in DOMAIN s.al /\ s.al[k].tag = t
    BY <1>3, <2>1
  <2> QED
    BY <1>1, <1>3, <2>1, <2>2, <2>3
<1>9. ASSUME NEW t PROVE Done(x, t) <=> (Done(s, t) /\ t \notin Younger(s, a))
  BY <1>3, <1>6 DEF Done
<1> QED
  BY <1>3, <1>4, <1>7, <1>8, <1>9 DEF Prefix

LEMMA SquashYoungerOK ==
  ASSUME NEW s, CoreOK(s), NEW a \in TagsOf(s), NEW x, x = SquashYounger(s, a)
  PROVE  /\ CoreOK(x) /\ a \in TagsOf(x) /\ a \notin Younger(s, a)
         /\ \A m \in LaneIDs : \A c \in Registers(m) :
              At(x, m, c) = IF At(s, m, c) \in Younger(s, a) THEN None ELSE At(s, m, c)
<1>0. /\ s \in Core /\ s.al \in Seq(Insn) /\ Distinct(s) /\ a \in Tags
      /\ \A i \in Slots : s.iq.q[i].valid => s.iq.q[i].tag \in Tags /\ s.iq.q[i].tag \in TagsOf(s)
      /\ \A t \in TagsOf(s) : t \in Tags /\ Place(s)[t] = Position(s, t) /\ Place(s)[t] \in Nat
  BY ActiveTypes
<1>1. PICK gone : gone = Younger(s, a)
  OBVIOUS
<1>2. \A t : t \in gone <=> (t \in TagsOf(s) /\ Position(s, a) < Position(s, t))
  BY <1>0, <1>1, YoungerIs
<1>3. a \notin gone
  BY <1>0, <1>2
<1> DEFINE Keep(t) == IF t \in gone THEN None ELSE t
<1>4. PICK q : q = SquashIQ(s.iq, gone)
  OBVIOUS
<1>5. /\ q \in Queue /\ FreeListOK(q) /\ AgeListOK(q, Place(s))
      /\ \A i \in Slots :
           /\ q.q[i].valid <=> (s.iq.q[i].valid /\ s.iq.q[i].tag \notin gone)
           /\ q.q[i].valid => q.q[i].tag = s.iq.q[i].tag /\ q.q[i].waits = s.iq.q[i].waits
  <2>1. s.iq \in Queue /\ FreeListOK(s.iq) /\ AgeListOK(s.iq, Place(s))
    BY <1>0, CoreIs DEF CoreOK
  <2>2. \A i \in Slots : s.iq.q[i].valid => Place(s)[s.iq.q[i].tag] \in Nat
    BY <1>0
  <2> QED
    BY <1>4, <2>1, <2>2, SquashIQIs
<1>6. PICK rr_ : rr_ = [l \in LaneIDs |-> Keep(s.rr[l])]
  OBVIOUS
<1>7. PICK wb_ : wb_ = [l \in LaneIDs |-> Keep(s.wb[l])]
  OBVIOUS
<1>8. PICK ex_ : ex_ = [l \in LaneIDs |-> [d \in 1 .. Depth[l] |-> Keep(s.ex[l][d])]]
  OBVIOUS
<1>9. rr_ \in [LaneIDs -> NoTag] /\ wb_ \in [LaneIDs -> NoTag]
  BY <1>0, <1>6, <1>7, CoreIs DEF NoTag
<1>10. ex_ \in Stages
  <2>1. ASSUME NEW l \in LaneIDs
        PROVE  [d \in 1 .. Depth[l] |-> Keep(s.ex[l][d])] \in [1 .. Depth[l] -> NoTag]
    <3>1. s.ex[l] \in [1 .. Depth[l] -> NoTag]
      BY <1>0, CoreIs
    <3> QED
      BY <3>1 DEF NoTag
  <2>2. \A l \in LaneIDs : ex_[l] \in [1 .. Depth[l] -> NoTag] /\ Depth[l] \in Nat
    BY <1>8, <2>1, Sizes
  <2>3. \A l \in LaneIDs : ex_[l] \in Seq(NoTag)
    BY <2>2
  <2>4. ex_ \in [LaneIDs -> Seq(NoTag)]
    BY <1>8, <2>3
  <2> QED
    BY <2>2, <2>4 DEF Stages
<1>11. PICK stalled_ \in SUBSET Tags : stalled_ = s.stalled \ gone
  BY <1>0, CoreIs
<1>12. PICK al_ : al_ = SubSeq(s.al, 1, Position(s, a))
  OBVIOUS
<1>13. x = [s EXCEPT !.iq = q, !.rr = rr_, !.ex = ex_, !.wb = wb_, !.stalled = stalled_, !.al = al_]
  BY <1>1, <1>4, <1>6, <1>7, <1>8, <1>11, <1>12 DEF SquashYounger
<1>14. al_ \in Seq(Insn)
  <2>1. PICK y : y = [al |-> al_]
    OBVIOUS
  <2>2. y.al = SubSeq(s.al, 1, Position(s, a))
    BY <1>12, <2>1
  <2>3. y.al \in Seq(Insn)
    BY <1>0, <2>2, PrefixIs DEF Prefix
  <2> QED
    BY <2>1, <2>3
<1>15. /\ x \in Core /\ x.iq = q /\ x.rr = rr_ /\ x.ex = ex_ /\ x.wb = wb_ /\ x.stalled = stalled_
       /\ x.al = al_ /\ x.ready = s.ready /\ x.written = s.written
  BY <1>0, <1>5, <1>9, <1>10, <1>11, <1>13, <1>14 DEF Core
<1> HIDE DEF Keep
<1>16. ASSUME NEW m \in LaneIDs, NEW c \in Registers(m) PROVE At(x, m, c) = Keep(At(s, m, c))
  <2>1. CASE c = 1
    BY <1>6, <1>15, <2>1 DEF At
  <2>2. CASE c = Depth[m] + 2 /\ c # 1
    BY <1>7, <1>15, <2>2 DEF At
  <2>3. CASE c # 1 /\ c # Depth[m] + 2
    <3>1. c - 1 \in 1 .. Depth[m]
      BY <1>0, <2>3, AtIs
    <3> QED
      BY <1>8, <1>15, <2>3, <3>1 DEF At
  <2> QED
    BY <2>1, <2>2, <2>3
<1> USE DEF Keep
<1>17. /\ TagsOf(x) = TagsOf(s) \ gone /\ Distinct(x)
       /\ \A k \in DOMAIN x.al : k \in DOMAIN s.al /\ x.al[k] = s.al[k]
       /\ \A t \in TagsOf(x) : Position(x, t) = Position(s, t) /\ InsnOf(x, t) = InsnOf(s, t)
       /\ \A t : Done(x, t) <=> (Done(s, t) /\ t \notin gone)
  <2>1. x.al = SubSeq(s.al, 1, Position(s, a))
    BY <1>12, <1>15
  <2> HIDE DEF Keep
  <2>2. Prefix(s, a, x)
    BY <1>0, <2>1, PrefixIs
  <2> QED
    BY <1>1, <2>2 DEF Prefix
<1>18. ASSUME NEW t \in Tags
       PROVE  /\ t # None
              /\ \A i \in Slots : InSlot(x, i, t) <=> (InSlot(s, i, t) /\ t \notin gone)
              /\ \A l \in LaneIDs : \A d \in Registers(l) :
                   At(x, l, d) = t <=> (At(s, l, d) = t /\ t \notin gone)
              /\ t \in x.stalled <=> (t \in s.stalled /\ t \notin gone)
              /\ Done(x, t) <=> (Done(s, t) /\ t \notin gone)
              /\ t \in TagsOf(x) <=> (t \in TagsOf(s) /\ t \notin gone)
  <2>1. t # None
    BY Sizes
  <2>2. \A i \in Slots : InSlot(x, i, t) <=> (InSlot(s, i, t) /\ t \notin gone)
    BY <1>5, <1>15 DEF InSlot
  <2>3. \A l \in LaneIDs : \A d \in Registers(l) :
                   At(x, l, d) = t <=> (At(s, l, d) = t /\ t \notin gone)
    BY <1>16, <2>1
  <2> QED
    BY <1>11, <1>15, <1>17, <2>1, <2>2, <2>3
<1>19. ASSUME NEW t \in Tags PROVE OnePlace(x, t) /\ Wakes(x, t)
  <2>1. CASE t \in gone
    <3>1. t \notin TagsOf(x) /\ ~InQueue(x, t) /\ ~InLane(x, t) /\ t \notin x.stalled /\ ~Done(x, t)
      BY <1>18, <2>1 DEF InQueue, InLane
    <3>2. /\ \A i, j \in Slots : InSlot(x, i, t) /\ InSlot(x, j, t) => i = j
          /\ \A l, m \in LaneIDs : \A d \in Registers(l), e \in Registers(m) :
               At(x, l, d) = t /\ At(x, m, e) = t => l = m /\ d = e
      BY <1>18, <2>1
    <3> QED
      BY <3>1, <3>2 DEF OnePlace, Wakes
  <2>2. CASE t \notin gone
    <3>1. SamePlaces(s, x, t)
      BY <1>18, <2>2 DEF SamePlaces
    <3>2. OnePlace(s, t) /\ Wakes(s, t)
      BY DEF CoreOK
    <3>3. t \in TagsOf(s) => InsnOf(x, t).op = InsnOf(s, t).op
      BY <1>17, <2>2
    <3> QED
      BY <1>15, <3>1, <3>2, <3>3, SameOnePlace, SameWakes
  <2> QED
    BY <2>1, <2>2
<1>20. AgeListOK(q, Place(x))
  <2>1. ASSUME NEW i \in Slots, q.q[i].valid
        PROVE  Place(x)[q.q[i].tag] = Place(s)[q.q[i].tag]
    <3>1. PICK t \in Tags : t = q.q[i].tag /\ t \in TagsOf(s) /\ t \notin gone
      BY <1>0, <1>5, <2>1
    <3> QED
      BY <1>0, <1>17, <3>1 DEF Place
  <2>2. \A i, j \in Slots : Valid(q, i) /\ Valid(q, j) =>
          (Comes(q, Place(x), i, j) <=> Comes(q, Place(s), i, j))
    BY <2>1 DEF Valid, Comes
  <2> QED
    BY <1>5, <2>2, AgeListSame
<1>21. \A i \in Slots : q.q[i].valid => q.q[i].tag \in Tags
  BY <1>0, <1>5
<1>22. ActiveListOK(x)
  <2>1. ASSUME NEW k \in DOMAIN x.al, NEW t \in x.al[k].srcs
        PROVE  IF t \in TagsOf(x) THEN Position(x, t) < k /\ HasDest(InsnOf(x, t))
                                  ELSE t \in x.ready /\ t \in x.written
    <3>1. k \in DOMAIN s.al /\ t \in s.al[k].srcs
      BY <1>17
    <3>2. IF t \in TagsOf(s) THEN Position(s, t) < k /\ HasDest(InsnOf(s, t))
                             ELSE t \in s.ready /\ t \in s.written
      BY <3>1 DEF CoreOK, ActiveListOK
    <3>3. t \in TagsOf(s) => t \notin gone
      <4>1. s.al[k].tag \in TagsOf(x) /\ Position(s, s.al[k].tag) = k /\ s.al[k].tag \in TagsOf(s)
        BY <1>0, <1>17, <3>1, ActiveIs DEF TagsOf
      <4>2. ~(Position(s, a) < k) /\ Position(s, a) \in Nat /\ k \in Nat
        BY <1>0, <1>2, <1>17, <4>1
      <4>3. \A u \in TagsOf(s) : Position(s, u) \in Nat
        BY <1>0
      <4> QED
        BY <1>2, <3>2, <4>2, <4>3
    <3> QED
      BY <1>15, <1>17, <3>2, <3>3
  <2> QED
    BY <1>17, <2>1 DEF ActiveListOK, Distinct
<1>23. Consumers(x)
  <2>1. \A i \in Slots : x.iq.q[i].valid =>
          x.iq.q[i].waits = InsnOf(x, x.iq.q[i].tag).srcs \ x.ready
    <3> TAKE i \in Slots
    <3> HAVE x.iq.q[i].valid
    <3>1. /\ s.iq.q[i].valid /\ x.iq.q[i].tag = s.iq.q[i].tag /\ x.iq.q[i].waits = s.iq.q[i].waits
          /\ s.iq.q[i].tag \in TagsOf(x)
      BY <1>0, <1>5, <1>15, <1>17
    <3>2. s.iq.q[i].waits = InsnOf(s, s.iq.q[i].tag).srcs \ s.ready
      BY <3>1 DEF CoreOK, Consumers
    <3> QED
      BY <1>15, <1>17, <3>1, <3>2
  <2>2. \A l \in LaneIDs : x.rr[l] # None => InsnOf(x, x.rr[l]).srcs \subseteq x.ready
    <3> TAKE l \in LaneIDs
    <3> HAVE x.rr[l] # None
    <3>1. x.rr[l] = s.rr[l] /\ s.rr[l] \notin gone /\ s.rr[l] # None
      BY <1>6, <1>15
    <3>2. 1 \in Registers(l) /\ At(s, l, 1) = s.rr[l]
      BY <1>0, AtIs, Sizes DEF Registers
    <3>3. s.rr[l] \in TagsOf(s)
      BY <3>1, <3>2, ActiveTypes
    <3>4. InsnOf(s, s.rr[l]).srcs \subseteq s.ready
      BY <3>1 DEF CoreOK, Consumers
    <3> QED
      BY <1>15, <1>17, <3>1, <3>3, <3>4
  <2> QED
    BY <2>1, <2>2 DEF Consumers
<1>24. CoreOK(x)
  BY <1>5, <1>15, <1>19, <1>20, <1>21, <1>22, <1>23 DEF CoreOK
<1> QED
  BY <1>1, <1>3, <1>16, <1>17, <1>24

Completed(y, a, x) ==
  /\ x \in Core /\ x.iq = y.iq /\ x.rr = y.rr /\ x.ex = y.ex /\ x.wb = y.wb /\ x.ready = y.ready
  /\ x.written = y.written /\ x.stalled = y.stalled /\ x.ptr = y.ptr
  /\ SameInsns(y, x, a) /\ (a \in TagsOf(y) => Done(x, a))

LEMMA CompleteIs ==
  ASSUME NEW y \in Core, NEW a, NEW x, x = Complete(y, a)
  PROVE  Completed(y, a, x)
<1>1. y.al \in Seq(Insn) /\ \A k \in DOMAIN y.al : y.al[k] \in Insn
  BY CoreIs
<1>2. PICK al_ : al_ = [k \in DOMAIN y.al |->
                          IF y.al[k].tag = a THEN [y.al[k] EXCEPT !.completed = TRUE] ELSE y.al[k]]
  OBVIOUS
<1>3. ASSUME NEW k \in DOMAIN y.al
      PROVE  /\ al_[k] \in Insn /\ al_[k].tag = y.al[k].tag /\ al_[k].op = y.al[k].op
             /\ al_[k].srcs = y.al[k].srcs
             /\ y.al[k].tag # a => al_[k].completed = y.al[k].completed
             /\ y.al[k].tag = a => al_[k].completed
  <2>1. y.al[k] \in Insn
    BY <1>1
  <2>2. CASE y.al[k].tag = a
    <3>1. al_[k] = [y.al[k] EXCEPT !.completed = TRUE]
      BY <1>2, <2>2
    <3> QED
      BY <2>1, <2>2, <3>1 DEF Insn
  <2>3. CASE y.al[k].tag # a
    <3>1. al_[k] = y.al[k]
      BY <1>2, <2>3
    <3> QED
      BY <2>1, <2>3, <3>1
  <2> QED
    BY <2>2, <2>3
<1>4. DOMAIN al_ = DOMAIN y.al
  BY <1>2
<1>5. al_ \in Seq(Insn)
  <2>1. PICK n \in Nat : n = Len(y.al) /\ DOMAIN y.al = 1 .. n
    BY <1>1
  <2>2. al_ \in [1 .. n -> Insn]
    BY <1>2, <1>3, <2>1
  <2> QED
    BY <2>2
<1>6. x = [y EXCEPT !.al = al_]
  BY <1>2 DEF Complete
<1>7. /\ x \in Core /\ x.iq = y.iq /\ x.rr = y.rr /\ x.ex = y.ex /\ x.wb = y.wb /\ x.ready = y.ready
      /\ x.written = y.written /\ x.stalled = y.stalled /\ x.ptr = y.ptr /\ x.al = al_
  BY <1>5, <1>6 DEF Core
<1>8. SameInsns(y, x, a)
  BY <1>3, <1>4, <1>5, <1>7 DEF SameInsns
<1>9. a \in TagsOf(y) => Done(x, a)
  BY <1>3, <1>4, <1>7 DEF TagsOf, Done
<1> QED
  BY <1>7, <1>8, <1>9 DEF Completed

(* What the last registers of the lanes hold can only leave them.          *)
LastOnly(s, x) ==
  \A m \in LaneIDs : At(x, m, Depth[m] + 2) = None \/ At(x, m, Depth[m] + 2) = At(s, m, Depth[m] + 2)

LEMMA WritebackOK ==
  ASSUME NEW s, CoreOK(s), NEW l \in LaneIDs, NEW mispredicted,
         NEW x, x = Writeback(mispredicted, s, l)
  PROVE  CoreOK(x) /\ At(x, l, Depth[l] + 2) = None /\ LastOnly(s, x)
<1>0. s \in Core /\ At(s, l, Depth[l] + 2) = s.wb[l]
      /\ \A m \in LaneIDs : Depth[m] + 2 \in Registers(m)
  BY AtIs, Sizes DEF CoreOK, Registers
<1>1. CASE s.wb[l] = None
  BY <1>0, <1>1 DEF Writeback, LastOnly
<1>2. CASE s.wb[l] # None
  <2>1. PICK a \in Tags : a = s.wb[l] /\ a \in TagsOf(s)
    BY <1>0, <1>2, ActiveTypes
  <2>2. PICK r : r = IF a \in mispredicted THEN SquashYounger(s, a) ELSE s
    OBVIOUS
  <2>3. CoreOK(r) /\ a \in TagsOf(r) /\ LastOnly(s, r) /\ At(r, l, Depth[l] + 2) = a
    <3>1. CASE a \in mispredicted
      <4>1. /\ CoreOK(r) /\ a \in TagsOf(r) /\ a \notin Younger(s, a)
            /\ \A m \in LaneIDs : \A c \in Registers(m) :
                 At(r, m, c) = IF At(s, m, c) \in Younger(s, a) THEN None ELSE At(s, m, c)
        BY <2>1, <2>2, <3>1, SquashYoungerOK
      <4> QED
        BY <1>0, <2>1, <4>1 DEF LastOnly
    <3>2. CASE a \notin mispredicted
      BY <1>0, <2>1, <2>2, <3>2 DEF LastOnly
    <3> QED
      BY <3>1, <3>2
  <2>4. PICK y : y = Complete(r, a)
    OBVIOUS
  <2>5. r \in Core /\ SoundBut(r, a) /\ Completed(r, a, y)
    BY <2>3, <2>4, CompleteIs, SoundIs DEF CoreOK
  <2>6. PICK wb_ : wb_ = Put(y.wb, l, None)
    OBVIOUS
  <2>7. wb_ \in [LaneIDs -> NoTag] /\ \A m \in LaneIDs : wb_[m] = IF m = l THEN None ELSE r.wb[m]
    <3>1. y.wb \in [LaneIDs -> NoTag] /\ y.wb = r.wb
      BY <2>5, CoreIs DEF Completed
    <3> QED
      BY <2>6, <3>1 DEF Put, NoTag
  <2>8. x = [y EXCEPT !.wb = wb_]
    BY <1>2, <2>1, <2>2, <2>4, <2>6 DEF Writeback
  <2>9. /\ x \in Core /\ x.iq = r.iq /\ x.rr = r.rr /\ x.ex = r.ex /\ x.wb = wb_
        /\ x.ready = r.ready /\ x.written = r.written /\ x.stalled = r.stalled /\ x.al = y.al
    BY <2>5, <2>7, <2>8 DEF Core, Completed
  <2>10. ASSUME NEW m \in LaneIDs, NEW c \in Registers(m)
         PROVE  At(x, m, c) = IF m = l /\ c = Depth[l] + 2 THEN None ELSE At(r, m, c)
    <3>1. Depth[m] + 2 # 1
      BY Sizes
    <3> QED
      BY <2>7, <2>9, <3>1 DEF At
  <2>11. /\ OnePlace(r, a) /\ ~InQueue(r, a) /\ a \notin r.stalled /\ ~Done(r, a)
         /\ \A m \in LaneIDs : \A c \in Registers(m) : At(r, m, c) = a => m = l /\ c = Depth[l] + 2
         /\ \A load : ~Asleep(r, a, load)
    <3>1. OnePlace(r, a)
      BY <2>3 DEF CoreOK
    <3> QED
      BY <1>0, <2>3, <3>1, OnlyRegister
  <2>12. SameInsns(r, x, a) /\ Done(x, a)
    <3>1. SameInsns(r, y, a) /\ Done(y, a)
      BY <2>3, <2>5 DEF Completed
    <3> QED
      BY <2>9, <3>1 DEF SameInsns, Done
  <2>13. r.al \in Seq(Insn) /\ Distinct(r)
    BY <2>3, ActiveTypes
  <2>14. TagsOf(x) = TagsOf(r) /\ InsnOf(x, a).op = InsnOf(r, a).op
    BY <2>3, <2>12, <2>13, SameInsnsIs
  <2>15. \A m \in LaneIDs : \A c \in Registers(m) : At(x, m, c) # a
    BY <2>10, <2>11, Sizes
  <2>16. OnePlace(x, a) /\ \A load : ~Asleep(x, a, load)
    <3>1. a \notin x.stalled
      BY <2>9, <2>11
    <3> QED
      BY <2>3, <2>9, <2>11, <2>12, <2>14, <2>15, <3>1, NoRegister
  <2>17. SoundBut(x, a)
    <3>1. \A t \in Tags \ {a} : \A m \in LaneIDs : \A c \in Registers(m) :
            At(x, m, c) = t <=> At(r, m, c) = t
      <4>1. \A t \in Tags : t # None
        BY Sizes
      <4> QED
        BY <2>3, <2>10, <4>1
    <3> QED
      BY <2>5, <2>9, <2>12, <2>16, <3>1, OthersSound
  <2>18. Wakes(x, a)
    <3>1. Wakes(r, a)
      BY <2>3 DEF CoreOK
    <3>2. HasDest(InsnOf(r, a)) => a \in r.ready /\ InTime(r, a, IsLoad(InsnOf(r, a)))
      BY <2>3, <2>11, <3>1 DEF Wakes
    <3>3. \A m \in LaneIDs : At(r, m, Depth[m] + 1) # a
      <4>1. \A m \in LaneIDs : Depth[m] + 1 \in Registers(m) /\ Depth[m] + 1 # Depth[m] + 2
        BY Sizes DEF Registers
      <4> QED
        BY <2>11, <4>1
    <3>4. HasDest(InsnOf(r, a)) => a \in r.written
      BY <3>2, <3>3 DEF InTime
    <3> QED
      BY <2>9, <2>14, <2>16, <3>2, <3>4 DEF Wakes, InTime, HasDest
  <2>19. At(x, l, Depth[l] + 2) = None /\ LastOnly(r, x)
    BY <1>0, <2>10 DEF LastOnly
  <2>20. LastOnly(s, x)
    BY <2>3, <2>19 DEF LastOnly
  <2> QED
    BY <2>17, <2>18, <2>19, <2>20, SoundIs
<1> QED
  BY <1>1, <1>2

LEMMA LoadReplayOK ==
  ASSUME NEW s, CoreOK(s), NEW a, NEW x, x = LoadReplay(s, a)
  PROVE  CoreOK(x) /\ \A m \in LaneIDs : \A c \in Registers(m) : At(x, m, c) = At(s, m, c)
<1>0. s \in Core /\ s.stalled \in SUBSET Tags /\ s.written \in SUBSET Tags
  BY CoreIs DEF CoreOK
<1>1. CASE a \notin s.stalled
  BY <1>1 DEF LoadReplay
<1>2. CASE a \in s.stalled
  <2>1. a \in Tags /\ SoundBut(s, a) /\ OnePlace(s, a)
    BY <1>0, <1>2, SoundIs DEF CoreOK
  <2>2. PICK b : b = Broadcast(s, a)
    OBVIOUS
  <2>3. /\ b \in Core /\ b.rr = s.rr /\ b.ex = s.ex /\ b.wb = s.wb /\ b.written = s.written
        /\ b.stalled = s.stalled /\ b.al = s.al /\ b.ready = s.ready \cup {a}
        /\ \A m, c : At(b, m, c) = At(s, m, c)
        /\ SoundBut(b, a)
    BY <1>0, <2>1, <2>2, BroadcastIs, BroadcastSound
  <2>4. PICK written_ \in SUBSET Tags : written_ = s.written \cup {a}
    BY <1>0, <2>1
  <2>5. PICK stalled_ \in SUBSET Tags : stalled_ = s.stalled \ {a}
    BY <1>0
  <2>6. PICK y : y = [b EXCEPT !.written = written_, !.stalled = stalled_]
    OBVIOUS
  <2>7. /\ y \in Core /\ y.iq = b.iq /\ y.rr = b.rr /\ y.ex = b.ex /\ y.wb = b.wb
        /\ y.ready = b.ready /\ y.written = written_ /\ y.stalled = stalled_ /\ y.al = b.al
    BY <2>3, <2>6 DEF Core
  <2>8. x = Complete(y, a)
    <3>1. PICK h : h = LoadHit(s, a)
      OBVIOUS
    <3>2. h = [b EXCEPT !.written = written_]
      BY <2>2, <2>3, <2>4, <3>1 DEF LoadHit
    <3>3. h.stalled = s.stalled
      BY <2>3, <3>2 DEF Core
    <3>4. [h EXCEPT !.stalled = @ \ {a}] = y
      BY <2>3, <2>5, <2>6, <3>2, <3>3 DEF Core
    <3> QED
      BY <1>2, <3>1, <3>4 DEF LoadReplay
  <2>9. Completed(y, a, x)
    BY <2>7, <2>8, CompleteIs
  <2>10. OnePlace(b, a) /\ a \in TagsOf(b) /\ ~InQueue(b, a) /\ ~InLane(b, a)
    <3>1. OnePlace(b, a)
      BY <2>1, <2>3 DEF SoundBut
    <3> QED
      BY <1>2, <2>3, <3>1 DEF OnePlace
  <2>11. /\ x \in Core /\ x.iq = b.iq /\ x.rr = b.rr /\ x.ready = b.ready /\ x.written = written_
         /\ x.stalled = stalled_ /\ SameInsns(b, x, a)
         /\ \A m, c : At(x, m, c) = At(b, m, c)
    <3>1. SameInsns(y, x, a)
      BY <2>9 DEF Completed
    <3>2. SameInsns(b, x, a)
      BY <2>7, <3>1 DEF SameInsns
    <3>3. x.rr = b.rr /\ x.ex = b.ex /\ x.wb = b.wb
      BY <2>7, <2>9 DEF Completed
    <3>4. \A m, c : At(x, m, c) = At(b, m, c)
      BY <3>3 DEF At
    <3> QED
      BY <2>7, <2>9, <3>2, <3>4 DEF Completed
  <2>12. TagsOf(y) = TagsOf(b)
    BY <2>7 DEF TagsOf
  <2>13. Done(x, a) /\ TagsOf(x) = TagsOf(b)
    <3>1. b.al \in Seq(Insn) /\ Distinct(b)
      BY <2>3, CoreIs DEF SoundBut, ActiveListOK, Distinct
    <3>2. TagsOf(x) = TagsOf(b)
      BY <2>11, <3>1, SameInsnsIs
    <3> QED
      BY <2>9, <2>10, <2>12, <3>2 DEF Completed
  <2>14. OnePlace(x, a) /\ \A load : ~Asleep(x, a, load)
    <3>1. a \notin x.stalled
      BY <2>5, <2>11
    <3>2. \A m \in LaneIDs : \A c \in Registers(m) : At(x, m, c) # a
      BY <2>10, <2>11 DEF InLane
    <3> QED
      BY <2>10, <2>11, <2>13, <3>1, <3>2, NoRegister
  <2>15. SoundBut(x, a)
    <3>1. \A t \in Tags \ {a} : t \in x.stalled <=> t \in b.stalled
      BY <2>3, <2>5, <2>11
    <3>2. b.written \subseteq x.written
      BY <2>3, <2>4, <2>11
    <3> QED
      <4>1. /\ \A m \in LaneIDs : x.rr[m] = None \/ x.rr[m] = b.rr[m]
            /\ \A t \in Tags \ {a} : \A m \in LaneIDs : \A c \in Registers(m) :
                 At(x, m, c) = t <=> At(b, m, c) = t
            /\ x.iq = b.iq /\ x.ready = b.ready /\ SameInsns(b, x, a)
        BY <2>11
      <4>2. x \in Core /\ a \in Tags /\ SoundBut(b, a) /\ OnePlace(x, a)
        BY <2>1, <2>3, <2>11, <2>14
      <4> QED
        BY <3>1, <3>2, <4>1, <4>2, OthersSound
  <2>16. Wakes(x, a)
    BY <2>3, <2>4, <2>11, <2>14 DEF Wakes, InTime
  <2> QED
    BY <2>3, <2>11, <2>15, <2>16, SoundIs
<1> QED
  BY <1>1, <1>2

-----------------------------------------------------------------------------
(* schedule().                                                             *)

LEMMA SelectOK ==
  ASSUME NEW s, CoreOK(s), NEW i \in Slots, NEW x, x = Select(s, i)
  PROVE  CoreOK(x)
<1>0. s \in Core
  BY DEF CoreOK
<1> DEFINE free == {l \in s.iq.q[i].lanes : s.rr[l] = None}
<1>1. CASE ~(s.iq.q[i].valid /\ s.iq.q[i].waits = {} /\ free # {})
  BY <1>1 DEF Select
<1>2. CASE s.iq.q[i].valid /\ s.iq.q[i].waits = {} /\ free # {}
  <2>1. free \subseteq LaneIDs /\ free \subseteq Nat
    <3>1. s.iq.q[i].lanes \in SUBSET LaneIDs
      BY <1>0, CoreIs, QueueIs
    <3> QED
      BY <3>1, Sizes
  <2> HIDE DEF free
  <2>2. PICK m \in free : \A n \in free : m <= n
    BY <1>2, <2>1, LeastElement
  <2>3. PICK l : l = CHOOSE n \in free : \A k \in free : n <= k
    OBVIOUS
  <2>4. l \in free
    BY <2>2, <2>3
  <2> USE DEF free
  <2>5. l \in LaneIDs /\ s.rr[l] = None
    BY <2>1, <2>4
  <2>6. PICK a \in Tags : a = s.iq.q[i].tag /\ a \in TagsOf(s)
    BY <1>2, ActiveTypes
  <2>7. PICK q : q = RemoveEntry(s.iq, i)
    OBVIOUS
  <2>8. PICK rr_ : rr_ = Put(s.rr, l, a)
    OBVIOUS
  <2>9. x = [s EXCEPT !.rr = rr_, !.iq = q]
    BY <1>2, <2>3, <2>6, <2>7, <2>8 DEF Select
  <2>10. s.iq \in Queue /\ FreeListOK(s.iq) /\ AgeListOK(s.iq, Place(s))
    BY <1>0, CoreIs DEF CoreOK
  <2>11. q \in Queue /\ Removed(s.iq, i, q)
    BY <1>2, <2>7, <2>10, RemovedIs
  <2>12. FreeListOK(q) /\ AgeListOK(q, Place(s))
    <3>1. \A j \in Slots : s.iq.q[j].valid => Place(s)[s.iq.q[j].tag] \in Nat
      BY ActiveTypes
    <3> QED
      BY <1>2, <2>7, <2>10, <3>1, RemovedFreeList, RemovedAgeList
  <2>13. rr_ \in [LaneIDs -> NoTag] /\ \A m_ \in LaneIDs : rr_[m_] = IF m_ = l THEN a ELSE s.rr[m_]
    BY <1>0, <2>8, CoreIs DEF Put, NoTag
  <2>14. /\ x \in Core /\ x.iq = q /\ x.rr = rr_ /\ x.ex = s.ex /\ x.wb = s.wb /\ x.ready = s.ready
         /\ x.written = s.written /\ x.stalled = s.stalled /\ x.al = s.al
    BY <1>0, <2>9, <2>11, <2>13 DEF Core
  <2>15. /\ \A j \in Slots : q.q[j].valid <=> (s.iq.q[j].valid /\ j # i)
         /\ \A j \in Slots \ {i} : q.q[j].tag = s.iq.q[j].tag /\ q.q[j].waits = s.iq.q[j].waits
    BY <2>11 DEF Removed
  <2>16. ASSUME NEW n \in LaneIDs, NEW c \in Registers(n)
         PROVE  At(x, n, c) = IF n = l /\ c = 1 THEN a ELSE At(s, n, c)
    BY <2>13, <2>14 DEF At
  <2>17. /\ TagsOf(x) = TagsOf(s) /\ Place(x) = Place(s)
         /\ \A t : InsnOf(x, t) = InsnOf(s, t) /\ (Done(x, t) <=> Done(s, t))
    BY <2>14, SameActive
  <2>18. At(s, l, 1) = None /\ 1 \in Registers(l) /\ a # None /\ 1 <= Depth[l] /\ 1 # Depth[l] + 2
    BY <1>0, <2>5, AtIs, Sizes DEF Registers
  <2>19. ASSUME NEW t \in Tags \ {a} PROVE OnePlace(x, t) /\ Wakes(x, t)
    <3>1. t # None
      BY Sizes
    <3>2. \A j \in Slots : InSlot(x, j, t) <=> InSlot(s, j, t)
      BY <2>6, <2>14, <2>15 DEF InSlot
    <3>3. \A n \in LaneIDs : \A c \in Registers(n) : At(x, n, c) = t <=> At(s, n, c) = t
      BY <2>16, <2>18, <3>1
    <3>4. SamePlaces(s, x, t)
      BY <2>14, <2>17, <3>2, <3>3 DEF SamePlaces
    <3>5. OnePlace(s, t) /\ Wakes(s, t) /\ InsnOf(x, t).op = InsnOf(s, t).op
      BY <2>17 DEF CoreOK
    <3> QED
      BY <2>14, <3>4, <3>5, SameOnePlace, SameWakes
  <2>20. OnePlace(s, a) /\ Wakes(s, a) /\ InSlot(s, i, a) /\ InQueue(s, a)
    BY <1>2, <2>6 DEF CoreOK, InSlot, InQueue
  <2>21. OnePlace(x, a)
    <3>1. \A j \in Slots : InSlot(s, j, a) => j = i
      BY <2>20 DEF OnePlace
    <3>2. \A j \in Slots : ~InSlot(x, j, a)
      BY <2>14, <2>15, <3>1 DEF InSlot
    <3>3. \A n \in LaneIDs : \A c \in Registers(n) : At(x, n, c) = a <=> n = l /\ c = 1
      BY <2>16, <2>20 DEF OnePlace, InLane
    <3>4. InLane(x, a)
      BY <2>5, <2>18, <3>3 DEF InLane
    <3>5. a \notin x.stalled /\ ~Done(x, a) /\ a \in TagsOf(x)
      BY <2>6, <2>14, <2>17, <2>20 DEF OnePlace
    <3>6. \A n, k \in LaneIDs : \A c \in Registers(n), d \in Registers(k) :
            At(x, n, c) = a /\ At(x, k, d) = a => n = k /\ c = d
      BY <3>3
    <3> QED
      BY <3>2, <3>4, <3>5, <3>6 DEF OnePlace, InQueue
  <2>22. Wakes(x, a)
    <3>1. At(x, l, 1) = a
      BY <2>5, <2>16, <2>18
    <3>2. \A load : Asleep(x, a, load)
      BY <2>5, <2>18, <2>21, <3>1, OnlyRegister
    <3>3. \A load : Asleep(s, a, load)
      BY <2>20 DEF Asleep
    <3> QED
      BY <2>6, <2>14, <2>17, <2>20, <3>2, <3>3 DEF Wakes
  <2>23. \A j \in Slots : x.iq.q[j].valid => x.iq.q[j].tag \in Tags
    BY <2>14, <2>15 DEF CoreOK
  <2>24. ActiveListOK(x)
    BY <2>14, KeepsActive DEF CoreOK
  <2>25. Consumers(x)
    <3>1. Consumers(s)
      BY DEF CoreOK
    <3>2. \A j \in Slots : x.iq.q[j].valid =>
            x.iq.q[j].waits = InsnOf(x, x.iq.q[j].tag).srcs \ x.ready
      BY <2>14, <2>15, <2>17, <3>1 DEF Consumers
    <3>3. InsnOf(s, a).srcs \subseteq s.ready
      BY <1>2, <2>6, <3>1 DEF Consumers
    <3>4. \A n \in LaneIDs : x.rr[n] # None => InsnOf(x, x.rr[n]).srcs \subseteq x.ready
      BY <2>13, <2>14, <2>17, <3>1, <3>3 DEF Consumers
    <3> QED
      BY <3>2, <3>4 DEF Consumers
  <2> QED
    BY <2>12, <2>14, <2>17, <2>19, <2>21, <2>22, <2>23, <2>24, <2>25 DEF CoreOK
<1> QED
  BY <1>1, <1>2

(* The first entries of the age list: at most n, in the order of the links.*)
Chain(q, c) ==
  /\ c \in Seq(Slots) /\ (c = <<>> <=> q.oldest = None)
  /\ \A k \in 1 .. Len(c) : q.q[c[k]].valid
  /\ c # <<>> => c[1] = q.oldest
  /\ \A k \in 1 .. Len(c) - 1 : c[k + 1] = q.q[c[k]].next
ChainTo(q, n, c) ==
  Chain(q, c) /\ (c = <<>> \/ Len(c) = n + 1 \/ q.q[c[Len(c)]].next = None)

LEMMA ChainStep ==
  ASSUME NEW q \in Queue, NEW R, AgeListOK(q, R), NEW n \in 1 .. IQSize, NEW c, ChainTo(q, n - 1, c),
         NEW d, d = IF c = <<>> \/ q.q[Last(c)].next = None THEN c ELSE Append(c, q.q[Last(c)].next)
  PROVE  ChainTo(q, n, d)
<1>0. c \in Seq(Slots) /\ Len(c) \in Nat /\ (c # <<>> <=> Len(c) >= 1)
  BY DEF ChainTo, Chain
<1>1. CASE c = <<>>
  BY <1>1 DEF ChainTo
<1>2. CASE c # <<>> /\ q.q[Last(c)].next = None
  BY <1>2 DEF ChainTo, Last
<1>3. CASE c # <<>> /\ q.q[Last(c)].next # None
  <2>1. PICK i \in Slots : i = c[Len(c)] /\ q.q[i].valid /\ Last(c) = i
    BY <1>0, <1>3 DEF ChainTo, Chain, Last
  <2>2. PICK j \in Slots : j = q.q[i].next /\ q.q[j].valid
    BY <1>3, <2>1 DEF AgeListOK, Valid
  <2>3. d = Append(c, j) /\ d \in Seq(Slots) /\ Len(d) = Len(c) + 1 /\ d # <<>>
        /\ d[Len(c) + 1] = j /\ \A k \in 1 .. Len(c) : d[k] = c[k]
    BY <1>0, <1>3, <2>1, <2>2
  <2>4. Len(c) = n
    BY <1>0, <1>3, <2>1 DEF ChainTo
  <2>5. \A k \in 1 .. Len(d) : q.q[d[k]].valid
    <3>1. \A k \in 1 .. Len(d) : k \in 1 .. Len(c) \/ k = Len(c) + 1
      BY <1>0, <2>3
    <3> QED
      BY <2>2, <2>3, <3>1 DEF ChainTo, Chain
  <2>6. ASSUME NEW k \in 1 .. Len(d) - 1 PROVE d[k + 1] = q.q[d[k]].next
    <3>1. k \in 1 .. Len(c) /\ (k = Len(c) \/ k \in 1 .. Len(c) - 1) /\ (k # Len(c) => k + 1 \in 1 .. Len(c))
      BY <1>0, <2>3
    <3>2. CASE k = Len(c)
      BY <2>1, <2>2, <2>3, <3>1, <3>2
    <3>3. CASE k # Len(c)
      <4>1. c[k + 1] = q.q[c[k]].next
        BY <3>1, <3>3 DEF ChainTo, Chain
      <4> QED
        BY <2>3, <3>1, <3>3, <4>1
    <3> QED
      BY <3>2, <3>3
  <2>7. d[1] = q.oldest /\ q.oldest # None
    BY <1>0, <1>3, <2>3 DEF ChainTo, Chain
  <2> QED
    BY <2>3, <2>4, <2>5, <2>6, <2>7 DEF ChainTo, Chain
<1> QED
  BY <1>1, <1>2, <1>3

LEMMA AgeOrderIs ==
  ASSUME NEW q \in Queue, NEW R, AgeListOK(q, R)
  PROVE  ChainTo(q, IQSize, AgeOrder(q))
<1> DEFINE first == IF q.oldest = None THEN <<>> ELSE <<q.oldest>>
           Step(c) == IF c = <<>> \/ q.q[Last(c)].next = None THEN c ELSE Append(c, q.q[Last(c)].next)
           D == [k \in 0 .. IQSize |-> {c \in Seq(Slots) : ChainTo(q, k, c)}]
           G == [k \in 1 .. IQSize |-> [c \in D[k - 1] |-> Step(c)]]
           chain[n \in 0 .. IQSize] ==
             IF n = 0 THEN IF q.oldest = None THEN <<>> ELSE <<q.oldest>>
             ELSE LET c == chain[n - 1]
                  IN IF c = <<>> \/ q.q[Last(c)].next = None THEN c ELSE Append(c, q.q[Last(c)].next)
<1>1. /\ IQSize \in Nat /\ 0 \in 0 .. IQSize /\ IQSize \in 0 .. IQSize
      /\ \A k \in 1 .. IQSize : k - 1 \in 0 .. IQSize /\ k \in 0 .. IQSize /\ k # 0
      /\ \A k \in 0 .. IQSize - 1 : k + 1 \in 1 .. IQSize /\ (k + 1) - 1 = k /\ k + 1 \in 0 .. IQSize
  BY Sizes
<1>2. first \in D[0]
  <2>1. CASE q.oldest = None
    <3>1. ChainTo(q, 0, <<>>)
      BY <2>1 DEF ChainTo, Chain
    <3> QED
      BY <1>1, <2>1, <3>1
  <2>2. CASE q.oldest # None
    <3>1. PICK o \in Slots : o = q.oldest /\ q.q[o].valid
      BY <2>2 DEF AgeListOK, Valid
    <3>2. <<o>> \in Seq(Slots) /\ Len(<<o>>) = 1 /\ <<o>>[1] = o /\ <<o>> # <<>>
      OBVIOUS
    <3>3. ChainTo(q, 0, <<o>>)
      BY <2>2, <3>1, <3>2 DEF ChainTo, Chain
    <3> QED
      BY <1>1, <2>2, <3>1, <3>2, <3>3
  <2> QED
    BY <2>1, <2>2
<1>3. \A k \in 1 .. IQSize : \A c \in D[k - 1] : Step(c) \in D[k]
  <2> SUFFICES ASSUME NEW k \in 1 .. IQSize, NEW c \in D[k - 1] PROVE Step(c) \in D[k]
    OBVIOUS
  <2>1. ChainTo(q, k - 1, c)
    BY <1>1
  <2>2. PICK d : d = Step(c)
    OBVIOUS
  <2>3. ChainTo(q, k, d)
    BY <2>1, <2>2, ChainStep
  <2>4. d \in Seq(Slots)
    BY <2>3 DEF ChainTo, Chain
  <2> QED
    BY <1>1, <2>2, <2>3, <2>4
<1>4. PICK f : Runs(IQSize, D, G, first, f)
  <2>1. \A k \in 1 .. IQSize : \A y \in D[k - 1] : G[k][y] \in D[k]
    BY <1>3
  <2> HIDE DEF D, G, first
  <2> QED
    BY <1>1, <1>2, <2>1, RunExists
<1>5. f = [k \in 0 .. IQSize |-> IF k = 0 THEN first ELSE Step(f[k - 1])]
  <2>1. ASSUME NEW k \in 1 .. IQSize PROVE f[k] = Step(f[k - 1])
    <3>1. f[k] = G[k][f[k - 1]] /\ f[k - 1] \in D[k - 1]
      BY <1>1, <1>4 DEF Runs
    <3> HIDE DEF D, Step
    <3> QED
      BY <3>1
  <2>2. \A k \in 0 .. IQSize : k = 0 \/ k \in 1 .. IQSize
    BY <1>1
  <2>3. f[0] = first /\ f = [k \in 0 .. IQSize |-> f[k]]
    BY <1>4 DEF Runs
  <2> HIDE DEF Step, first
  <2> QED
    BY <2>1, <2>2, <2>3
<1>6. AgeOrder(q) = chain[IQSize]
  BY DEF AgeOrder
<1>7. chain = [k \in 0 .. IQSize |-> IF k = 0 THEN first ELSE Step(chain[k - 1])]
  BY <1>5
<1> HIDE DEF chain
<1>8. \A k \in 0 .. IQSize : chain[k] \in D[k]
  <2> DEFINE H == {k \in 0 .. IQSize : chain[k] \in D[k]}
  <2>1. 0 \in H
    BY <1>1, <1>2, <1>7
  <2>2. ASSUME NEW k \in 0 .. IQSize - 1, k \in H PROVE k + 1 \in H
    <3>1. chain[k] \in D[(k + 1) - 1] /\ k + 1 \in 1 .. IQSize /\ k + 1 \in 0 .. IQSize
      BY <1>1, <2>2
    <3> HIDE DEF D, Step, first
    <3>2. chain[k + 1] = Step(chain[(k + 1) - 1])
      BY <1>1, <1>7, <3>1
    <3> QED
      BY <1>1, <1>3, <3>1, <3>2
  <2> HIDE DEF H
  <2>3. \A k \in 0 .. IQSize : k \in H
    BY <1>1, <2>1, <2>2, UpTo
  <2> QED
    BY <2>3 DEF H
<1> QED
  BY <1>1, <1>6, <1>8

LEMMA ScanIs ==
  ASSUME NEW s, CoreOK(s)
  PROVE  ScanOrder(s.iq) \in Seq(Slots) /\ NextPartition(s.iq) \in Slots
<1>1. s.iq \in Queue /\ AgeListOK(s.iq, Place(s))
  BY CoreIs DEF CoreOK
<1>2. PICK p \in Slots : p = s.iq.part_next
  BY <1>1, QueueIs
<1>3. ScanOrder(s.iq) \in Seq(Slots)
  <2>1. AgeOrder(s.iq) \in Seq(Slots)
    BY <1>1, AgeOrderIs DEF ChainTo, Chain
  <2>2. [k \in 1 .. IQSize |-> (p + k - 1) % IQSize] \in Seq(Slots)
    <3>1. \A k \in 1 .. IQSize : (p + k - 1) % IQSize \in Slots
      BY Sizes DEF Slots
    <3> QED
      BY <3>1, Sizes
  <2> QED
    BY <1>2, <2>1, <2>2 DEF ScanOrder
<1>4. NextPartition(s.iq) \in Slots
  <2>1. PICK d \in Int : d = IQSize \div NumParts
    BY Sizes
  <2>2. (p + d) % IQSize \in Slots
    BY Sizes DEF Slots
  <2> QED
    BY <1>2, <2>1, <2>2 DEF NextPartition
<1> QED
  BY <1>3, <1>4

LEMMA PartNextOK ==
  ASSUME NEW s, CoreOK(s), NEW n \in Slots, NEW x, x = [s EXCEPT !.iq.part_next = n]
  PROVE  CoreOK(x)
<1>0. s \in Core /\ s.iq \in Queue
  BY CoreIs DEF CoreOK
<1>1. PICK q : q = [s.iq EXCEPT !.part_next = n]
  OBVIOUS
<1>2. /\ q \in Queue /\ q.q = s.iq.q /\ q.fl = s.iq.fl /\ q.fl_head = s.iq.fl_head
      /\ q.fl_tail = s.iq.fl_tail /\ q.fl_length = s.iq.fl_length
      /\ q.oldest = s.iq.oldest /\ q.youngest = s.iq.youngest
  BY <1>0, <1>1 DEF Queue
<1>3. x = [s EXCEPT !.iq = q]
  BY <1>0, <1>1 DEF Core
<1>4. /\ x \in Core /\ x.iq = q /\ x.rr = s.rr /\ x.ex = s.ex /\ x.wb = s.wb /\ x.ready = s.ready
      /\ x.written = s.written /\ x.stalled = s.stalled /\ x.al = s.al
  BY <1>0, <1>2, <1>3 DEF Core
<1>5. /\ TagsOf(x) = TagsOf(s) /\ Place(x) = Place(s)
      /\ \A t : InsnOf(x, t) = InsnOf(s, t) /\ (Done(x, t) <=> Done(s, t))
  BY <1>4, SameActive
<1>6. \A m, c : At(x, m, c) = At(s, m, c)
  BY <1>4 DEF At
<1>7. ASSUME NEW t \in Tags PROVE OnePlace(x, t) /\ Wakes(x, t)
  <2>1. SamePlaces(s, x, t)
    BY <1>2, <1>4, <1>5, <1>6 DEF SamePlaces, InSlot
  <2>2. OnePlace(s, t) /\ Wakes(s, t) /\ InsnOf(x, t).op = InsnOf(s, t).op
    BY <1>5 DEF CoreOK
  <2> QED
    BY <1>4, <2>1, <2>2, SameOnePlace, SameWakes
<1>8. FreeListOK(q)
  <2>1. \A k : Free(q, k) = Free(s.iq, k)
    BY <1>2 DEF Free
  <2>2. FreeListOK(s.iq)
    BY DEF CoreOK
  <2> QED
    BY <1>2, <2>1, <2>2 DEF FreeListOK
<1>9. AgeListOK(q, Place(s))
  <2>1. \A i, j \in Slots : Comes(q, Place(s), i, j) <=> Comes(s.iq, Place(s), i, j)
    BY <1>2 DEF Comes
  <2>2. AgeListOK(s.iq, Place(s))
    BY DEF CoreOK
  <2> QED
    BY <1>2, <2>1, <2>2, AgeListSame
<1>10. ActiveListOK(x)
  BY <1>4, KeepsActive DEF CoreOK
<1>11. Consumers(x)
  BY <1>2, <1>4, <1>5 DEF CoreOK, Consumers
<1> QED
  BY <1>2, <1>4, <1>5, <1>7, <1>8, <1>9, <1>10, <1>11 DEF CoreOK

LEMMA ScheduleOK ==
  ASSUME NEW s, CoreOK(s), NEW x, x = Schedule(s)
  PROVE  CoreOK(x)
<1> DEFINE scan == ScanOrder(s.iq)
<1>0. scan \in Seq(Slots) /\ NextPartition(s.iq) \in Slots /\ s \in Core
  BY ScanIs DEF CoreOK
<1> DEFINE Good == {y \in Core : CoreOK(y)}
           D == [k \in 0 .. Len(scan) |-> Good]
           G == [k \in 1 .. Len(scan) |-> [y \in Good |-> Select(y, scan[k])]]
           picked[k \in 0 .. Len(scan)] ==
             IF k = 0 THEN s ELSE Select(picked[k - 1], scan[k])
<1>1. PICK n \in Nat : n = Len(scan)
  BY <1>0
<1>2. /\ 0 \in 0 .. n /\ n \in 0 .. n
      /\ \A k \in 1 .. n : k - 1 \in 0 .. n /\ k \in 0 .. n /\ k # 0 /\ scan[k] \in Slots
      /\ \A k \in 0 .. n - 1 : k + 1 \in 1 .. n /\ (k + 1) - 1 = k /\ k + 1 \in 0 .. n
  BY <1>0, <1>1
<1>3. \A k \in 1 .. n : \A y \in Good : Select(y, scan[k]) \in Good
  <2> SUFFICES ASSUME NEW k \in 1 .. n, NEW y \in Good PROVE Select(y, scan[k]) \in Good
    OBVIOUS
  <2>1. PICK z : z = Select(y, scan[k])
    OBVIOUS
  <2>2. CoreOK(z)
    BY <1>2, <2>1, SelectOK
  <2> QED
    BY <2>1, <2>2 DEF CoreOK
<1> HIDE DEF Good, scan
<1>4. PICK f : Runs(n, D, G, s, f)
  <2>1. \A k \in 1 .. n : \A y \in D[k - 1] : G[k][y] \in D[k]
    BY <1>1, <1>2, <1>3
  <2>2. s \in D[0]
    BY <1>0, <1>1, <1>2 DEF Good
  <2> HIDE DEF D, G
  <2> QED
    BY <2>1, <2>2, RunExists
<1>5. f = [k \in 0 .. n |-> IF k = 0 THEN s ELSE Select(f[k - 1], scan[k])]
  <2>1. ASSUME NEW k \in 1 .. n PROVE f[k] = Select(f[k - 1], scan[k])
    <3>1. f[k] = G[k][f[k - 1]] /\ f[k - 1] \in D[k - 1]
      BY <1>2, <1>4 DEF Runs
    <3> QED
      BY <1>1, <1>2, <3>1
  <2>2. \A k \in 0 .. n : k = 0 \/ k \in 1 .. n
    OBVIOUS
  <2>3. f[0] = s /\ f = [k \in 0 .. n |-> f[k]]
    BY <1>4 DEF Runs
  <2> QED
    BY <2>1, <2>2, <2>3
<1>6. Schedule(s) = [picked[Len(scan)] EXCEPT !.iq.part_next = NextPartition(s.iq)]
  BY DEF Schedule, scan
<1>7. picked = [k \in 0 .. n |-> IF k = 0 THEN s ELSE Select(picked[k - 1], scan[k])]
  BY <1>1, <1>5
<1> HIDE DEF picked, D, G
<1>8. \A k \in 0 .. n : picked[k] \in Good
  <2> DEFINE H == {k \in 0 .. n : picked[k] \in Good}
  <2>1. 0 \in H
    BY <1>0, <1>2, <1>7 DEF Good
  <2>2. ASSUME NEW k \in 0 .. n - 1, k \in H PROVE k + 1 \in H
    <3>1. picked[(k + 1) - 1] \in Good /\ k + 1 \in 1 .. n /\ k + 1 \in 0 .. n
      BY <1>2, <2>2
    <3>2. picked[k + 1] = Select(picked[(k + 1) - 1], scan[k + 1])
      BY <1>2, <1>7, <3>1
    <3> QED
      BY <1>3, <3>1, <3>2
  <2> HIDE DEF H
  <2>3. \A k \in 0 .. n : k \in H
    BY <2>1, <2>2, UpTo
  <2> QED
    BY <2>3 DEF H
<1>9. PICK y : y = picked[n]
  OBVIOUS
<1>10. CoreOK(y) /\ x = [y EXCEPT !.iq.part_next = NextPartition(s.iq)]
  BY <1>1, <1>2, <1>6, <1>8, <1>9 DEF Good
<1> QED
  BY <1>0, <1>10, PartNextOK

-----------------------------------------------------------------------------
(* The three stages that go over the lanes.                                *)

(* The lanes below k have written back; have executed, and the others have *)
(* not but have written back; from k on the first sub-stage is free.       *)
WrittenBack(s, k) == \A m \in LaneIDs : m < k => At(s, m, Depth[m] + 2) = None
Executed(s, k) ==
  \A m \in LaneIDs : /\ m < k => At(s, m, 2) = None
                     /\ m >= k => At(s, m, Depth[m] + 2) = None
ReadFrom(s, k) == \A m \in LaneIDs : m >= k => At(s, m, 2) = None

LEMMA WritebackStageOK ==
  ASSUME NEW s, CoreOK(s), NEW mispredicted,
         NEW x, x = WritebackStage(mispredicted, s)
  PROVE  CoreOK(x) /\ WrittenBack(x, Lanes)
<1> DEFINE Good(k) == {y \in Core : CoreOK(y) /\ WrittenBack(y, k)}
           D == [k \in 0 .. Lanes |-> Good(k)]
           G == [k \in 1 .. Lanes |-> [y \in Good(k - 1) |-> Writeback(mispredicted, y, k - 1)]]
           after[k \in 0 .. Lanes] ==
             IF k = 0 THEN s ELSE Writeback(mispredicted, after[k - 1], k - 1)
<1>1. /\ Lanes \in Nat /\ 0 \in 0 .. Lanes /\ Lanes \in 0 .. Lanes
      /\ \A k \in 1 .. Lanes : k - 1 \in 0 .. Lanes /\ k \in 0 .. Lanes /\ k # 0 /\ k - 1 \in LaneIDs
      /\ \A k \in 0 .. Lanes - 1 : k + 1 \in 1 .. Lanes /\ (k + 1) - 1 = k /\ k + 1 \in 0 .. Lanes
      /\ \A m \in LaneIDs : m \in Nat /\ ~(m < 0) /\ m >= 0 /\ m < Lanes /\ ~(m >= Lanes)
  BY Sizes DEF LaneIDs
<1>2. s \in Good(0)
  BY <1>1 DEF CoreOK, WrittenBack
<1>3. ASSUME NEW k \in 1 .. Lanes, NEW y \in Good(k - 1) PROVE Writeback(mispredicted, y, k - 1) \in Good(k)
  <2>1. PICK l \in LaneIDs : l = k - 1
    BY <1>1
  <2>2. PICK z : z = Writeback(mispredicted, y, l)
    OBVIOUS
  <2>3. \A m \in LaneIDs : (m < k <=> (m < l \/ m = l)) /\ (m >= k => m >= l /\ m # l) /\ l >= l
                            /\ (m # l => m \in LaneIDs \ {l})
    BY <1>1, <2>1
  <2>4. \A m \in LaneIDs : Depth[m] + 2 \in Registers(m)
    BY Sizes DEF Registers
  <2>5. CoreOK(z) /\ At(z, l, Depth[l] + 2) = None /\ LastOnly(y, z) /\ WrittenBack(y, l)
    BY <2>1, <2>2, WritebackOK
  <2>6. CoreOK(z) /\ WrittenBack(z, k)
    BY <2>3, <2>5 DEF LastOnly, WrittenBack
  <2> QED
    BY <2>1, <2>2, <2>6 DEF CoreOK
<1> HIDE DEF Good
<1>4. PICK f : Runs(Lanes, D, G, s, f)
  <2>1. \A k \in 1 .. Lanes : \A y \in D[k - 1] : G[k][y] \in D[k]
    BY <1>1, <1>3
  <2>2. s \in D[0]
    BY <1>1, <1>2
  <2> HIDE DEF D, G
  <2> QED
    BY <1>1, <2>1, <2>2, RunExists
<1>5. f = [k \in 0 .. Lanes |-> IF k = 0 THEN s ELSE Writeback(mispredicted, f[k - 1], k - 1)]
  <2>1. ASSUME NEW k \in 1 .. Lanes PROVE f[k] = Writeback(mispredicted, f[k - 1], k - 1)
    <3>1. f[k] = G[k][f[k - 1]] /\ f[k - 1] \in D[k - 1]
      BY <1>1, <1>4 DEF Runs
    <3> QED
      BY <1>1, <3>1
  <2>2. \A k \in 0 .. Lanes : k = 0 \/ k \in 1 .. Lanes
    BY <1>1
  <2>3. f[0] = s /\ f = [k \in 0 .. Lanes |-> f[k]]
    BY <1>4 DEF Runs
  <2> QED
    BY <2>1, <2>2, <2>3
<1>6. x = after[Lanes]
  BY DEF WritebackStage
<1>7. after = [k \in 0 .. Lanes |-> IF k = 0 THEN s ELSE Writeback(mispredicted, after[k - 1], k - 1)]
  BY <1>5
<1> HIDE DEF after, D, G
<1>8. \A k \in 0 .. Lanes : after[k] \in Good(k)
  <2> DEFINE H == {k \in 0 .. Lanes : after[k] \in Good(k)}
  <2>1. 0 \in H
    BY <1>1, <1>2, <1>7
  <2>2. ASSUME NEW k \in 0 .. Lanes - 1, k \in H PROVE k + 1 \in H
    <3>1. after[(k + 1) - 1] \in Good((k + 1) - 1) /\ k + 1 \in 1 .. Lanes /\ k + 1 \in 0 .. Lanes
      BY <1>1, <2>2
    <3>2. after[k + 1] = Writeback(mispredicted, after[(k + 1) - 1], (k + 1) - 1)
      BY <1>1, <1>7, <3>1
    <3> QED
      BY <1>3, <3>1, <3>2
  <2> HIDE DEF H
  <2>3. \A k \in 0 .. Lanes : k \in H
    BY <1>1, <2>1, <2>2, UpTo
  <2> QED
    BY <2>3 DEF H
<1> QED
  BY <1>1, <1>6, <1>8 DEF Good, WrittenBack


LEMMA ExecuteStageOK ==
  ASSUME NEW s, CoreOK(s), WrittenBack(s, Lanes), NEW hits,
         NEW x, x = ExecuteStage(hits, s)
  PROVE  CoreOK(x) /\ ReadFrom(x, 0)
<1> DEFINE Good(k) == {y \in Core : CoreOK(y) /\ Executed(y, k)}
           D == [k \in 0 .. Lanes |-> Good(k)]
           G == [k \in 1 .. Lanes |-> [y \in Good(k - 1) |-> Execute(hits, y, k - 1)]]
           after[k \in 0 .. Lanes] ==
             IF k = 0 THEN s ELSE Execute(hits, after[k - 1], k - 1)
<1>1. /\ Lanes \in Nat /\ 0 \in 0 .. Lanes /\ Lanes \in 0 .. Lanes
      /\ \A k \in 1 .. Lanes : k - 1 \in 0 .. Lanes /\ k \in 0 .. Lanes /\ k # 0 /\ k - 1 \in LaneIDs
      /\ \A k \in 0 .. Lanes - 1 : k + 1 \in 1 .. Lanes /\ (k + 1) - 1 = k /\ k + 1 \in 0 .. Lanes
      /\ \A m \in LaneIDs : m \in Nat /\ ~(m < 0) /\ m >= 0 /\ m < Lanes /\ ~(m >= Lanes)
  BY Sizes DEF LaneIDs
<1>2. s \in Good(0)
  BY <1>1 DEF CoreOK, WrittenBack, Executed, ReadFrom
<1>3. ASSUME NEW k \in 1 .. Lanes, NEW y \in Good(k - 1) PROVE Execute(hits, y, k - 1) \in Good(k)
  <2>1. PICK l \in LaneIDs : l = k - 1
    BY <1>1
  <2>2. PICK z : z = Execute(hits, y, l)
    OBVIOUS
  <2>3. \A m \in LaneIDs : (m < k <=> (m < l \/ m = l)) /\ (m >= k => m >= l /\ m # l) /\ l >= l
                            /\ (m # l => m \in LaneIDs \ {l})
    BY <1>1, <2>1
  <2>4. \A m \in LaneIDs : Depth[m] + 2 \in Registers(m) /\ 2 \in Registers(m)
    BY Sizes DEF Registers
  <2>5. /\ CoreOK(z) /\ At(z, l, 2) = None /\ Executed(y, l)
        /\ \A m \in LaneIDs \ {l} : \A c \in Registers(m) : At(z, m, c) = At(y, m, c)
    <3>1. Executed(y, l) /\ CoreOK(y) /\ At(y, l, Depth[l] + 2) = None
      BY <2>1, <2>3 DEF Executed
    <3> QED
      BY <2>2, <3>1, ExecuteOK
  <2>6. CoreOK(z) /\ Executed(z, k)
    BY <2>3, <2>4, <2>5 DEF Executed
  <2> QED
    BY <2>1, <2>2, <2>6 DEF CoreOK
<1> HIDE DEF Good
<1>4. PICK f : Runs(Lanes, D, G, s, f)
  <2>1. \A k \in 1 .. Lanes : \A y \in D[k - 1] : G[k][y] \in D[k]
    BY <1>1, <1>3
  <2>2. s \in D[0]
    BY <1>1, <1>2
  <2> HIDE DEF D, G
  <2> QED
    BY <1>1, <2>1, <2>2, RunExists
<1>5. f = [k \in 0 .. Lanes |-> IF k = 0 THEN s ELSE Execute(hits, f[k - 1], k - 1)]
  <2>1. ASSUME NEW k \in 1 .. Lanes PROVE f[k] = Execute(hits, f[k - 1], k - 1)
    <3>1. f[k] = G[k][f[k - 1]] /\ f[k - 1] \in D[k - 1]
      BY <1>1, <1>4 DEF Runs
    <3> QED
      BY <1>1, <3>1
  <2>2. \A k \in 0 .. Lanes : k = 0 \/ k \in 1 .. Lanes
    BY <1>1
  <2>3. f[0] = s /\ f = [k \in 0 .. Lanes |-> f[k]]
    BY <1>4 DEF Runs
  <2> QED
    BY <2>1, <2>2, <2>3
<1>6. x = after[Lanes]
  BY DEF ExecuteStage
<1>7. after = [k \in 0 .. Lanes |-> IF k = 0 THEN s ELSE Execute(hits, after[k - 1], k - 1)]
  BY <1>5
<1> HIDE DEF after, D, G
<1>8. \A k \in 0 .. Lanes : after[k] \in Good(k)
  <2> DEFINE H == {k \in 0 .. Lanes : after[k] \in Good(k)}
  <2>1. 0 \in H
    BY <1>1, <1>2, <1>7
  <2>2. ASSUME NEW k \in 0 .. Lanes - 1, k \in H PROVE k + 1 \in H
    <3>1. after[(k + 1) - 1] \in Good((k + 1) - 1) /\ k + 1 \in 1 .. Lanes /\ k + 1 \in 0 .. Lanes
      BY <1>1, <2>2
    <3>2. after[k + 1] = Execute(hits, after[(k + 1) - 1], (k + 1) - 1)
      BY <1>1, <1>7, <3>1
    <3> QED
      BY <1>3, <3>1, <3>2
  <2> HIDE DEF H
  <2>3. \A k \in 0 .. Lanes : k \in H
    BY <1>1, <2>1, <2>2, UpTo
  <2> QED
    BY <2>3 DEF H
<1> QED
  BY <1>1, <1>6, <1>8 DEF Good, WrittenBack, Executed, ReadFrom


LEMMA RegisterReadStageOK ==
  ASSUME NEW s, CoreOK(s), ReadFrom(s, 0),
         NEW x, x = RegisterReadStage(s)
  PROVE  CoreOK(x)
<1> DEFINE Good(k) == {y \in Core : CoreOK(y) /\ ReadFrom(y, k)}
           D == [k \in 0 .. Lanes |-> Good(k)]
           G == [k \in 1 .. Lanes |-> [y \in Good(k - 1) |-> RegisterRead(y, k - 1)]]
           after[k \in 0 .. Lanes] ==
             IF k = 0 THEN s ELSE RegisterRead(after[k - 1], k - 1)
<1>1. /\ Lanes \in Nat /\ 0 \in 0 .. Lanes /\ Lanes \in 0 .. Lanes
      /\ \A k \in 1 .. Lanes : k - 1 \in 0 .. Lanes /\ k \in 0 .. Lanes /\ k # 0 /\ k - 1 \in LaneIDs
      /\ \A k \in 0 .. Lanes - 1 : k + 1 \in 1 .. Lanes /\ (k + 1) - 1 = k /\ k + 1 \in 0 .. Lanes
      /\ \A m \in LaneIDs : m \in Nat /\ ~(m < 0) /\ m >= 0 /\ m < Lanes /\ ~(m >= Lanes)
  BY Sizes DEF LaneIDs
<1>2. s \in Good(0)
  BY <1>1 DEF CoreOK, ReadFrom
<1>3. ASSUME NEW k \in 1 .. Lanes, NEW y \in Good(k - 1) PROVE RegisterRead(y, k - 1) \in Good(k)
  <2>1. PICK l \in LaneIDs : l = k - 1
    BY <1>1
  <2>2. PICK z : z = RegisterRead(y, l)
    OBVIOUS
  <2>3. \A m \in LaneIDs : (m < k <=> (m < l \/ m = l)) /\ (m >= k => m >= l /\ m # l) /\ l >= l
                            /\ (m # l => m \in LaneIDs \ {l})
    BY <1>1, <2>1
  <2>4. \A m \in LaneIDs : 2 \in Registers(m)
    BY Sizes DEF Registers
  <2>5. /\ CoreOK(z) /\ ReadFrom(y, l)
        /\ \A m \in LaneIDs \ {l} : \A c \in Registers(m) : At(z, m, c) = At(y, m, c)
    <3>1. ReadFrom(y, l) /\ CoreOK(y) /\ At(y, l, 2) = None
      BY <2>1, <2>3 DEF ReadFrom
    <3> QED
      BY <2>2, <3>1, RegisterReadOK
  <2>6. CoreOK(z) /\ ReadFrom(z, k)
    BY <2>3, <2>4, <2>5 DEF ReadFrom
  <2> QED
    BY <2>1, <2>2, <2>6 DEF CoreOK
<1> HIDE DEF Good
<1>4. PICK f : Runs(Lanes, D, G, s, f)
  <2>1. \A k \in 1 .. Lanes : \A y \in D[k - 1] : G[k][y] \in D[k]
    BY <1>1, <1>3
  <2>2. s \in D[0]
    BY <1>1, <1>2
  <2> HIDE DEF D, G
  <2> QED
    BY <1>1, <2>1, <2>2, RunExists
<1>5. f = [k \in 0 .. Lanes |-> IF k = 0 THEN s ELSE RegisterRead(f[k - 1], k - 1)]
  <2>1. ASSUME NEW k \in 1 .. Lanes PROVE f[k] = RegisterRead(f[k - 1], k - 1)
    <3>1. f[k] = G[k][f[k - 1]] /\ f[k - 1] \in D[k - 1]
      BY <1>1, <1>4 DEF Runs
    <3> QED
      BY <1>1, <3>1
  <2>2. \A k \in 0 .. Lanes : k = 0 \/ k \in 1 .. Lanes
    BY <1>1
  <2>3. f[0] = s /\ f = [k \in 0 .. Lanes |-> f[k]]
    BY <1>4 DEF Runs
  <2> QED
    BY <2>1, <2>2, <2>3
<1>6. x = after[Lanes]
  BY DEF RegisterReadStage
<1>7. after = [k \in 0 .. Lanes |-> IF k = 0 THEN s ELSE RegisterRead(after[k - 1], k - 1)]
  BY <1>5
<1> HIDE DEF after, D, G
<1>8. \A k \in 0 .. Lanes : after[k] \in Good(k)
  <2> DEFINE H == {k \in 0 .. Lanes : after[k] \in Good(k)}
  <2>1. 0 \in H
    BY <1>1, <1>2, <1>7
  <2>2. ASSUME NEW k \in 0 .. Lanes - 1, k \in H PROVE k + 1 \in H
    <3>1. after[(k + 1) - 1] \in Good((k + 1) - 1) /\ k + 1 \in 1 .. Lanes /\ k + 1 \in 0 .. Lanes
      BY <1>1, <2>2
    <3>2. after[k + 1] = RegisterRead(after[(k + 1) - 1], (k + 1) - 1)
      BY <1>1, <1>7, <3>1
    <3> QED
      BY <1>3, <3>1, <3>2
  <2> HIDE DEF H
  <2>3. \A k \in 0 .. Lanes : k \in H
    BY <1>1, <2>1, <2>2, UpTo
  <2> QED
    BY <2>3 DEF H
<1> QED
  BY <1>1, <1>6, <1>8 DEF Good, ReadFrom

-----------------------------------------------------------------------------
(* dispatch().                                                             *)

LEMMA SteeredIs ==
  ASSUME NEW s, s.ptr \in [FUs -> LaneIDs], NEW fu \in FUs
  PROVE  Steered(s, fu) \in LaneIDs
<1> DEFINE turn == [k \in 1 .. Lanes |-> (s.ptr[fu] + k) % Lanes]
           hits == {k \in 1 .. Lanes : turn[k] \in FULanes[fu]}
           first == CHOOSE k \in 1 .. Lanes : /\ turn[k] \in FULanes[fu]
                                              /\ \A j \in 1 .. k - 1 : turn[j] \notin FULanes[fu]
<1>1. PICK p \in LaneIDs : p = s.ptr[fu]
  OBVIOUS
<1>2. PICK g \in LaneIDs : g \in FULanes[fu]
  BY IssueQueueAssumption
<1>3. PICK n \in Nat \ {0} : n = Lanes /\ LaneIDs = 0 .. n - 1
  BY Sizes DEF LaneIDs
<1>4. \E k \in 1 .. n : (p + k) % n = g
  <2>1. CASE g > p
    <3>1. g - p \in 1 .. n /\ p + (g - p) = g /\ g % n = g
      <4>1. p \in 0 .. n - 1 /\ g \in 0 .. n - 1
        BY <1>3
      <4>2. g - p \in 1 .. n /\ p + (g - p) = g
        BY <2>1, <4>1
      <4>3. g % n = g
        BY <4>1
      <4> QED
        BY <4>2, <4>3
    <3> QED
      BY <3>1
  <2>2. CASE ~(g > p)
    <3>1. g \in 0 .. n - 1 /\ p \in 0 .. n - 1
      BY <1>3
    <3>2. g - p + n \in 1 .. n /\ p + (g - p + n) = g + n
      BY <2>2, <3>1
    <3>3. (g + n) % n = g
      BY <3>1
    <3> QED
      BY <3>2, <3>3
  <2> QED
    BY <2>1, <2>2
<1>5. hits # {}
  BY <1>1, <1>2, <1>3, <1>4
<1>6. hits \subseteq Nat
  OBVIOUS
<1>7. PICK k \in hits : \A j \in hits : k <= j
  <2> HIDE DEF hits
  <2> QED
    BY <1>5, <1>6, LeastElement
<1>8. /\ k \in 1 .. Lanes /\ turn[k] \in FULanes[fu]
      /\ \A j \in 1 .. k - 1 : turn[j] \notin FULanes[fu]
  <2>1. k \in 1 .. n
    BY <1>3, <1>7
  <2>2. ASSUME NEW j \in 1 .. k - 1 PROVE turn[j] \notin FULanes[fu]
    <3>1. j \in 1 .. n /\ ~(k <= j)
      BY <2>1
    <3> QED
      BY <1>3, <1>7, <3>1
  <2> QED
    BY <1>7, <2>2
<1> HIDE DEF turn
<1>9. first \in 1 .. Lanes /\ turn[first] \in FULanes[fu]
  BY <1>8
<1>10. FULanes[fu] \subseteq LaneIDs
  BY IssueQueueAssumption
<1>11. Steered(s, fu) = turn[first]
  BY DEF Steered, turn
<1> QED
  BY <1>9, <1>10, <1>11

(* The Active List with one more instruction.                              *)
Appended(s, a, new, x) ==
  /\ x.al \in Seq(Insn) /\ Distinct(x) /\ TagsOf(x) = TagsOf(s) \cup {a}
  /\ DOMAIN x.al = DOMAIN s.al \cup {Len(s.al) + 1}
  /\ \A k \in DOMAIN s.al : x.al[k] = s.al[k] /\ k < Len(s.al) + 1
  /\ x.al[Len(s.al) + 1] = new
  /\ Position(x, a) = Len(s.al) + 1 /\ InsnOf(x, a) = new
  /\ \A t \in TagsOf(s) : /\ Position(x, t) = Position(s, t) /\ InsnOf(x, t) = InsnOf(s, t)
                          /\ t # a /\ Position(s, t) < Len(s.al) + 1
  /\ \A t : t # a => (Done(x, t) <=> Done(s, t))
  /\ Done(x, a) <=> new.completed

LEMMA AppendedIs ==
  ASSUME NEW s, s.al \in Seq(Insn), Distinct(s), NEW a \in Tags, a \notin TagsOf(s),
         NEW new \in Insn, new.tag = a, NEW x, x.al = Append(s.al, new)
  PROVE  Appended(s, a, new, x)
<1>1. PICK n \in Nat : n = Len(s.al) /\ DOMAIN s.al = 1 .. n
  BY ActiveIs
<1>2. /\ x.al \in Seq(Insn) /\ DOMAIN x.al = 1 .. n + 1 /\ x.al[n + 1] = new
      /\ \A k \in 1 .. n : x.al[k] = s.al[k]
  BY <1>1
<1>3. /\ n + 1 \in 1 .. n + 1 /\ \A k \in 1 .. n + 1 : k \in 1 .. n \/ k = n + 1
      /\ \A k \in 1 .. n : k \in 1 .. n + 1 /\ k < n + 1
  BY <1>1
<1>4. \A k \in 1 .. n : s.al[k].tag \in TagsOf(s) /\ s.al[k].tag # a
  BY <1>1 DEF TagsOf
<1>5. Distinct(x)
  BY <1>1, <1>2, <1>3, <1>4 DEF Distinct
<1>6. TagsOf(x) = TagsOf(s) \cup {a}
  BY <1>1, <1>2, <1>3 DEF TagsOf
<1>7. Position(x, a) = n + 1 /\ InsnOf(x, a) = new
  <2>1. PICK k \in DOMAIN x.al : k = n + 1 /\ x.al[k] = new /\ x.al[k].tag = a
    BY <1>2, <1>3
  <2>2. x.al \in Seq(Insn)
    BY <1>2
  <2>3. Position(x, x.al[k].tag) = k /\ InsnOf(x, x.al[k].tag) = x.al[k]
    BY <1>5, <2>1, <2>2, TagIs
  <2> QED
    BY <2>1, <2>3
<1>8. ASSUME NEW t \in TagsOf(s)
      PROVE  /\ Position(x, t) = Position(s, t) /\ InsnOf(x, t) = InsnOf(s, t)
             /\ t # a /\ Position(s, t) < n + 1
  <2>1. PICK k \in 1 .. n : k = Position(s, t) /\ s.al[k].tag = t /\ InsnOf(s, t) = s.al[k]
    BY <1>1, ActiveIs
  <2>2. k \in DOMAIN x.al /\ x.al[k].tag = t /\ x.al \in Seq(Insn)
    BY <1>2, <1>3, <2>1
  <2>3. Position(x, t) = k /\ InsnOf(x, t) = x.al[k]
    BY <1>5, <2>2, ActiveIs
  <2> QED
    BY <1>2, <1>3, <1>4, <2>1, <2>3
<1>9. \A t : t # a => (Done(x, t) <=> Done(s, t))
  BY <1>1, <1>2, <1>3 DEF Done
<1>10. Done(x, a) <=> new.completed
  BY <1>1, <1>2, <1>3, <1>4 DEF Done
<1> QED
  BY <1>1, <1>2, <1>3, <1>5, <1>6, <1>7, <1>8, <1>9, <1>10 DEF Appended

LEMMA DispatchOK ==
  ASSUME NEW s, CoreOK(s), MayDispatch(s), NEW op \in Ops, NEW srcs \in SUBSET Sources(s),
         NEW a \in FreeTags(s) \ srcs, NEW x, x = Dispatch(s, a, op, srcs)
  PROVE  CoreOK(x)
<1>0. /\ s \in Core /\ s.al \in Seq(Insn) /\ Distinct(s)
      /\ \A i \in Slots : s.iq.q[i].valid => s.iq.q[i].tag \in Tags /\ s.iq.q[i].tag \in TagsOf(s)
      /\ \A l \in LaneIDs : \A d \in Registers(l) :
           At(s, l, d) # None => At(s, l, d) \in Tags /\ At(s, l, d) \in TagsOf(s)
      /\ \A t \in TagsOf(s) : t \in Tags /\ Place(s)[t] = Position(s, t) /\ Place(s)[t] \in Nat
  BY ActiveTypes
<1>1. a \in Tags /\ a \notin TagsOf(s) /\ a \notin srcs /\ \A k \in DOMAIN s.al : a \notin s.al[k].srcs
  BY DEF FreeTags, TagsOf
<1>2. srcs \in SUBSET Tags /\ srcs \subseteq TagsOf(s)
      /\ \A t \in srcs : HasDest(InsnOf(s, t))
  BY <1>0 DEF Sources
<1>3. op.fu \in FUs /\ op.dest \in BOOLEAN
  BY IssueQueueAssumption
<1>4. PICK lane \in LaneIDs : lane = Steered(s, op.fu)
  BY <1>0, <1>3, CoreIs, SteeredIs
<1>5. PICK lanes \in SUBSET LaneIDs : lanes = IF options.presteer THEN {lane} ELSE FULanes[op.fu]
  BY <1>3, IssueQueueAssumption
<1>6. PICK waits \in SUBSET Tags : waits = srcs \ s.ready
  BY <1>2
<1>7. PICK q : q = InsertEntry(s.iq, a, waits, lanes)
  OBVIOUS
<1>8. s.iq \in Queue /\ FreeListOK(s.iq) /\ AgeListOK(s.iq, Place(s)) /\ s.iq.fl_length >= 1
  BY <1>0, CoreIs DEF CoreOK, MayDispatch
<1>9. PICK f \in Slots : q \in Queue /\ f = Free(s.iq, 0) /\ Inserted(s.iq, f, a, waits, lanes, q)
  BY <1>1, <1>7, <1>8, InsertedIs
<1>10. /\ ~s.iq.q[f].valid
       /\ \A j \in Slots : q.q[j].valid <=> (s.iq.q[j].valid \/ j = f)
       /\ \A j \in Slots \ {f} : q.q[j].tag = s.iq.q[j].tag /\ q.q[j].waits = s.iq.q[j].waits
       /\ q.q[f].tag = a /\ q.q[f].waits = waits
  BY <1>9 DEF Inserted
<1>11. PICK ptr \in [FUs -> LaneIDs] :
         ptr = IF options.presteer THEN Put(s.ptr, op.fu, lane) ELSE s.ptr
  <2>1. s.ptr \in [FUs -> LaneIDs]
    BY <1>0, CoreIs
  <2>2. Put(s.ptr, op.fu, lane) \in [FUs -> LaneIDs]
    BY <2>1 DEF Put
  <2> QED
    BY <2>1, <2>2
<1>12. PICK dest : dest = IF op.dest THEN {a} ELSE {}
  OBVIOUS
<1>13. PICK ready_ \in SUBSET Tags : ready_ = s.ready \ dest
  BY <1>0, CoreIs
<1>14. PICK written_ \in SUBSET Tags : written_ = s.written \ dest
  BY <1>0, CoreIs
<1>15. PICK new : new = [tag |-> a, op |-> op, srcs |-> srcs, completed |-> FALSE]
  OBVIOUS
<1>16. /\ new \in Insn /\ new.tag = a /\ new.op = op /\ new.srcs = srcs /\ ~new.completed
  BY <1>1, <1>2, <1>15 DEF Insn
<1>17. PICK al_ \in Seq(Insn) : al_ = Append(s.al, new)
  <2>1. s.al \in Seq(Insn) /\ new \in Insn
    BY <1>0, <1>16
  <2>2. Append(s.al, new) \in Seq(Insn)
    BY <2>1
  <2> QED
    BY <2>2
<1>18. x = [s EXCEPT !.iq = q, !.ptr = ptr, !.ready = ready_, !.written = written_, !.al = al_]
  <2>1. waits = srcs \ ReadyAtDispatch(s, srcs)
    BY <1>6 DEF ReadyAtDispatch
  <2> QED
    BY <1>4, <1>5, <1>7, <1>11, <1>12, <1>13, <1>14, <1>15, <1>17, <2>1 DEF Dispatch
<1>19. /\ x \in Core /\ x.iq = q /\ x.rr = s.rr /\ x.ex = s.ex /\ x.wb = s.wb /\ x.ready = ready_
       /\ x.written = written_ /\ x.stalled = s.stalled /\ x.al = al_
  BY <1>0, <1>9, <1>18 DEF Core
<1>20. Appended(s, a, new, x)
  BY <1>0, <1>1, <1>16, <1>17, <1>19, AppendedIs
<1>21. \A m, c : At(x, m, c) = At(s, m, c)
  BY <1>19 DEF At
<1>22. ASSUME NEW t \in Tags \ {a} PROVE OnePlace(x, t) /\ Wakes(x, t)
  <2>1. \A j \in Slots : InSlot(x, j, t) <=> InSlot(s, j, t)
    BY <1>10, <1>19 DEF InSlot
  <2>2. SamePlaces(s, x, t)
    BY <1>19, <1>20, <1>21, <2>1 DEF SamePlaces, Appended
  <2>3. t \in TagsOf(s) => InsnOf(x, t).op = InsnOf(s, t).op
    BY <1>20 DEF Appended
  <2>4. /\ t \in x.ready <=> t \in s.ready
        /\ t \in x.written <=> t \in s.written
    BY <1>12, <1>13, <1>14, <1>19
  <2>5. OnePlace(s, t) /\ Wakes(s, t)
    BY DEF CoreOK
  <2> QED
    BY <2>2, <2>3, <2>4, <2>5, SameOnePlace, SameWakes
<1>23. ~InQueue(s, a) /\ ~InLane(s, a) /\ a \notin s.stalled
  <2>1. OnePlace(s, a)
    BY <1>1 DEF CoreOK
  <2> QED
    BY <1>1, <2>1 DEF OnePlace
<1>24. OnePlace(x, a) /\ InQueue(x, a)
  <2>1. \A j \in Slots : InSlot(x, j, a) <=> j = f
    BY <1>10, <1>19, <1>23 DEF InSlot, InQueue
  <2>2. InQueue(x, a)
    BY <2>1 DEF InQueue
  <2>3. ~InLane(x, a) /\ \A l \in LaneIDs : \A d \in Registers(l) : At(x, l, d) # a
    BY <1>21, <1>23 DEF InLane
  <2>4. a \in TagsOf(x) /\ ~Done(x, a) /\ a \notin x.stalled
    BY <1>16, <1>19, <1>20, <1>23 DEF Appended
  <2> QED
    BY <2>1, <2>2, <2>3, <2>4 DEF OnePlace
<1>25. Wakes(x, a)
  <2>1. InsnOf(x, a).op = op
    BY <1>16, <1>20 DEF Appended
  <2>2. op.dest => a \notin x.ready
    BY <1>12, <1>13, <1>19
  <2>3. \A load : Asleep(x, a, load)
    BY <1>24 DEF Asleep
  <2> QED
    BY <2>1, <2>2, <2>3 DEF Wakes, HasDest
<1>26. FreeListOK(q)
  BY <1>8, <1>9, InsertedFreeList
<1>27. AgeListOK(q, Place(x))
  <2>1. PICK n \in Nat : n = Len(s.al) + 1
    BY <1>0
  <2>2. \A t \in TagsOf(s) : Place(x)[t] = Place(s)[t] /\ Place(x)[t] \in Nat /\ Place(x)[t] < n
    BY <1>0, <1>20, <2>1 DEF Appended, Place
  <2>3. Place(x)[a] = n
    BY <1>1, <1>20, <2>1 DEF Appended, Place
  <2>4. AgeListOK(s.iq, Place(x))
    <3>1. \A i, j \in Slots : Valid(s.iq, i) /\ Valid(s.iq, j) =>
            (Comes(s.iq, Place(x), i, j) <=> Comes(s.iq, Place(s), i, j))
      BY <1>0, <2>2 DEF Valid, Comes
    <3> QED
      BY <1>8, <3>1, AgeListSame
  <2>5. \A j \in Slots : s.iq.q[j].valid =>
          Place(x)[s.iq.q[j].tag] \in Nat /\ Place(x)[s.iq.q[j].tag] < Place(x)[a]
    BY <1>0, <2>2, <2>3
  <2> QED
    BY <1>8, <1>9, <2>3, <2>4, <2>5, InsertedAgeList
<1>28. \A i \in Slots : x.iq.q[i].valid => x.iq.q[i].tag \in Tags
  BY <1>0, <1>1, <1>10, <1>19
<1>29. ASSUME NEW t \in TagsOf(s) PROVE a \notin InsnOf(s, t).srcs
  BY <1>0, <1>1, ActiveIs
<1>30. ActiveListOK(x)
  <2>1. ASSUME NEW k \in DOMAIN x.al, NEW t \in x.al[k].srcs
        PROVE  IF t \in TagsOf(x) THEN Position(x, t) < k /\ HasDest(InsnOf(x, t))
                                  ELSE t \in x.ready /\ t \in x.written
    <3>1. CASE k \in DOMAIN s.al
      <4>1. t \in s.al[k].srcs /\ t # a
        BY <1>1, <1>20, <3>1 DEF Appended
      <4>2. IF t \in TagsOf(s) THEN Position(s, t) < k /\ HasDest(InsnOf(s, t))
                               ELSE t \in s.ready /\ t \in s.written
        BY <3>1, <4>1 DEF CoreOK, ActiveListOK
      <4>3. t \in TagsOf(x) <=> t \in TagsOf(s)
        BY <1>20, <4>1 DEF Appended
      <4>4. t \in TagsOf(s) => Position(x, t) = Position(s, t) /\ InsnOf(x, t) = InsnOf(s, t)
        BY <1>20 DEF Appended
      <4>5. (t \in s.ready => t \in x.ready) /\ (t \in s.written => t \in x.written)
        BY <1>12, <1>13, <1>14, <1>19, <4>1
      <4> QED
        BY <4>2, <4>3, <4>4, <4>5
    <3>2. CASE k \notin DOMAIN s.al
      <4>1. k = Len(s.al) + 1 /\ t \in srcs
        BY <1>16, <1>20, <3>2 DEF Appended
      <4> QED
        BY <1>2, <1>20, <4>1 DEF Appended
    <3> QED
      BY <3>1, <3>2
  <2>2. Distinct(x)
    BY <1>20 DEF Appended
  <2> QED
    BY <2>1, <2>2 DEF ActiveListOK, Distinct
<1>31. Consumers(x)
  <2>1. Consumers(s)
    BY DEF CoreOK
  <2>2. ASSUME NEW j \in Slots, x.iq.q[j].valid
        PROVE  x.iq.q[j].waits = InsnOf(x, x.iq.q[j].tag).srcs \ x.ready
    <3>1. CASE j = f
      <4>1. x.iq.q[j].tag = a /\ x.iq.q[j].waits = srcs \ s.ready /\ InsnOf(x, a).srcs = srcs
        BY <1>6, <1>10, <1>16, <1>19, <1>20, <3>1 DEF Appended
      <4> QED
        BY <1>1, <1>12, <1>13, <1>19, <4>1
    <3>2. CASE j # f
      <4>1. PICK t \in TagsOf(s) : t = s.iq.q[j].tag /\ x.iq.q[j].tag = t /\ s.iq.q[j].valid
        BY <1>0, <1>10, <1>19, <2>2, <3>2
      <4>2. x.iq.q[j].waits = InsnOf(s, t).srcs \ s.ready
        BY <1>10, <1>19, <2>1, <3>2, <4>1 DEF Consumers
      <4>3. InsnOf(x, t) = InsnOf(s, t)
        BY <1>20 DEF Appended
      <4> QED
        BY <1>12, <1>13, <1>19, <1>29, <4>1, <4>2, <4>3
    <3> QED
      BY <3>1, <3>2
  <2>3. ASSUME NEW l \in LaneIDs, x.rr[l] # None
        PROVE  InsnOf(x, x.rr[l]).srcs \subseteq x.ready
    <3>1. At(s, l, 1) = s.rr[l] /\ 1 \in Registers(l)
      BY <1>0, AtIs, Sizes DEF Registers
    <3>2. PICK t \in TagsOf(s) : t = s.rr[l] /\ x.rr[l] = t
      BY <1>0, <1>19, <2>3, <3>1
    <3>3. InsnOf(s, t).srcs \subseteq s.ready
      BY <1>19, <2>1, <2>3, <3>2 DEF Consumers
    <3>4. InsnOf(x, t) = InsnOf(s, t)
      BY <1>20 DEF Appended
    <3> QED
      BY <1>12, <1>13, <1>19, <1>29, <3>2, <3>3, <3>4
  <2> QED
    BY <2>2, <2>3 DEF Consumers
<1> QED
  BY <1>19, <1>22, <1>24, <1>25, <1>26, <1>27, <1>28, <1>30, <1>31 DEF CoreOK

-----------------------------------------------------------------------------
(* Retirement, the full squash and the initial state.                      *)

(* The Active List without its head a.                                     *)
Tailed(s, a, x) ==
  /\ x.al \in Seq(Insn) /\ Distinct(x) /\ TagsOf(x) = TagsOf(s) \ {a}
  /\ \A k \in DOMAIN x.al : k \in Nat /\ k + 1 \in DOMAIN s.al /\ x.al[k] = s.al[k + 1]
  /\ \A t \in TagsOf(x) : /\ Position(x, t) = Position(s, t) - 1 /\ Position(s, t) \in Nat
                          /\ InsnOf(x, t) = InsnOf(s, t)
  /\ \A t : Done(x, t) <=> (Done(s, t) /\ t # a)

LEMMA TailIs ==
  ASSUME NEW s, s.al \in Seq(Insn), Distinct(s), s.al # <<>>, NEW a, a = s.al[1].tag,
         NEW x, x.al = Tail(s.al)
  PROVE  Tailed(s, a, x)
<1>1. PICK n \in Nat : n = Len(s.al) /\ DOMAIN s.al = 1 .. n /\ n >= 1
  BY ActiveIs
<1>2. /\ x.al \in Seq(Insn) /\ DOMAIN x.al = 1 .. n - 1
      /\ \A k \in 1 .. n - 1 : x.al[k] = s.al[k + 1]
  BY <1>1
<1>3. /\ \A k \in 1 .. n - 1 : k \in Nat /\ k + 1 \in 1 .. n /\ k + 1 # 1
      /\ \A k \in 1 .. n : k = 1 \/ (k - 1 \in 1 .. n - 1 /\ (k - 1) + 1 = k)
      /\ 1 \in 1 .. n
  BY <1>1
<1>4. \A k \in 1 .. n : s.al[k].tag = a <=> k = 1
  BY <1>1, <1>3 DEF Distinct
<1>5. Distinct(x)
  <2>1. ASSUME NEW j \in DOMAIN x.al, NEW k \in DOMAIN x.al, x.al[j].tag = x.al[k].tag
        PROVE  j = k
    <3>1. /\ j + 1 \in DOMAIN s.al /\ k + 1 \in DOMAIN s.al
          /\ x.al[j] = s.al[j + 1] /\ x.al[k] = s.al[k + 1]
          /\ j \in Nat /\ k \in Nat
      BY <1>1, <1>2, <1>3
    <3>2. j + 1 = k + 1
      BY <2>1, <3>1 DEF Distinct
    <3> QED
      BY <3>1, <3>2
  <2> QED
    BY <2>1 DEF Distinct
<1>6. TagsOf(x) = TagsOf(s) \ {a}
  <2>1. ASSUME NEW t \in TagsOf(x) PROVE t \in TagsOf(s) \ {a}
    BY <1>1, <1>2, <1>3, <1>4 DEF TagsOf
  <2>2. ASSUME NEW t \in TagsOf(s) \ {a} PROVE t \in TagsOf(x)
    <3>1. PICK k \in 1 .. n : s.al[k].tag = t
      BY <1>1 DEF TagsOf
    <3>2. k # 1
      BY <1>4, <3>1
    <3>3. k - 1 \in 1 .. n - 1 /\ (k - 1) + 1 = k
      BY <1>3, <3>2
    <3>4. x.al[k - 1] = s.al[k]
      BY <1>2, <3>3
    <3> QED
      BY <1>2, <3>1, <3>3, <3>4 DEF TagsOf
  <2> QED
    BY <2>1, <2>2
<1>7. ASSUME NEW t \in TagsOf(x)
      PROVE  /\ Position(x, t) = Position(s, t) - 1 /\ Position(s, t) \in Nat
             /\ InsnOf(x, t) = InsnOf(s, t)
  <2>1. PICK k \in 1 .. n - 1 : x.al[k].tag = t
    BY <1>2 DEF TagsOf
  <2>2. Position(x, t) = k /\ InsnOf(x, t) = x.al[k]
    <3>1. k \in DOMAIN x.al /\ x.al[k].tag = t /\ x.al \in Seq(Insn)
      BY <1>2, <2>1
    <3> HIDE DEF TagsOf
    <3> QED
      BY <1>5, <3>1, ActiveIs
  <2>3. k + 1 \in DOMAIN s.al /\ s.al[k + 1].tag = t
    BY <1>1, <1>2, <1>3, <2>1
  <2>4. Position(s, t) = k + 1 /\ InsnOf(s, t) = s.al[k + 1]
    BY <2>3, ActiveIs
  <2> QED
    BY <1>2, <2>2, <2>4
<1>8. ASSUME NEW t PROVE Done(x, t) <=> (Done(s, t) /\ t # a)
  <2>1. ASSUME Done(x, t) PROVE Done(s, t) /\ t # a
    BY <1>1, <1>2, <1>3, <1>4, <2>1 DEF Done
  <2>2. ASSUME Done(s, t), t # a PROVE Done(x, t)
    <3>1. PICK k \in 1 .. n : s.al[k].tag = t /\ s.al[k].completed
      BY <1>1, <2>2 DEF Done
    <3>2. k # 1
      BY <1>4, <2>2, <3>1
    <3>3. k - 1 \in 1 .. n - 1 /\ (k - 1) + 1 = k
      BY <1>3, <3>2
    <3>4. x.al[k - 1] = s.al[k]
      BY <1>2, <3>3
    <3> QED
      BY <1>2, <3>1, <3>3, <3>4 DEF Done
  <2> QED
    BY <2>1, <2>2
<1>9. \A k \in DOMAIN x.al : k \in Nat /\ k + 1 \in DOMAIN s.al /\ x.al[k] = s.al[k + 1]
  BY <1>1, <1>2, <1>3
<1> QED
  BY <1>2, <1>5, <1>6, <1>7, <1>8, <1>9 DEF Tailed

LEMMA RetireOK ==
  ASSUME NEW s, CoreOK(s), s.al # <<>>, s.al[1].completed, NEW x, x = [s EXCEPT !.al = Tail(@)]
  PROVE  CoreOK(x)
<1>0. /\ s \in Core /\ s.al \in Seq(Insn) /\ Distinct(s)
      /\ \A i \in Slots : s.iq.q[i].valid => s.iq.q[i].tag \in Tags /\ s.iq.q[i].tag \in TagsOf(s)
      /\ \A l \in LaneIDs : \A d \in Registers(l) :
           At(s, l, d) # None => At(s, l, d) \in Tags /\ At(s, l, d) \in TagsOf(s)
      /\ \A t \in TagsOf(s) : t \in Tags /\ Place(s)[t] = Position(s, t) /\ Place(s)[t] \in Nat
  BY ActiveTypes
<1>1. 1 \in DOMAIN s.al
  BY <1>0, ActiveIs
<1>2. PICK a \in Tags : a = s.al[1].tag /\ a \in TagsOf(s) /\ Done(s, a)
  BY <1>0, <1>1, ActiveIs DEF Done
<1>3. ~InQueue(s, a) /\ ~InLane(s, a) /\ a \notin s.stalled
  <2>1. OnePlace(s, a)
    BY DEF CoreOK
  <2> QED
    BY <1>2, <2>1 DEF OnePlace
<1>4. PICK al_ : al_ = Tail(s.al)
  OBVIOUS
<1>5. al_ \in Seq(Insn)
  BY <1>0, <1>4
<1>6. /\ x \in Core /\ x.iq = s.iq /\ x.rr = s.rr /\ x.ex = s.ex /\ x.wb = s.wb /\ x.ready = s.ready
      /\ x.written = s.written /\ x.stalled = s.stalled /\ x.al = al_
  <2>1. x = [s EXCEPT !.al = al_]
    BY <1>4
  <2> QED
    BY <1>0, <1>5, <2>1 DEF Core
<1>7. /\ Distinct(x) /\ TagsOf(x) = TagsOf(s) \ {a}
      /\ \A k \in DOMAIN x.al : k \in Nat /\ k + 1 \in DOMAIN s.al /\ x.al[k] = s.al[k + 1]
      /\ \A t \in TagsOf(x) : /\ Position(x, t) = Position(s, t) - 1 /\ Position(s, t) \in Nat
                              /\ InsnOf(x, t) = InsnOf(s, t)
      /\ \A t : Done(x, t) <=> (Done(s, t) /\ t # a)
  <2>1. x.al = Tail(s.al) /\ a = s.al[1].tag
    BY <1>2, <1>4, <1>6
  <2>2. Tailed(s, a, x)
    BY <1>0, <2>1, TailIs
  <2> QED
    BY <2>2 DEF Tailed
<1>8. \A m, c : At(x, m, c) = At(s, m, c)
  BY <1>6 DEF At
<1>9. ASSUME NEW t \in Tags \ {a} PROVE OnePlace(x, t) /\ Wakes(x, t)
  <2>1. SamePlaces(s, x, t)
    BY <1>6, <1>7, <1>8 DEF SamePlaces, InSlot
  <2>2. OnePlace(s, t) /\ Wakes(s, t) /\ (t \in TagsOf(s) => InsnOf(x, t).op = InsnOf(s, t).op)
    BY <1>7 DEF CoreOK
  <2> QED
    BY <1>6, <2>1, <2>2, SameOnePlace, SameWakes
<1>10. OnePlace(x, a) /\ Wakes(x, a)
  <2>1. /\ \A i \in Slots : ~InSlot(x, i, a)
        /\ \A l \in LaneIDs : \A d \in Registers(l) : At(x, l, d) # a
    BY <1>3, <1>6, <1>8 DEF InQueue, InSlot, InLane
  <2>2. a \notin TagsOf(x) /\ ~Done(x, a) /\ a \notin x.stalled
    BY <1>3, <1>6, <1>7
  <2> QED
    BY <2>1, <2>2 DEF OnePlace, Wakes, InQueue, InLane
<1>11. \A i \in Slots : s.iq.q[i].valid => s.iq.q[i].tag # a
  BY <1>3 DEF InQueue, InSlot
<1>12. \A l \in LaneIDs : s.rr[l] # None => s.rr[l] \in TagsOf(x)
  <2> TAKE l \in LaneIDs
  <2> HAVE s.rr[l] # None
  <2>1. At(s, l, 1) = s.rr[l] /\ 1 \in Registers(l)
    BY <1>0, AtIs, Sizes DEF Registers
  <2>2. s.rr[l] \in TagsOf(s) /\ s.rr[l] # a
    BY <1>0, <1>3, <2>1 DEF InLane
  <2> QED
    BY <1>7, <2>2
<1>13. AgeListOK(x.iq, Place(x))
  <2>1. ASSUME NEW i \in Slots, s.iq.q[i].valid
        PROVE  /\ Place(x)[s.iq.q[i].tag] = Place(s)[s.iq.q[i].tag] - 1
               /\ Place(s)[s.iq.q[i].tag] \in Nat
    <3>1. PICK t \in Tags : t = s.iq.q[i].tag /\ t \in TagsOf(s) /\ t # a
      BY <1>0, <1>11, <2>1
    <3> QED
      BY <1>0, <1>7, <3>1 DEF Place
  <2>2. \A i, j \in Slots : Valid(s.iq, i) /\ Valid(s.iq, j) =>
          (Comes(s.iq, Place(x), i, j) <=> Comes(s.iq, Place(s), i, j))
    <3> TAKE i, j \in Slots
    <3> HAVE Valid(s.iq, i) /\ Valid(s.iq, j)
    <3>1. PICK m \in Nat : m = Place(s)[s.iq.q[i].tag] /\ Place(x)[s.iq.q[i].tag] = m - 1
      BY <2>1 DEF Valid
    <3>2. PICK n \in Nat : n = Place(s)[s.iq.q[j].tag] /\ Place(x)[s.iq.q[j].tag] = n - 1
      BY <2>1 DEF Valid
    <3>3. m - 1 < n - 1 <=> m < n
      OBVIOUS
    <3> QED
      BY <3>1, <3>2, <3>3 DEF Comes
  <2>3. AgeListOK(s.iq, Place(s))
    BY DEF CoreOK
  <2>4. PICK q : q = s.iq
    OBVIOUS
  <2>5. PICK R, T : R = Place(s) /\ T = Place(x)
    OBVIOUS
  <2>6. AgeListOK(q, T)
    <3>1. AgeListOK(q, R) /\ \A i, j \in Slots : Valid(q, i) /\ Valid(q, j) =>
                                  (Comes(q, T, i, j) <=> Comes(q, R, i, j))
      BY <2>2, <2>3, <2>4, <2>5
    <3> QED
      BY <3>1, AgeListSame
  <2> QED
    BY <1>6, <2>4, <2>5, <2>6
<1>14. ActiveListOK(x)
  <2>1. ASSUME NEW k \in DOMAIN x.al, NEW t \in x.al[k].srcs
        PROVE  IF t \in TagsOf(x) THEN Position(x, t) < k /\ HasDest(InsnOf(x, t))
                                  ELSE t \in x.ready /\ t \in x.written
    <3>1. k \in Nat /\ k + 1 \in DOMAIN s.al /\ t \in s.al[k + 1].srcs
      BY <1>7
    <3>2. IF t \in TagsOf(s) THEN Position(s, t) < k + 1 /\ HasDest(InsnOf(s, t))
                             ELSE t \in s.ready /\ t \in s.written
      BY <3>1 DEF CoreOK, ActiveListOK
    <3>3. CASE t \in TagsOf(x)
      <4>1. Position(x, t) = Position(s, t) - 1 /\ Position(s, t) \in Nat /\ InsnOf(x, t) = InsnOf(s, t)
        BY <1>7, <3>3
      <4>2. t \in TagsOf(s)
        BY <1>7, <3>3
      <4> QED
        BY <3>1, <3>2, <3>3, <4>1, <4>2
    <3>4. CASE t = a
      <4>1. HasDest(InsnOf(s, a)) /\ Wakes(s, a)
        BY <1>2, <3>2, <3>4 DEF CoreOK
      <4>2. \A load : ~Asleep(s, a, load) /\ (InTime(s, a, load) => a \in s.written)
        <5>1. \A l \in LaneIDs : \A d \in 1 .. Depth[l] + 1 : d \in Registers(l)
          BY Sizes DEF Registers
        <5>2. \A l \in LaneIDs : Depth[l] + 1 \in Registers(l)
          BY Sizes DEF Registers
        <5> QED
          BY <1>3, <5>1, <5>2 DEF Asleep, InTime, InLane
      <4>3. a \in s.ready /\ a \in s.written
        BY <1>2, <4>1, <4>2 DEF Wakes
      <4> QED
        BY <1>6, <1>7, <3>4, <4>3
    <3>5. CASE t \notin TagsOf(x) /\ t # a
      BY <1>6, <1>7, <3>2, <3>5
    <3> QED
      BY <3>3, <3>4, <3>5
  <2> QED
    BY <1>7, <2>1 DEF ActiveListOK, Distinct
<1>15. Consumers(x)
  <2>1. Consumers(s)
    BY DEF CoreOK
  <2>2. \A i \in Slots : x.iq.q[i].valid =>
          x.iq.q[i].waits = InsnOf(x, x.iq.q[i].tag).srcs \ x.ready
    <3> TAKE i \in Slots
    <3> HAVE x.iq.q[i].valid
    <3>1. PICK t \in TagsOf(x) : t = s.iq.q[i].tag /\ x.iq.q[i].tag = t
      BY <1>0, <1>6, <1>7, <1>11
    <3>2. InsnOf(x, t) = InsnOf(s, t)
      BY <1>7
    <3> QED
      BY <1>6, <2>1, <3>1, <3>2 DEF Consumers
  <2>3. \A l \in LaneIDs : x.rr[l] # None => InsnOf(x, x.rr[l]).srcs \subseteq x.ready
    <3> TAKE l \in LaneIDs
    <3> HAVE x.rr[l] # None
    <3>1. PICK t \in TagsOf(x) : t = s.rr[l] /\ x.rr[l] = t /\ s.rr[l] # None
      BY <1>6, <1>12
    <3>2. InsnOf(x, t) = InsnOf(s, t)
      BY <1>7
    <3>3. InsnOf(s, t).srcs \subseteq s.ready
      BY <2>1, <3>1 DEF Consumers
    <3> QED
      BY <1>6, <3>1, <3>2, <3>3
  <2> QED
    BY <2>2, <2>3 DEF Consumers
<1> QED
  BY <1>0, <1>6, <1>9, <1>10, <1>13, <1>14, <1>15 DEF CoreOK

LEMMA EmptyOK ==
  ASSUME NEW x, NEW n \in Slots, x.iq = [EmptyIQ EXCEPT !.part_next = n],
         x.rr = [l \in LaneIDs |-> None], x.wb = [l \in LaneIDs |-> None],
         x.ex = [l \in LaneIDs |-> [d \in 1 .. Depth[l] |-> None]],
         x.stalled = {}, x.al = <<>>,
         x.ready \in SUBSET Tags, x.written \in SUBSET Tags, x.ptr \in [FUs -> LaneIDs],
         x = [iq |-> x.iq, rr |-> x.rr, ex |-> x.ex, wb |-> x.wb, ready |-> x.ready,
              written |-> x.written, stalled |-> x.stalled, al |-> x.al, ptr |-> x.ptr]
  PROVE  CoreOK(x)
<1>1. /\ x.iq \in Queue /\ FreeListOK(x.iq) /\ \A R : AgeListOK(x.iq, R)
      /\ \A i \in Slots : ~x.iq.q[i].valid
  BY EmptyQueueOK
<1>2. x.ex \in Stages
  <2>1. ASSUME NEW l \in LaneIDs
        PROVE  x.ex[l] \in [1 .. Depth[l] -> NoTag] /\ x.ex[l] \in Seq(NoTag)
    <3>1. PICK n_ \in Nat : n_ = Depth[l]
      BY Sizes
    <3>2. PICK g : g = [d \in 1 .. n_ |-> None]
      OBVIOUS
    <3>3. g \in [1 .. n_ -> NoTag]
      BY <3>2 DEF NoTag
    <3>4. g \in Seq(NoTag)
      BY <3>3
    <3> QED
      BY <3>1, <3>2, <3>3, <3>4
  <2>2. x.ex \in [LaneIDs -> Seq(NoTag)]
    BY <2>1
  <2> QED
    BY <2>1, <2>2 DEF Stages
<1>3. x.rr \in [LaneIDs -> NoTag] /\ x.wb \in [LaneIDs -> NoTag] /\ x.al \in Seq(Insn)
      /\ x.stalled \in SUBSET Tags
  BY DEF NoTag
<1>4. x \in Core
  BY <1>1, <1>2, <1>3 DEF Core
<1>5. \A l \in LaneIDs : \A d \in Registers(l) : At(x, l, d) = None
  <2>1. ASSUME NEW l \in LaneIDs, NEW d \in Registers(l) PROVE At(x, l, d) = None
    <3>1. d = 1 \/ d = Depth[l] + 2 \/ (d - 1 \in 1 .. Depth[l] /\ At(x, l, d) = x.ex[l][d - 1])
      BY <1>4, AtIs, ZenonT(60)
    <3>2. d = 1 => At(x, l, d) = None
      BY DEF At
    <3>3. d = Depth[l] + 2 => At(x, l, d) = None
      BY Sizes DEF At
    <3> QED
      BY <3>1, <3>2, <3>3
  <2> QED
    BY <2>1
<1>6. DOMAIN x.al = {} /\ TagsOf(x) = {}
  BY DEF TagsOf
<1>7. ASSUME NEW t \in Tags PROVE OnePlace(x, t) /\ Wakes(x, t)
  <2>1. t # None
    BY Sizes
  <2>2. \A i \in Slots : ~InSlot(x, i, t)
    BY <1>1 DEF InSlot
  <2>3. \A l \in LaneIDs : \A d \in Registers(l) : At(x, l, d) # t
    BY <1>5, <2>1
  <2> QED
    BY <1>6, <2>2, <2>3 DEF OnePlace, Wakes, InQueue, InLane, Done
<1>8. ActiveListOK(x)
  BY <1>6 DEF ActiveListOK
<1>9. Consumers(x)
  BY <1>1 DEF Consumers
<1> QED
  BY <1>1, <1>4, <1>7, <1>8, <1>9 DEF CoreOK


-----------------------------------------------------------------------------
(* The invariant of the specification.                                     *)

IQInvariant == CoreOK(core)

LEMMA InitOK ==
  ASSUME Init
  PROVE  IQInvariant
<1>1. PICK x : x = core
  OBVIOUS
<1>2. /\ x.iq = iq /\ x.rr = rr /\ x.wb = wb /\ x.ex = ex /\ x.ready = ready
      /\ x.written = written /\ x.stalled = stalled /\ x.al = al /\ x.ptr = fu_lane_ptr
      /\ x = [iq |-> x.iq, rr |-> x.rr, ex |-> x.ex, wb |-> x.wb, ready |-> x.ready,
              written |-> x.written, stalled |-> x.stalled, al |-> x.al, ptr |-> x.ptr]
  BY <1>1 DEF core
<1>3. 0 \in Slots /\ 0 \in LaneIDs
  BY Sizes DEF Slots, LaneIDs
<1>4. EmptyIQ = [EmptyIQ EXCEPT !.part_next = 0]
  BY DEF EmptyIQ
<1>5. /\ x.iq = [EmptyIQ EXCEPT !.part_next = 0]
      /\ x.rr = [l \in LaneIDs |-> None] /\ x.wb = [l \in LaneIDs |-> None]
      /\ x.ex = [l \in LaneIDs |-> [d \in 1 .. Depth[l] |-> None]]
      /\ x.stalled = {} /\ x.al = <<>>
      /\ x.ready \in SUBSET Tags /\ x.written \in SUBSET Tags
      /\ x.ptr = [fu \in FUs |-> 0]
  BY <1>2, <1>4 DEF Init
<1>6. x.ptr \in [FUs -> LaneIDs]
  BY <1>3, <1>5
<1>7. CoreOK(x)
  BY <1>2, <1>3, <1>5, <1>6, EmptyOK
<1> QED
  BY <1>1, <1>7 DEF IQInvariant

LEMMA BecomesIs ==
  ASSUME NEW s \in Core, Becomes(s)
  PROVE  core' = s
<1>1. s = [iq |-> s.iq, rr |-> s.rr, ex |-> s.ex, wb |-> s.wb, ready |-> s.ready,
           written |-> s.written, stalled |-> s.stalled, al |-> s.al, ptr |-> s.ptr]
  BY DEF Core
<1>2. /\ iq' = s.iq /\ rr' = s.rr /\ ex' = s.ex /\ wb' = s.wb
      /\ ready' = s.ready /\ written' = s.written /\ stalled' = s.stalled
      /\ al' = s.al /\ fu_lane_ptr' = s.ptr
  BY DEF Becomes
<1>3. core' = [iq |-> iq', rr |-> rr', ex |-> ex', wb |-> wb', ready |-> ready',
               written |-> written', stalled |-> stalled', al |-> al', ptr |-> fu_lane_ptr']
  BY DEF core
<1> QED
  BY <1>1, <1>2, <1>3

LEMMA CycleWithOK ==
  ASSUME IQInvariant, NEW mispredicted, NEW replay, NEW hits,
         NEW x, x = CycleWith(mispredicted, replay, hits)
  PROVE  CoreOK(x)
<1>1. PICK s : s = core
  OBVIOUS
<1>2. PICK s1 : s1 = WritebackStage(mispredicted, s)
  OBVIOUS
<1>3. PICK s2 : s2 = LoadReplay(s1, replay)
  OBVIOUS
<1>4. PICK s3 : s3 = ExecuteStage(hits, s2)
  OBVIOUS
<1>5. PICK s4 : s4 = RegisterReadStage(s3)
  OBVIOUS
<1>6. x = Schedule(s4)
  BY <1>1, <1>2, <1>3, <1>4, <1>5 DEF CycleWith
<1>7. CoreOK(s1) /\ WrittenBack(s1, Lanes)
  <2>1. CoreOK(s)
    BY <1>1 DEF IQInvariant
  <2> QED
    BY <1>2, <2>1, WritebackStageOK
<1>8. CoreOK(s2) /\ \A m \in LaneIDs : \A c \in Registers(m) : At(s2, m, c) = At(s1, m, c)
  BY <1>3, <1>7, LoadReplayOK
<1>9. WrittenBack(s2, Lanes)
  <2>1. \A m \in LaneIDs : Depth[m] + 2 \in Registers(m)
    BY Sizes DEF Registers
  <2> QED
    BY <1>7, <1>8, <2>1 DEF WrittenBack
<1>10. CoreOK(s3) /\ ReadFrom(s3, 0)
  BY <1>4, <1>8, <1>9, ExecuteStageOK
<1>11. CoreOK(s4)
  BY <1>5, <1>10, RegisterReadStageOK
<1> QED
  BY <1>6, <1>11, ScheduleOK

LEMMA CycleOK ==
  ASSUME IQInvariant, NEW replay, Cycle(replay)
  PROVE  IQInvariant'
<1>1. PICK mispredicted, hits :
        LET s == CycleWith(mispredicted, replay, hits)
        IN \/ Becomes(s)
           \/ /\ MayDispatch(s)
              /\ \E op \in Ops, srcs \in SUBSET Sources(s) :
                   LET tag == CHOOSE t \in FreeTags(s) \ srcs :
                                \A u \in FreeTags(s) \ srcs : t <= u
                   IN /\ Cardinality(srcs) <= MaxSources
                      /\ FreeTags(s) \ srcs # {}
                      /\ Becomes(Dispatch(s, tag, op, srcs))
  BY DEF Cycle
<1>2. PICK s : s = CycleWith(mispredicted, replay, hits)
  OBVIOUS
<1>3. CoreOK(s)
  BY <1>2, CycleWithOK
<1>4. CASE Becomes(s)
  <2>1. s \in Core
    BY <1>3 DEF CoreOK
  <2>2. core' = s
    BY <1>4, <2>1, BecomesIs
  <2> QED
    BY <1>3, <2>2 DEF IQInvariant
<1>5. CASE ~Becomes(s)
  <2>1. MayDispatch(s)
    BY <1>1, <1>2, <1>5
  <2>2. PICK op \in Ops, srcs \in SUBSET Sources(s) :
          /\ FreeTags(s) \ srcs # {}
          /\ Becomes(Dispatch(s, CHOOSE t \in FreeTags(s) \ srcs :
                                   \A u \in FreeTags(s) \ srcs : t <= u, op, srcs))
    BY <1>1, <1>2, <1>5
  <2>3. FreeTags(s) \ srcs \subseteq Nat
    BY Sizes DEF FreeTags
  <2>4. PICK a \in FreeTags(s) \ srcs :
          a = CHOOSE t \in FreeTags(s) \ srcs : \A u \in FreeTags(s) \ srcs : t <= u
    <3>1. \E t \in FreeTags(s) \ srcs : \A u \in FreeTags(s) \ srcs : t <= u
      BY <2>2, <2>3, LeastElement
    <3> QED
      BY <3>1
  <2>5. PICK x : x = Dispatch(s, a, op, srcs)
    OBVIOUS
  <2>6. CoreOK(x)
    BY <1>3, <2>1, <2>5, DispatchOK
  <2>7. Becomes(x)
    BY <2>2, <2>4, <2>5
  <2>8. x \in Core
    BY <2>6 DEF CoreOK
  <2>9. core' = x
    BY <2>7, <2>8, BecomesIs
  <2> QED
    BY <2>6, <2>9 DEF IQInvariant
<1> QED
  BY <1>4, <1>5

LEMMA RetireStepOK ==
  ASSUME IQInvariant, Retire
  PROVE  IQInvariant'
<1>1. PICK s : s = core
  OBVIOUS
<1>2. PICK x : x = core'
  OBVIOUS
<1>3. CoreOK(s)
  BY <1>1 DEF IQInvariant
<1>4. s.al # <<>> /\ s.al[1].completed
  BY <1>1 DEF Retire, core
<1>5. x = [s EXCEPT !.al = Tail(@)]
  <2>1. s = [iq |-> iq, rr |-> rr, ex |-> ex, wb |-> wb, ready |-> ready,
             written |-> written, stalled |-> stalled, al |-> al, ptr |-> fu_lane_ptr]
    BY <1>1 DEF core
  <2>2. x = [iq |-> iq, rr |-> rr, ex |-> ex, wb |-> wb, ready |-> ready,
             written |-> written, stalled |-> stalled, al |-> Tail(al), ptr |-> fu_lane_ptr]
    BY <1>2 DEF Retire, core
  <2>3. PICK f : f = Tail(al)
    OBVIOUS
  <2>4. x = [s EXCEPT !.al = f]
    <3>1. PICK y : y = [s EXCEPT !.al = f]
      OBVIOUS
    <3>2. y = [iq |-> iq, rr |-> rr, ex |-> ex, wb |-> wb, ready |-> ready,
               written |-> written, stalled |-> stalled, al |-> f, ptr |-> fu_lane_ptr]
      BY <2>1, <3>1
    <3> QED
      BY <2>2, <2>3, <3>1, <3>2
  <2>5. s.al = al
    BY <2>1
  <2> QED
    BY <2>3, <2>4, <2>5
<1>6. CoreOK(x)
  BY <1>3, <1>4, <1>5, RetireOK
<1> QED
  BY <1>2, <1>6 DEF IQInvariant

LEMMA SquashStepOK ==
  ASSUME IQInvariant, SquashComplete
  PROVE  IQInvariant'
<1>1. PICK s : s = core
  OBVIOUS
<1>2. CoreOK(s)
  BY <1>1 DEF IQInvariant
<1>3. PICK n \in Slots : n = s.iq.part_next
  <2>1. s.iq \in Queue
    BY <1>2, CoreIs DEF CoreOK
  <2> QED
    BY <2>1, QueueIs
<1>4. iq.part_next = n
  BY <1>1, <1>3 DEF core
<1>5. PICK x : x = [s EXCEPT
         !.iq = [EmptyIQ EXCEPT !.part_next = n],
         !.rr = [l \in LaneIDs |-> None], !.wb = [l \in LaneIDs |-> None],
         !.ex = [l \in LaneIDs |-> [d \in 1 .. Depth[l] |-> None]],
         !.stalled = {}, !.al = <<>>]
  OBVIOUS
<1>6. Becomes(x)
  BY <1>1, <1>4, <1>5 DEF SquashComplete
<1>7. s = [iq |-> s.iq, rr |-> s.rr, ex |-> s.ex, wb |-> s.wb, ready |-> s.ready,
           written |-> s.written, stalled |-> s.stalled, al |-> s.al, ptr |-> s.ptr]
  BY <1>1 DEF core
<1>8. /\ x.iq = [EmptyIQ EXCEPT !.part_next = n]
      /\ x.rr = [l \in LaneIDs |-> None] /\ x.wb = [l \in LaneIDs |-> None]
      /\ x.ex = [l \in LaneIDs |-> [d \in 1 .. Depth[l] |-> None]]
      /\ x.stalled = {} /\ x.al = <<>>
      /\ x.ready = s.ready /\ x.written = s.written /\ x.ptr = s.ptr
      /\ x = [iq |-> x.iq, rr |-> x.rr, ex |-> x.ex, wb |-> x.wb, ready |-> x.ready,
              written |-> x.written, stalled |-> x.stalled, al |-> x.al, ptr |-> x.ptr]
  BY <1>5, <1>7
<1>9. x.ready \in SUBSET Tags /\ x.written \in SUBSET Tags /\ x.ptr \in [FUs -> LaneIDs]
  BY <1>2, <1>8, CoreIs DEF CoreOK
<1>10. CoreOK(x)
  BY <1>8, <1>9, EmptyOK
<1>11. x \in Core
  BY <1>10 DEF CoreOK
<1>12. core' = x
  BY <1>6, <1>11, BecomesIs
<1> QED
  BY <1>10, <1>12 DEF IQInvariant

LEMMA NextOK ==
  ASSUME IQInvariant, [Next]_vars
  PROVE  IQInvariant'
<1>1. CASE \E replay \in stalled \cup {None} : Cycle(replay)
  BY <1>1, CycleOK
<1>2. CASE Retire
  BY <1>2, RetireStepOK
<1>3. CASE SquashComplete
  BY <1>3, SquashStepOK
<1>4. CASE UNCHANGED vars
  <2>1. core' = core
    BY <1>4 DEF vars, core
  <2> QED
    BY <2>1 DEF IQInvariant
<1> QED
  BY <1>1, <1>2, <1>3, <1>4 DEF Next

LEMMA InvariantHolds == Spec => []IQInvariant
<1>1. Init => IQInvariant
  BY InitOK
<1>2. IQInvariant /\ [Next]_vars => IQInvariant'
  BY NextOK
<1> QED
  BY <1>1, <1>2, PTL DEF Spec

-----------------------------------------------------------------------------
(* From the invariant to the properties.                                   *)

LEMMA AtMostOne ==
  ASSUME NEW S, \A x, y \in S : x = y
  PROVE  Cardinality(S) = IF S = {} THEN 0 ELSE 1
<1>1. CASE S = {}
  BY <1>1, FS_EmptySet
<1>2. CASE S # {}
  <2>1. PICK x \in S : TRUE
    BY <1>2
  <2>2. S = {x}
    BY <2>1
  <2>3. Cardinality({x}) = 1
    BY FS_Singleton
  <2> QED
    BY <1>2, <2>2, <2>3
<1> QED
  BY <1>1, <1>2

(* The free list as a sequence.                                            *)
ListsFree(q, f) ==
  /\ {f[k] : k \in DOMAIN f} = {i \in Slots : ~q.q[i].valid}
  /\ Len(f) = Cardinality({i \in Slots : ~q.q[i].valid})

LEMMA FreeListIs ==
  ASSUME NEW q \in Queue, FreeListOK(q), NEW f,
         f = [k \in 1 .. q.fl_length |-> q.fl[(q.fl_head + k - 1) % IQSize]]
  PROVE  ListsFree(q, f)
<1>1. PICK n \in Nat : n = q.fl_length /\ n \in 0 .. IQSize
  BY QueueIs, Sizes
<1>2. PICK h \in Nat : h = q.fl_head
  <2>1. q.fl_head \in Slots
    BY QueueIs
  <2>2. Slots \subseteq Nat
    BY Sizes DEF Slots
  <2> QED
    BY <2>1, <2>2
<1>3. PICK T : T = {i \in Slots : ~q.q[i].valid}
  OBVIOUS
<1>4. DOMAIN f = 1 .. n
  BY <1>1
<1>5. \A k \in 1 .. n : k - 1 \in 0 .. n - 1 /\ h + k - 1 = h + (k - 1)
  BY <1>1, <1>2
<1>6. \A k \in 1 .. n : f[k] = Free(q, k - 1)
  BY <1>1, <1>2, <1>5 DEF Free
<1>7. \A k \in 0 .. n - 1 : k \in 0 .. IQSize /\ k + 1 \in 1 .. n /\ (k + 1) - 1 = k
  BY <1>1, Sizes
<1>8. \A k \in 1 .. n : f[k] \in T
  <2> TAKE k \in 1 .. n
  <2>1. PICK j \in 0 .. n - 1 : j = k - 1 /\ j \in 0 .. IQSize
    BY <1>5, <1>7
  <2>2. Free(q, j) \in Slots /\ ~q.q[Free(q, j)].valid
    BY <1>1, <2>1, FreeType DEF FreeListOK
  <2>3. f[k] = Free(q, j)
    BY <1>6, <2>1
  <2> QED
    BY <1>3, <2>2, <2>3
<1>9. \A j, k \in 1 .. n : f[j] = f[k] => j = k
  <2> TAKE j, k \in 1 .. n
  <2> HAVE f[j] = f[k]
  <2>1. PICK a \in 0 .. n - 1 : a = j - 1
    BY <1>5
  <2>2. PICK b \in 0 .. n - 1 : b = k - 1
    BY <1>5
  <2>3. f[j] = Free(q, a) /\ f[k] = Free(q, b)
    BY <1>6, <2>1, <2>2
  <2>4. Free(q, a) = Free(q, b)
    BY <2>3
  <2>5. a = b
    BY <1>1, <2>4 DEF FreeListOK
  <2> QED
    BY <2>1, <2>2, <2>5
<1>10. \A i \in T : \E k \in 1 .. n : f[k] = i
  <2> TAKE i \in T
  <2>1. PICK k \in 0 .. n - 1 : Free(q, k) = i
    BY <1>1, <1>3 DEF FreeListOK
  <2> QED
    BY <1>6, <1>7, <2>1
<1>11. {f[k] : k \in DOMAIN f} = T
  BY <1>4, <1>8, <1>10
<1>12. Len(f) = n
  <2>1. PICK g : g = f
    OBVIOUS
  <2>2. g = [k \in 1 .. n |-> q.fl[(h + k - 1) % IQSize]]
    BY <1>1, <1>2, <2>1
  <2>3. Len(g) = n
    BY <2>2
  <2> QED
    BY <2>1, <2>3
<1>13. Cardinality(T) = n
  <2>1. f \in [1 .. n -> T]
    BY <1>1, <1>4, <1>8
  <2>2. f \in Bijection(1 .. n, T)
    <3>1. PICK g : g = f
      OBVIOUS
    <3>2. /\ g \in [1 .. n -> T] /\ \A j, k \in 1 .. n : g[j] = g[k] => j = k
          /\ \A i \in T : \E k \in 1 .. n : g[k] = i
      BY <1>9, <1>10, <2>1, <3>1
    <3>3. g \in Injection(1 .. n, T) /\ g \in Surjection(1 .. n, T)
      BY <3>2 DEF Injection, Surjection, IsInjective
    <3> QED
      BY <3>1, <3>3 DEF Bijection
  <2>3. ExistsBijection(1 .. n, T)
    BY <2>2 DEF ExistsBijection
  <2>4. IsFiniteSet(1 .. n) /\ Cardinality(1 .. n) = n
    BY <1>1, FS_Interval
  <2> QED
    BY <2>3, <2>4, FS_Bijection
<1> QED
  BY <1>3, <1>11, <1>12, <1>13 DEF ListsFree

(* The whole age list is the valid entries in order.                       *)
InOrder(q, R, c) ==
  /\ {c[k] : k \in DOMAIN c} = {i \in Slots : q.q[i].valid}
  /\ \A j, k \in DOMAIN c : j < k => Comes(q, R, c[j], c[k])
  /\ c # <<>> => c[Len(c)] = q.youngest

LEMMA ChainIs ==
  ASSUME NEW q \in Queue, NEW R, AgeListOK(q, R),
         \A i \in Slots : q.q[i].valid => R[q.q[i].tag] \in Nat,
         NEW c, ChainTo(q, IQSize, c)
  PROVE  InOrder(q, R, c)
<1>1. /\ c \in Seq(Slots) /\ (c = <<>> <=> q.oldest = None)
      /\ \A k \in 1 .. Len(c) : q.q[c[k]].valid
      /\ c # <<>> => c[1] = q.oldest
      /\ \A k \in 1 .. Len(c) - 1 : c[k + 1] = q.q[c[k]].next
      /\ c = <<>> \/ Len(c) = IQSize + 1 \/ q.q[c[Len(c)]].next = None
  BY DEF ChainTo, Chain
<1>2. PICK n \in Nat : n = Len(c) /\ DOMAIN c = 1 .. n /\ (c = <<>> <=> n = 0)
  BY <1>1
<1>3. \A k \in 1 .. n : c[k] \in Slots /\ Valid(q, c[k])
  BY <1>1, <1>2 DEF Valid
<1>4. \A k \in 1 .. n - 1 : k \in 1 .. n /\ k + 1 \in 1 .. n
  BY <1>2
<1>5. \A k \in 1 .. n - 1 : Comes(q, R, c[k], c[k + 1])
  <2> TAKE k \in 1 .. n - 1
  <2>1. c[k + 1] = q.q[c[k]].next /\ c[k] \in Slots /\ c[k + 1] \in Slots /\ Valid(q, c[k])
    BY <1>1, <1>2, <1>3, <1>4
  <2>2. q.q[c[k]].next # None
    BY <2>1, Sizes
  <2> QED
    BY <2>1, <2>2 DEF AgeListOK
<1>6. ASSUME NEW j \in 1 .. n PROVE \A k \in j + 1 .. n : Comes(q, R, c[j], c[k])
  <2> DEFINE G == {d \in 0 .. n - j - 1 : Comes(q, R, c[j], c[j + 1 + d])}
  <2>0. CASE j = n
    BY <2>0
  <2>1. CASE j # n
    <3>1. n - j - 1 \in Nat /\ j \in 1 .. n - 1 /\ j + 1 + 0 = j + 1
      BY <1>2, <2>1
    <3>2. 0 \in G
      BY <1>5, <3>1
    <3>3. \A d \in 0 .. (n - j - 1) - 1 : d \in G => d + 1 \in G
      <4> TAKE d \in 0 .. (n - j - 1) - 1
      <4> HAVE d \in G
      <4>1. PICK k \in 1 .. n - 1 : k = j + 1 + d /\ k + 1 = j + 1 + (d + 1)
        BY <1>2
      <4>2. Comes(q, R, c[j], c[k]) /\ Comes(q, R, c[k], c[k + 1])
        BY <1>5, <4>1
      <4>3. k \in 1 .. n /\ k + 1 \in 1 .. n
        BY <1>4, <4>1
      <4>4. /\ R[q.q[c[j]].tag] \in Nat /\ R[q.q[c[k]].tag] \in Nat
            /\ R[q.q[c[k + 1]].tag] \in Nat
        BY <1>3, <4>3 DEF Valid
      <4>5. Comes(q, R, c[j], c[k + 1])
        BY <4>2, <4>4 DEF Comes
      <4>6. d + 1 \in 0 .. n - j - 1
        BY <1>2
      <4> QED
        BY <4>1, <4>5, <4>6
    <3> HIDE DEF G
    <3>4. \A d \in 0 .. n - j - 1 : d \in G
      BY <3>1, <3>2, <3>3, UpTo
    <3>5. \A k \in j + 1 .. n : k - j - 1 \in 0 .. n - j - 1 /\ j + 1 + (k - j - 1) = k
      BY <1>2
    <3> QED
      <4> TAKE k \in j + 1 .. n
      <4>1. PICK d \in 0 .. n - j - 1 : j + 1 + d = k
        BY <3>5
      <4>2. d \in G
        BY <3>4
      <4> QED
        BY <4>1, <4>2 DEF G
  <2> QED
    BY <2>0, <2>1
<1>7. \A j, k \in 1 .. n : j < k => Comes(q, R, c[j], c[k])
  <2> TAKE j, k \in 1 .. n
  <2> HAVE j < k
  <2>1. k \in j + 1 .. n
    BY <1>2
  <2> QED
    BY <1>6, <2>1
<1>8. \A j, k \in 1 .. n : c[j] = c[k] => j = k
  <2> TAKE j, k \in 1 .. n
  <2> HAVE c[j] = c[k]
  <2>1. R[q.q[c[j]].tag] \in Nat /\ R[q.q[c[k]].tag] \in Nat
    BY <1>3 DEF Valid
  <2>2. ~Comes(q, R, c[j], c[k]) /\ ~Comes(q, R, c[k], c[j])
    BY <2>1 DEF Comes
  <2>3. ~(j < k) /\ ~(k < j)
    BY <1>7, <2>2
  <2> QED
    BY <2>3
<1>9. n # IQSize + 1
  <2> SUFFICES ASSUME n = IQSize + 1 PROVE FALSE
    OBVIOUS
  <2>1. IsFiniteSet(Slots) /\ Cardinality(Slots) = IQSize
    BY FS_Interval, Sizes DEF Slots
  <2>2. IsFiniteSet(1 .. n) /\ Cardinality(1 .. n) = n
    BY <1>2, FS_Interval
  <2>3. c \in [1 .. n -> Slots]
    BY <1>1, <1>2
  <2>4. Cardinality(Slots) < Cardinality(1 .. n)
    BY <2>1, <2>2, Sizes
  <2>5. \E j, k \in 1 .. n : j # k /\ c[j] = c[k]
    BY <2>1, <2>2, <2>3, <2>4, FS_PigeonHole
  <2> QED
    BY <1>8, <2>5
<1>10. n # 0 => n \in 1 .. n /\ q.q[c[n]].next = None
  BY <1>1, <1>2, <1>9
<1>11. ASSUME NEW i \in Slots, q.q[i].valid PROVE \E k \in 1 .. n : c[k] = i
  <2> SUFFICES ASSUME \A k \in 1 .. n : c[k] # i PROVE FALSE
    OBVIOUS
  <2>1. Valid(q, i) /\ q.oldest # None /\ ~Comes(q, R, i, q.oldest)
    BY <1>11 DEF Valid, AgeListOK
  <2>2. n # 0 /\ n - 1 \in Nat /\ 1 \in 1 .. n /\ c[1] = q.oldest
    BY <1>1, <1>2, <2>1
  <2> DEFINE G == {d \in 0 .. n - 1 : Comes(q, R, c[d + 1], i)}
  <2>3. 0 \in G
    <3>1. Valid(q, c[1]) /\ c[1] # i /\ ~Comes(q, R, i, c[1]) /\ c[1] \in Slots
      BY <1>3, <2>1, <2>2
    <3>2. Comes(q, R, c[1], i)
      BY <2>1, <3>1 DEF AgeListOK
    <3> QED
      BY <2>2, <3>2
  <2>4. \A d \in 0 .. (n - 1) - 1 : d \in G => d + 1 \in G
    <3> TAKE d \in 0 .. (n - 1) - 1
    <3> HAVE d \in G
    <3>1. PICK k \in 1 .. n - 1 : k = d + 1 /\ k + 1 = (d + 1) + 1 /\ d + 1 \in 0 .. n - 1
      BY <2>2
    <3>2. /\ Comes(q, R, c[k], i) /\ Valid(q, c[k]) /\ c[k] \in Slots
          /\ Valid(q, c[k + 1]) /\ c[k + 1] \in Slots /\ c[k + 1] # i
          /\ c[k + 1] = q.q[c[k]].next
      BY <1>1, <1>2, <1>3, <1>4, <3>1
    <3>3. ~Comes(q, R, i, c[k + 1])
      BY <2>1, <3>2 DEF AgeListOK
    <3>4. Comes(q, R, c[k + 1], i)
      BY <2>1, <3>2, <3>3 DEF AgeListOK
    <3> QED
      BY <3>1, <3>4
  <2> HIDE DEF G
  <2>5. n - 1 \in G
    <3>1. \A d \in 0 .. n - 1 : d \in G
      BY <2>2, <2>3, <2>4, UpTo
    <3> QED
      BY <2>2, <3>1
  <2>6. Comes(q, R, c[n], i)
    <3>1. (n - 1) + 1 = n
      BY <1>2
    <3> QED
      BY <2>5, <3>1 DEF G
  <2>7. n \in 1 .. n /\ q.q[c[n]].next = None /\ Valid(q, c[n]) /\ c[n] \in Slots
    BY <1>3, <1>10, <2>2
  <2> QED
    BY <2>1, <2>6, <2>7 DEF AgeListOK
<1>12. {c[k] : k \in DOMAIN c} = {i \in Slots : q.q[i].valid}
  BY <1>1, <1>2, <1>3, <1>11
<1>13. ASSUME c # <<>> PROVE c[Len(c)] = q.youngest
  <2>1. n \in 1 .. n /\ Valid(q, c[n]) /\ c[n] \in Slots
    BY <1>2, <1>3, <1>10, <1>13
  <2>2. q.youngest # None /\ ~Comes(q, R, q.youngest, c[n])
    BY <2>1 DEF AgeListOK
  <2>3. Valid(q, q.youngest)
    BY <2>2 DEF AgeListOK
  <2>4. PICK k \in 1 .. n : c[k] = q.youngest
    BY <1>11, <2>3 DEF Valid
  <2>5. ~(k < n)
    BY <1>7, <2>1, <2>2, <2>4
  <2>6. k = n
    BY <2>5
  <2> QED
    BY <1>2, <2>4, <2>6
<1> QED
  BY <1>2, <1>7, <1>12, <1>13 DEF InOrder

(* The variables as the fields of s, with what the invariant says of s.    *)
LEMMA StateIs ==
  ASSUME IQInvariant
  PROVE  \E s : /\ CoreOK(s) /\ core = s
                /\ iq = s.iq /\ rr = s.rr /\ ex = s.ex /\ wb = s.wb /\ ready = s.ready
                /\ written = s.written /\ stalled = s.stalled /\ al = s.al /\ fu_lane_ptr = s.ptr
BY DEF IQInvariant, core

LEMMA InvariantTypes ==
  ASSUME IQInvariant
  PROVE  TypeOK
<1>1. PICK s : /\ CoreOK(s)
               /\ iq = s.iq /\ rr = s.rr /\ ex = s.ex /\ wb = s.wb /\ ready = s.ready
               /\ written = s.written /\ stalled = s.stalled /\ al = s.al /\ fu_lane_ptr = s.ptr
  BY StateIs
<1>2. s \in Core
  BY <1>1 DEF CoreOK
<1>3. s.iq \in Queue /\ s.al \in Seq(Insn)
  BY <1>2, CoreIs
<1>4. \A l \in LaneIDs : s.ex[l] \in [1 .. Depth[l] -> NoTag]
  BY <1>2, CoreIs
<1>5. /\ s.rr \in [LaneIDs -> NoTag] /\ s.wb \in [LaneIDs -> NoTag]
      /\ s.ready \in SUBSET Tags /\ s.written \in SUBSET Tags /\ s.stalled \in SUBSET Tags
      /\ s.ptr \in [FUs -> LaneIDs]
  BY <1>2, CoreIs
<1>6. iq \in Queue /\ al \in Seq(Insn)
  BY <1>1, <1>3
<1>7. /\ \A l \in LaneIDs : ex[l] \in [1 .. Depth[l] -> NoTag]
      /\ rr \in [LaneIDs -> NoTag] /\ wb \in [LaneIDs -> NoTag]
      /\ ready \in SUBSET Tags /\ written \in SUBSET Tags /\ stalled \in SUBSET Tags
      /\ fu_lane_ptr \in [FUs -> LaneIDs]
  BY <1>1, <1>4, <1>5
<1> QED
  BY <1>6, <1>7 DEF TypeOK, Queue, Entry, NoTag, Insn

LEMMA InvariantQueueExact ==
  ASSUME IQInvariant
  PROVE  QueueExact
<1>1. PICK s : CoreOK(s) /\ core = s /\ iq = s.iq
  BY StateIs
<1>2. PICK q : q = s.iq
  OBVIOUS
<1>3. q \in Queue /\ FreeListOK(q) /\ AgeListOK(q, Place(s))
  BY <1>1, <1>2, CoreIs DEF CoreOK
<1>4. \A i \in Slots : q.q[i].valid =>
        /\ q.q[i].tag \in Tags /\ q.q[i].tag \in TagsOf(s)
        /\ Place(s)[q.q[i].tag] = Position(s, q.q[i].tag) /\ Place(s)[q.q[i].tag] \in Nat
  BY <1>1, <1>2, ActiveTypes
<1>5. PICK f : f = [k \in 1 .. q.fl_length |-> q.fl[(q.fl_head + k - 1) % IQSize]]
  OBVIOUS
<1>6. PICK c : c = AgeOrder(q)
  OBVIOUS
<1>7. PICK free : free = {i \in Slots : ~q.q[i].valid}
  OBVIOUS
<1>8. {f[k] : k \in DOMAIN f} = free /\ Len(f) = Cardinality(free)
  <2>1. ListsFree(q, f)
    BY <1>3, <1>5, FreeListIs
  <2> QED
    BY <1>7, <2>1 DEF ListsFree
<1>9. ChainTo(q, IQSize, c)
  BY <1>3, <1>6, AgeOrderIs
<1>10. InOrder(q, Place(s), c) /\ c \in Seq(Slots)
  <2>1. \A i \in Slots : q.q[i].valid => Place(s)[q.q[i].tag] \in Nat
    BY <1>4
  <2>2. InOrder(q, Place(s), c)
    BY <1>3, <1>9, <2>1, ChainIs
  <2> QED
    BY <1>9, <2>2 DEF ChainTo, Chain
<1>11. iq = q /\ FreeEntries = f
  BY <1>1, <1>2, <1>5 DEF FreeEntries
<1>12. \A j, k \in DOMAIN c : j < k => InAL(iq.q[c[j]].tag) < InAL(iq.q[c[k]].tag)
  <2> TAKE j, k \in DOMAIN c
  <2> HAVE j < k
  <2>1. Comes(q, Place(s), c[j], c[k])
    BY <1>10 DEF InOrder
  <2>2. c[j] \in Slots /\ q.q[c[j]].valid /\ c[k] \in Slots /\ q.q[c[k]].valid
    BY <1>10 DEF InOrder
  <2>3. Position(s, q.q[c[j]].tag) < Position(s, q.q[c[k]].tag)
    BY <1>4, <2>1, <2>2 DEF Comes
  <2> QED
    BY <1>1, <1>11, <2>3 DEF InAL
<1>13. c # <<>> => Last(c) = iq.youngest
  BY <1>10, <1>11 DEF InOrder, Last
<1>14. AgeOrder(iq) = c
  BY <1>6, <1>11
<1>15. /\ {c[k] : k \in DOMAIN c} = {i \in Slots : iq.q[i].valid}
       /\ free = {i \in Slots : ~iq.q[i].valid}
  BY <1>7, <1>10, <1>11 DEF InOrder
<1>16. TypeOK
  BY InvariantTypes
<1>17. /\ {FreeEntries[k] : k \in DOMAIN FreeEntries} = {i \in Slots : ~iq.q[i].valid}
       /\ Len(FreeEntries) = Cardinality({i \in Slots : ~iq.q[i].valid})
  BY <1>8, <1>11, <1>15
<1> HIDE DEF FreeEntries, InAL, TypeOK
<1> QED
  BY <1>12, <1>13, <1>14, <1>15, <1>16, <1>17 DEF QueueExact

LEMMA PipeIs ==
  ASSUME IQInvariant, NEW s, CoreOK(s), rr = s.rr, ex = s.ex, wb = s.wb, NEW l \in LaneIDs
  PROVE  DOMAIN Pipe(l) = Registers(l) /\ \A d \in Registers(l) : Pipe(l)[d] = At(s, l, d)
BY DEF Pipe, Registers, At

LEMMA InvariantOnePlace ==
  ASSUME IQInvariant
  PROVE  OnePlaceEach
<1>1. PICK s : /\ CoreOK(s) /\ core = s
               /\ iq = s.iq /\ rr = s.rr /\ ex = s.ex /\ wb = s.wb
               /\ stalled = s.stalled /\ al = s.al
  BY StateIs
<1>2. /\ s.al \in Seq(Insn) /\ Distinct(s)
      /\ \A i \in Slots : s.iq.q[i].valid => s.iq.q[i].tag \in TagsOf(s)
      /\ \A l \in LaneIDs : \A d \in Registers(l) :
           At(s, l, d) # None => At(s, l, d) \in TagsOf(s)
  BY <1>1, ActiveTypes
<1>3. \A l \in LaneIDs : /\ DOMAIN Pipe(l) = Registers(l)
                         /\ \A d \in Registers(l) : Pipe(l)[d] = At(s, l, d)
  BY <1>1, PipeIs
<1>4. \A l \in LaneIDs : Registers(l) \subseteq 1 .. 18
  BY Sizes DEF Registers
<1>5. ASSUME NEW k \in DOMAIN al, NEW t, t = al[k].tag
      PROVE  Cardinality({i \in Slots : iq.q[i].valid /\ iq.q[i].tag = t})
             + Cardinality({p \in LaneIDs \X (1..18) : /\ p[2] \in DOMAIN Pipe(p[1])
                                                       /\ Pipe(p[1])[p[2]] = t})
             + (IF t \in stalled THEN 1 ELSE 0)
             = IF al[k].completed THEN 0 ELSE 1
  <2>1. PICK A : A = {i \in Slots : iq.q[i].valid /\ iq.q[i].tag = t}
    OBVIOUS
  <2>2. PICK B : B = {p \in LaneIDs \X (1..18) : /\ p[2] \in DOMAIN Pipe(p[1])
                                                 /\ Pipe(p[1])[p[2]] = t}
    OBVIOUS
  <2>3. /\ k \in DOMAIN s.al /\ t = s.al[k].tag /\ t \in Tags /\ t \in TagsOf(s)
        /\ s.al[k].completed \in BOOLEAN /\ al[k].completed = s.al[k].completed
    BY <1>1, <1>2, <1>5, ActiveIs
  <2>4. OnePlace(s, t)
    BY <1>1, <2>3 DEF CoreOK
  <2>5. Done(s, t) <=> s.al[k].completed
    BY <1>2, <2>3 DEF Done, Distinct
  <2>6. \A i : i \in A <=> i \in Slots /\ InSlot(s, i, t)
    BY <1>1, <2>1 DEF InSlot
  <2>7. \A l, d : <<l, d>> \in B <=> l \in LaneIDs /\ d \in Registers(l) /\ At(s, l, d) = t
    BY <1>3, <1>4, <2>2
  <2>8. Cardinality(A) = IF InQueue(s, t) THEN 1 ELSE 0
    <3>1. \A i, j \in A : i = j
      BY <2>4, <2>6 DEF OnePlace
    <3>2. A = {} <=> ~InQueue(s, t)
      BY <2>6 DEF InQueue
    <3> QED
      BY <3>1, <3>2, AtMostOne
  <2>9. Cardinality(B) = IF InLane(s, t) THEN 1 ELSE 0
    <3>1. \A p, r \in B : p = r
      <4> TAKE p, r \in B
      <4>1. PICK l, d : p = <<l, d>>
        BY <2>2
      <4>2. PICK m, c : r = <<m, c>>
        BY <2>2
      <4>3. /\ l \in LaneIDs /\ d \in Registers(l) /\ At(s, l, d) = t
            /\ m \in LaneIDs /\ c \in Registers(m) /\ At(s, m, c) = t
        BY <2>7, <4>1, <4>2
      <4>4. l = m /\ d = c
        BY <2>4, <4>3 DEF OnePlace
      <4> QED
        BY <4>1, <4>2, <4>4
    <3>2. B = {} <=> ~InLane(s, t)
      <4>1. ASSUME NEW p \in B PROVE InLane(s, t)
        <5>1. PICK l, d : p = <<l, d>>
          BY <2>2
        <5> QED
          BY <2>7, <5>1 DEF InLane
      <4>2. ASSUME InLane(s, t) PROVE B # {}
        <5>1. PICK l \in LaneIDs : \E d \in Registers(l) : At(s, l, d) = t
          BY <4>2 DEF InLane
        <5>2. PICK d \in Registers(l) : At(s, l, d) = t
          BY <5>1
        <5>3. <<l, d>> \in B
          BY <2>7, <5>2
        <5> QED
          BY <5>3
      <4> QED
        BY <4>1, <4>2
    <3> QED
      BY <3>1, <3>2, AtMostOne
  <2>10. /\ (t \in stalled <=> t \in s.stalled)
         /\ InQueue(s, t) \/ InLane(s, t) \/ t \in s.stalled \/ s.al[k].completed
         /\ InQueue(s, t) => ~InLane(s, t) /\ t \notin s.stalled /\ ~s.al[k].completed
         /\ InLane(s, t) => t \notin s.stalled /\ ~s.al[k].completed
         /\ t \in s.stalled => ~s.al[k].completed
    BY <1>1, <2>3, <2>4, <2>5 DEF OnePlace
  <2>11. Cardinality(A) + Cardinality(B) + (IF t \in stalled THEN 1 ELSE 0)
         = IF al[k].completed THEN 0 ELSE 1
    BY <2>3, <2>8, <2>9, <2>10
  <2> QED
    BY <2>1, <2>2, <2>11
<1>6. Waiting \subseteq TagsOf(core)
  BY <1>1, <1>2 DEF Waiting
<1>7. InLanes \subseteq TagsOf(core)
  <2>1. ASSUME NEW t \in InLanes PROVE t \in TagsOf(s)
    <3>1. PICK l \in LaneIDs : \E d \in DOMAIN Pipe(l) : Pipe(l)[d] = t
      BY DEF InLanes
    <3>2. PICK d \in Registers(l) : At(s, l, d) = t
      BY <1>3, <3>1
    <3>3. t # None
      BY DEF InLanes
    <3> QED
      BY <1>2, <3>2, <3>3
  <2> QED
    BY <1>1, <2>1
<1>8. stalled \subseteq TagsOf(core)
  <2>1. \A t \in s.stalled : t \in Tags /\ OnePlace(s, t)
    BY <1>1, CoreIs DEF CoreOK
  <2> QED
    BY <1>1, <2>1 DEF OnePlace
<1> QED
  BY <1>5, <1>6, <1>7, <1>8 DEF OnePlaceEach

LEMMA InvariantWakeup ==
  ASSUME IQInvariant
  PROVE  WakeupExact
<1>1. PICK s : /\ CoreOK(s) /\ core = s
               /\ iq = s.iq /\ rr = s.rr /\ ex = s.ex /\ ready = s.ready
               /\ stalled = s.stalled /\ al = s.al
  BY StateIs
<1>2. s.al \in Seq(Insn) /\ Distinct(s) /\ s \in Core
  BY <1>1, ActiveTypes
<1>3. ASSUME NEW k \in DOMAIN al, HasDest(al[k]), NEW t, t = al[k].tag,
             NEW before,
             before <=> \/ t \in Waiting \cup stalled
                        \/ \E l \in LaneIDs : \/ rr[l] = t
                                              \/ \E d \in 1..Depth[l] : /\ ex[l][d] = t
                                                                        /\ IsLoad(al[k]) \/ d < Depth[l]
      PROVE  t \in ready <=> ~before
  <2>1. /\ k \in DOMAIN s.al /\ t = s.al[k].tag /\ t \in Tags /\ t \in TagsOf(s)
        /\ InsnOf(s, t) = al[k]
    BY <1>1, <1>2, <1>3, ActiveIs
  <2>2. t \in s.ready <=> ~Asleep(s, t, IsLoad(al[k]))
    BY <1>1, <1>3, <2>1 DEF CoreOK, Wakes
  <2>3. t \in Waiting <=> InQueue(s, t)
    BY <1>1 DEF Waiting, InQueue, InSlot
  <2>4. ASSUME NEW l \in LaneIDs
        PROVE  (\/ rr[l] = t
                \/ \E d \in 1..Depth[l] : ex[l][d] = t /\ (IsLoad(al[k]) \/ d < Depth[l]))
               <=> (\E d \in 1 .. Depth[l] + 1 : At(s, l, d) = t /\ (IsLoad(al[k]) \/ d <= Depth[l]))
    <3>1. PICK n \in Nat : n = Depth[l] /\ n >= 1
      BY Sizes
    <3>2. /\ At(s, l, 1) = rr[l]
          /\ \A d \in 1 .. n : At(s, l, d + 1) = ex[l][d]
      BY <1>1, <1>2, <3>1, AtIs
    <3>3. /\ 1 \in 1 .. n + 1 /\ 1 <= n
          /\ \A d \in 1 .. n : d + 1 \in 1 .. n + 1 /\ (d < n <=> d + 1 <= n)
          /\ \A d \in 1 .. n + 1 : d = 1 \/ (d - 1 \in 1 .. n /\ (d - 1) + 1 = d)
      BY <3>1
    <3>4. ASSUME rr[l] = t
          PROVE  \E d \in 1 .. n + 1 : At(s, l, d) = t /\ (IsLoad(al[k]) \/ d <= n)
      BY <3>2, <3>3, <3>4
    <3>5. ASSUME NEW d \in 1 .. n, ex[l][d] = t, IsLoad(al[k]) \/ d < n
          PROVE  \E c \in 1 .. n + 1 : At(s, l, c) = t /\ (IsLoad(al[k]) \/ c <= n)
      BY <3>2, <3>3, <3>5
    <3>6. ASSUME NEW d \in 1 .. n + 1, At(s, l, d) = t, IsLoad(al[k]) \/ d <= n
          PROVE  rr[l] = t \/ \E c \in 1 .. n : ex[l][c] = t /\ (IsLoad(al[k]) \/ c < n)
      <4>1. CASE d = 1
        BY <3>2, <3>6, <4>1
      <4>2. CASE d # 1
        <5>1. PICK c \in 1 .. n : c = d - 1 /\ c + 1 = d
          BY <3>3, <4>2
        <5>2. ex[l][c] = t /\ (IsLoad(al[k]) \/ c < n)
          BY <3>2, <3>3, <3>6, <5>1
        <5> QED
          BY <5>2
      <4> QED
        BY <4>1, <4>2
    <3> QED
      BY <3>1, <3>4, <3>5, <3>6
  <2>5. before <=> Asleep(s, t, IsLoad(al[k]))
    BY <1>1, <1>3, <2>3, <2>4 DEF Asleep
  <2> QED
    BY <1>1, <2>2, <2>5
<1>4. \A i \in Slots : iq.q[i].valid =>
        iq.q[i].waits = InsnOf(core, iq.q[i].tag).srcs \ ready
  BY <1>1 DEF CoreOK, Consumers
<1> QED
  BY <1>3, <1>4 DEF WakeupExact

LEMMA InvariantValue ==
  ASSUME IQInvariant
  PROVE  ValueInTime
<1>1. PICK s : /\ CoreOK(s) /\ core = s
               /\ rr = s.rr /\ ex = s.ex /\ ready = s.ready /\ written = s.written
  BY StateIs
<1>2. /\ s.al \in Seq(Insn) /\ Distinct(s) /\ s \in Core
      /\ \A l \in LaneIDs : \A d \in Registers(l) :
           At(s, l, d) # None => At(s, l, d) \in TagsOf(s)
  BY <1>1, ActiveTypes
<1>3. ASSUME NEW l \in LaneIDs, rr[l] # None, NEW t \in InsnOf(core, rr[l]).srcs
      PROVE  t \in written
             \/ \E m \in LaneIDs : ex[m][Depth[m]] = t /\ ~IsLoad(InsnOf(core, t))
  <2>1. PICK a : a = rr[l] /\ a = s.rr[l] /\ a # None
    BY <1>1, <1>3
  <2>2. a \in TagsOf(s)
    <3>1. 1 \in Registers(l) /\ At(s, l, 1) = a
      BY <1>2, <2>1, AtIs, Sizes DEF Registers
    <3> QED
      BY <1>2, <2>1, <3>1
  <2>3. PICK k \in DOMAIN s.al : InsnOf(s, a) = s.al[k] /\ s.al[k] \in Insn
    BY <1>2, <2>2, ActiveIs
  <2>4. t \in s.al[k].srcs /\ t \in Tags
    <3>1. t \in s.al[k].srcs
      BY <1>1, <1>3, <2>1, <2>3
    <3> QED
      BY <2>3, <3>1 DEF Insn
  <2>5. t \in s.ready
    BY <1>1, <2>1, <2>3, <2>4 DEF CoreOK, Consumers
  <2>6. CASE t \notin TagsOf(s)
    BY <1>1, <2>4, <2>6 DEF CoreOK, ActiveListOK
  <2>7. CASE t \in TagsOf(s)
    <3>1. HasDest(InsnOf(s, t))
      BY <1>1, <2>4, <2>7 DEF CoreOK, ActiveListOK
    <3>2. InTime(s, t, IsLoad(InsnOf(s, t)))
      BY <1>1, <2>4, <2>5, <2>7, <3>1 DEF CoreOK, Wakes
    <3>3. \A m \in LaneIDs : At(s, m, Depth[m] + 1) = ex[m][Depth[m]]
      <4> TAKE m \in LaneIDs
      <4>1. Depth[m] \in 1 .. Depth[m]
        BY Sizes
      <4> QED
        BY <1>1, <1>2, <4>1, AtIs
    <3> QED
      BY <1>1, <3>2, <3>3 DEF InTime
  <2> QED
    BY <2>6, <2>7
<1> QED
  BY <1>3 DEF ValueInTime

-----------------------------------------------------------------------------
(* The free list of the queue holds each invalid entry once and the age    *)
(* list the valid ones in program order, whatever select_and_issue() took  *)
(* out of the middle and whatever a misprediction or a full squash removed.*)
THEOREM IssueQueueQueueExact == Spec => []QueueExact
<1>1. IQInvariant => QueueExact
  BY InvariantQueueExact
<1> QED
  BY <1>1, InvariantHolds, PTL

(* An instruction that has not completed is in one place, an entry of the  *)
(* queue, a pipeline register of one lane or the Load Queue, and one that  *)
(* has is in none: no path between dispatch() and writeback() loses or     *)
(* repeats an instruction, and a squash leaves none behind.                *)
THEOREM IssueQueueOnePlaceEach == Spec => []OnePlaceEach
<1>1. IQInvariant => OnePlaceEach
  BY InvariantOnePlace
<1> QED
  BY <1>1, InvariantHolds, PTL

(* A producer's ready bit is off until the stage of its lane that wakes    *)
(* its dependents and on from then, and an entry waits for exactly its     *)
(* sources that are not ready: an instruction dispatched in the cycle of   *)
(* the broadcast does not miss it, and none waits for one that is over.    *)
THEOREM IssueQueueWakeupExact == Spec => []WakeupExact
<1>1. IQInvariant => WakeupExact
  BY InvariantWakeup
<1> QED
  BY <1>1, InvariantHolds, PTL

(* When an instruction is about to read its registers each source has its  *)
(* value, or has it earlier in the same cycle from the last sub-stage of a *)
(* producer that is not a load: the wakeup runs ahead of the value by one  *)
(* stage and never by more, whatever the depths of the lanes.              *)
THEOREM IssueQueueValueInTime == Spec => []ValueInTime
<1>1. IQInvariant => ValueInTime
  BY InvariantValue
<1> QED
  BY <1>1, InvariantHolds, PTL

=============================================================================
