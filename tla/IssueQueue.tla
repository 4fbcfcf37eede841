----------------------------- MODULE IssueQueue -----------------------------
(***************************************************************************)
(* The unified issue queue and the execution lanes, cycle by cycle.  One   *)
(* step is one cycle of step_micro() from writeback() to dispatch(), in    *)
(* the order of its calls; retirement is a step of its own between two     *)
(* cycles.  The Active List is a sequence, a physical register is named by *)
(* a tag that is free again when nothing in flight reads or writes it      *)
(* (module Renamer), and PAY is read by tag: no two instructions in flight *)
(* have the same destination.                                              *)
(***************************************************************************)
EXTENDS Integers, Sequences, FiniteSets, SequencesExt

CONSTANTS
  IQSize, NumParts,    (* entries of the queue, and its partitions         *)
  Lanes,               (* issue_width                                      *)
  Depth,               (* ex_depth of each lane                            *)
  FULanes,             (* the lanes of each type of function unit          *)
  Ops,                 (* the operations: unit, and whether they load,     *)
                       (* have a destination and are checkpointed branches *)
  ActiveSize,          (* entries of the Active List                       *)
  Tags,                (* physical registers                               *)
  Options              (* choices of PRESTEER and IDEAL_AGE_BASED           *)

FUs == DOMAIN FULanes
LaneIDs == 0..Lanes-1
None == -1

\* A load to x0, which has no destination but may write a register, is left out.
ASSUME IssueQueueAssumption ==
  /\ {IQSize, NumParts, Lanes, ActiveSize} \subseteq Nat
  /\ NumParts > 0 /\ IQSize > 0 /\ IQSize % NumParts = 0 /\ Lanes > 0
  /\ Depth \in [LaneIDs -> 1..16]
  /\ FULanes \in [FUs -> (SUBSET LaneIDs) \ {{}}]
  /\ Ops \subseteq [fu : FUs, load : BOOLEAN, dest : BOOLEAN, branch : BOOLEAN]
  /\ \A op \in Ops : op.load => op.dest
  /\ Options \subseteq [presteer : BOOLEAN, age : BOOLEAN]
  /\ Tags \subseteq Nat /\ Cardinality(Tags) > ActiveSize

VARIABLES
  iq,        (* entries, free list, age list, partition of the turn        *)
  rr, ex, wb,(* the pipeline registers of each lane                        *)
  ready,     (* the ready bit array                                        *)
  written,   (* registers that hold the value of their last producer       *)
  stalled,   (* loads that wait in the Load Queue                          *)
  al,        (* the Active List                                            *)
  fu_lane_ptr,
  cycle,     (* of the clock: its parity                                   *)
  options    (* never changed                                              *)

vars == <<iq, rr, ex, wb, ready, written, stalled, al, fu_lane_ptr, cycle, options>>
core == [iq |-> iq, rr |-> rr, ex |-> ex, wb |-> wb, ready |-> ready,
         written |-> written, stalled |-> stalled, al |-> al, ptr |-> fu_lane_ptr]
-----------------------------------------------------------------------------
\* f with v at k.
Put(f, k, v) == [x \in DOMAIN f |-> IF x = k THEN v ELSE f[x]]

(* The Active List: an instruction has a tag, an operation and sources.    *)

Position(s, tag) == CHOOSE k \in DOMAIN s.al : s.al[k].tag = tag
InsnOf(s, tag) == s.al[Position(s, tag)]
TagsOf(s) == {s.al[k].tag : k \in DOMAIN s.al}
IsLoad(insn) == insn.op.load
HasDest(insn) == insn.op.dest

\* In program order after the instruction with this tag.
Younger(s, tag) ==
  {s.al[k].tag : k \in {j \in DOMAIN s.al : \E i \in 1..j-1 : s.al[i].tag = tag}}

FreeTags(s) == {t \in Tags : \A k \in DOMAIN s.al : t # s.al[k].tag /\ t \notin s.al[k].srcs}
\* Sources with a producer in flight; any other source is ready for good.
Sources(s) == {t \in TagsOf(s) : HasDest(InsnOf(s, t))}
-----------------------------------------------------------------------------
(* issue_queue                                                             *)

Slots == 0..IQSize-1
NoEntry == [valid |-> FALSE, tag |-> None, waits |-> {}, lanes |-> {},
            prev |-> None, next |-> None]
EmptyIQ == [q |-> [i \in Slots |-> NoEntry], fl |-> [i \in Slots |-> i],
            fl_head |-> 0, fl_tail |-> 0, fl_length |-> IQSize,
            oldest |-> None, youngest |-> None, part_next |-> 0]

\* dispatch(): the entry goes to the tail of the age list.
InsertEntry(q, tag, waits, lanes) ==
  LET free == q.fl[q.fl_head]
      entry == [valid |-> TRUE, tag |-> tag, waits |-> waits, lanes |-> lanes,
                prev |-> q.youngest, next |-> None]
      linked == [i \in Slots |-> IF i = free THEN entry
                                 ELSE IF i = q.youngest THEN [q.q[i] EXCEPT !.next = free]
                                 ELSE q.q[i]]
  IN [q EXCEPT !.q = linked, !.fl_head = (@ + 1) % IQSize, !.fl_length = @ - 1,
               !.youngest = free, !.oldest = IF @ = None THEN free ELSE @]

\* mutant: the youngest is not corrected.
RemoveEntryYoungest(q, i) ==
  LET p == q.q[i].prev
      n == q.q[i].next
  IN [q EXCEPT !.q = [j \in Slots |-> IF j = i THEN NoEntry
                                       ELSE IF j = p THEN [q.q[j] EXCEPT !.next = n]
                                       ELSE IF j = n THEN [q.q[j] EXCEPT !.prev = p] ELSE q.q[j]],
               !.fl = Put(@, q.fl_tail, i), !.fl_tail = (@ + 1) % IQSize, !.fl_length = @ + 1,
               !.oldest = IF @ = i THEN n ELSE @]

\* remove(): back to the free list, out of the age list.
RemoveEntry(q, i) ==
  LET p == q.q[i].prev
      n == q.q[i].next
      unlinked == [j \in Slots |-> IF j = i THEN NoEntry
                                   ELSE [q.q[j] EXCEPT !.next = IF j = p THEN n ELSE @,
                                                       !.prev = IF j = n THEN p ELSE @]]
  IN [q EXCEPT !.q = unlinked,
               !.fl = Put(@, q.fl_tail, i), !.fl_tail = (@ + 1) % IQSize, !.fl_length = @ + 1,
               !.oldest = IF @ = i THEN n ELSE @,
               !.youngest = IF @ = i THEN p ELSE @]

WakeUp(q, tag) == [q EXCEPT !.q = [i \in Slots |-> [q.q[i] EXCEPT !.waits = @ \ {tag}]]]

\* squash() of everything that depends on a branch.
SquashIQ(q, tags) ==
  LET after[k \in 0..IQSize] ==
        IF k = 0 THEN q
        ELSE LET x == after[k - 1]
             IN IF x.q[k-1].valid /\ x.q[k-1].tag \in tags THEN RemoveEntry(x, k-1) ELSE x
  IN after[IQSize]

\* The entries from the oldest to the youngest.
AgeOrder(q) ==
  LET chain[n \in 0..IQSize] ==
        IF n = 0 THEN IF q.oldest = None THEN <<>> ELSE <<q.oldest>>
        ELSE LET c == chain[n - 1]
             IN IF c = <<>> \/ q.q[Last(c)].next = None THEN c ELSE Append(c, q.q[Last(c)].next)
  IN chain[IQSize]

\* The order in which select_and_issue() looks at the entries.
ScanOrder(q) ==
  IF options.age THEN AgeOrder(q) ELSE [k \in 1..IQSize |-> (q.part_next + k - 1) % IQSize]

NextPartition(q) ==
  IF options.age /\ q.oldest = None THEN q.part_next
  ELSE (q.part_next + IQSize \div NumParts) % IQSize
-----------------------------------------------------------------------------
(* The stages of a cycle, each from one state of the core to the next.     *)

\* Wakeup of dependents, with the ready bit.
Broadcast(s, tag) == [s EXCEPT !.iq = WakeUp(@, tag), !.ready = @ \cup {tag}]

\* mutant: the Load Queue keeps its stalled loads.
SquashYoungerNotLQ(s, tag) ==
  LET gone == Younger(s, tag)
      Keep(t) == IF t \in gone THEN None ELSE t
  IN [s EXCEPT !.iq = SquashIQ(@, gone),
               !.rr = [l \in LaneIDs |-> Keep(s.rr[l])],
               !.ex = [l \in LaneIDs |-> [d \in 1..Depth[l] |-> Keep(s.ex[l][d])]],
               !.wb = [l \in LaneIDs |-> Keep(s.wb[l])],
               !.al = SubSeq(@, 1, Position(s, tag))]

\* A misprediction squashes by branch mask, in the queue, the lanes and the LSU.
SquashYounger(s, tag) ==
  LET gone == Younger(s, tag)
      Keep(t) == IF t \in gone THEN None ELSE t
  IN [s EXCEPT !.iq = SquashIQ(@, gone),
               !.rr = [l \in LaneIDs |-> Keep(s.rr[l])],
               !.ex = [l \in LaneIDs |-> [d \in 1..Depth[l] |-> Keep(s.ex[l][d])]],
               !.wb = [l \in LaneIDs |-> Keep(s.wb[l])],
               !.stalled = @ \ gone,
               !.al = SubSeq(@, 1, Position(s, tag))]

Complete(s, tag) ==
  [s EXCEPT !.al = [k \in DOMAIN s.al |->
                      IF s.al[k].tag = tag THEN [s.al[k] EXCEPT !.completed = TRUE] ELSE s.al[k]]]

\* writeback() of one lane; mispredicted is the set of wrong branches.
Writeback(mispredicted, s, l) ==
  LET tag == s.wb[l]
      resolved == IF tag \in mispredicted THEN SquashYounger(s, tag) ELSE s
  IN IF tag = None THEN s ELSE [Complete(resolved, tag) EXCEPT !.wb = Put(@, l, None)]

WritebackStage(mispredicted, s) ==
  LET after[k \in 0..Lanes] ==
        IF k = 0 THEN s ELSE Writeback(mispredicted, after[k - 1], k - 1)
  IN after[Lanes]

\* A load has its value: from execute() or from the replay.
LoadHit(s, tag) == [Broadcast(s, tag) EXCEPT !.written = @ \cup {tag}]

\* mutant: the replay writes the value and wakes no one.
LoadReplaySilent(s, tag) ==
  IF tag \notin s.stalled THEN s
  ELSE Complete([s EXCEPT !.stalled = @ \ {tag}, !.written = @ \cup {tag},
                          !.ready = @ \cup {tag}], tag)

LoadReplay(s, tag) ==
  IF tag \notin s.stalled THEN s
  ELSE Complete([LoadHit(s, tag) EXCEPT !.stalled = @ \ {tag}], tag)

\* The last sub-stage of execute().
Finish(hits, s, l) ==
  LET tag == s.ex[l][Depth[l]]
      insn == InsnOf(s, tag)
      done == IF IsLoad(insn) THEN LoadHit(s, tag)
              ELSE IF HasDest(insn) THEN [s EXCEPT !.written = @ \cup {tag}] ELSE s
  IN IF tag = None THEN s
     ELSE IF IsLoad(insn) /\ tag \notin hits
     THEN [s EXCEPT !.stalled = @ \cup {tag}, !.ex = Put(@, l, Put(@[l], Depth[l], None))]
     ELSE [done EXCEPT !.wb = Put(@, l, tag), !.ex = Put(@, l, Put(@[l], Depth[l], None))]

\* mutant: loads wake their dependents as if they always hit.
WakesEarlyAll(insn) == HasDest(insn)

WakesEarly(insn) == HasDest(insn) /\ ~IsLoad(insn)

\* A producer of a deep lane wakes its dependents from the last but one.
WakeupStage(s, l) ==
  LET tag == s.ex[l][Depth[l] - 1]
  IN IF Depth[l] > 1 /\ tag # None /\ WakesEarly(InsnOf(s, tag)) THEN Broadcast(s, tag) ELSE s

Advance(s, l) ==
  [s EXCEPT !.ex = Put(@, l, [d \in 1..Depth[l] |-> IF d = 1 THEN None ELSE s.ex[l][d - 1]])]

Execute(hits, s, l) ==
  LET f == Finish(hits, s, l)
  IN Advance(IF Depth[l] > 1 THEN WakeupStage(f, l) ELSE f, l)

ExecuteStage(hits, s) ==
  LET after[k \in 0..Lanes] == IF k = 0 THEN s ELSE Execute(hits, after[k - 1], k - 1)
  IN after[Lanes]

\* register_read(): a producer of a one-stage lane wakes its dependents here.
RegisterRead(s, l) ==
  LET tag == s.rr[l]
      woken == IF Depth[l] = 1 /\ WakesEarly(InsnOf(s, tag)) THEN Broadcast(s, tag) ELSE s
  IN IF tag = None THEN s ELSE [woken EXCEPT !.ex = Put(@, l, Put(@[l], 1, tag)), !.rr = Put(@, l, None)]

RegisterReadStage(s) ==
  LET after[k \in 0..Lanes] == IF k = 0 THEN s ELSE RegisterRead(after[k - 1], k - 1)
  IN after[Lanes]

\* select_and_issue() at one entry: the first free lane of those it may use.
Select(s, i) ==
  LET e == s.iq.q[i]
      free == {l \in e.lanes : s.rr[l] = None}
  IN IF e.valid /\ e.waits = {} /\ free # {}
     THEN LET l == CHOOSE m \in free : \A n \in free : m <= n
          IN [s EXCEPT !.rr = Put(@, l, e.tag), !.iq = RemoveEntry(@, i)]
     ELSE s

Schedule(s) ==
  LET scan == ScanOrder(s.iq)
      picked[k \in 0..Len(scan)] == IF k = 0 THEN s ELSE Select(picked[k - 1], scan[k])
  IN [picked[Len(scan)] EXCEPT !.iq.part_next = NextPartition(s.iq)]

\* steer(): the next lane in turn that has the unit.
Steered(s, fu) ==
  LET turn == [k \in 1..Lanes |-> (s.ptr[fu] + k) % Lanes]
  IN turn[CHOOSE k \in 1..Lanes : /\ turn[k] \in FULanes[fu]
                                  /\ \A j \in 1..k-1 : turn[j] \notin FULanes[fu]]

MayDispatch(s) == s.iq.fl_length >= 1 /\ Len(s.al) < ActiveSize

\* mutant: the ready bits are those from before this cycle's broadcasts.
ReadyAtDispatchOld(s, srcs) == srcs \cap ready

ReadyAtDispatch(s, srcs) == srcs \cap s.ready

Dispatch(s, tag, op, srcs) ==
  LET lane == Steered(s, op.fu)
      waits == srcs \ ReadyAtDispatch(s, srcs)
      lanes == IF options.presteer THEN {lane} ELSE FULanes[op.fu]
      dest == IF op.dest THEN {tag} ELSE {}
  IN [s EXCEPT !.iq = InsertEntry(@, tag, waits, lanes),
               !.ptr = IF options.presteer THEN Put(@, op.fu, lane) ELSE @,
               !.ready = @ \ dest, !.written = @ \ dest,
               !.al = Append(@, [tag |-> tag, op |-> op, srcs |-> srcs, completed |-> FALSE])]
-----------------------------------------------------------------------------
Init ==
  /\ iq = EmptyIQ
  /\ rr = [l \in LaneIDs |-> None] /\ wb = [l \in LaneIDs |-> None]
  /\ ex = [l \in LaneIDs |-> [d \in 1..Depth[l] |-> None]]
  /\ ready = Tags /\ written = Tags
  /\ stalled = {} /\ al = <<>>
  /\ fu_lane_ptr = [fu \in FUs |-> 0]
  /\ cycle = 0 /\ options \in Options

Becomes(s) ==
  /\ iq' = s.iq /\ rr' = s.rr /\ ex' = s.ex /\ wb' = s.wb
  /\ ready' = s.ready /\ written' = s.written /\ stalled' = s.stalled
  /\ al' = s.al /\ fu_lane_ptr' = s.ptr
  /\ UNCHANGED options

Branches == {t \in TagsOf(core) : InsnOf(core, t).op.branch}
LastOf(l) == ex[l][Depth[l]]

\* The cycle up to schedule(): which branches were wrong, which load the
\* replay finishes and which loads hit is decided elsewhere.
CycleWith(mispredicted, replay, hits) ==
  Schedule(RegisterReadStage(ExecuteStage(hits,
    LoadReplay(WritebackStage(mispredicted, core), replay))))

\* At most MaxSources sources are enough for every ready bit to matter.
MaxSources == 2

Cycle(replay) ==
  /\ \E mispredicted \in SUBSET (Branches \cap {wb[l] : l \in LaneIDs}),
        hits \in SUBSET {LastOf(l) : l \in {m \in LaneIDs : LastOf(m) # None
                                                   /\ IsLoad(InsnOf(core, LastOf(m)))}} :
       LET s == CycleWith(mispredicted, replay, hits)
       IN \/ Becomes(s)
          \/ /\ MayDispatch(s)
             /\ \E op \in Ops, srcs \in SUBSET Sources(s) :
                  LET tag == CHOOSE t \in FreeTags(s) \ srcs :
                               \A u \in FreeTags(s) \ srcs : t <= u
                  IN /\ Cardinality(srcs) <= MaxSources
                     /\ FreeTags(s) \ srcs # {}
                     /\ Becomes(Dispatch(s, tag, op, srcs))
  /\ cycle' = 1 - cycle

\* retire() of the head, or of the head with a full squash.
Retire ==
  /\ al # <<>> /\ al[1].completed
  /\ al' = Tail(al)
  /\ UNCHANGED <<iq, rr, ex, wb, ready, written, stalled, fu_lane_ptr, cycle, options>>

SquashComplete ==
  /\ al # <<>> /\ al[1].completed
  /\ Becomes([core EXCEPT
       !.iq = [EmptyIQ EXCEPT !.part_next = iq.part_next],
       !.rr = [l \in LaneIDs |-> None], !.wb = [l \in LaneIDs |-> None],
       !.ex = [l \in LaneIDs |-> [d \in 1..Depth[l] |-> None]],
       !.stalled = {}, !.al = <<>>])
  /\ UNCHANGED cycle

Next == (\E replay \in stalled \cup {None} : Cycle(replay)) \/ Retire \/ SquashComplete

\* Cycles go on for ever, a load stalled at the head is unstalled in the end
\* (no older store is left, and the miss is served: module LSU),
\* and a head that has completed retires.
Spec ==
  /\ Init /\ [][Next]_vars
  /\ []<>(cycle = 0) /\ []<>(cycle = 1)
  /\ []<>(al = <<>> \/ al[1].tag \notin stalled)
  /\ WF_vars(Retire)
-----------------------------------------------------------------------------
Pipe(l) == [k \in 1..Depth[l]+2 |-> IF k = 1 THEN rr[l]
                                    ELSE IF k = Depth[l] + 2 THEN wb[l] ELSE ex[l][k - 1]]
InLanes == (UNION {{Pipe(l)[k] : k \in DOMAIN Pipe(l)} : l \in LaneIDs}) \ {None}
Waiting == {iq.q[i].tag : i \in {j \in Slots : iq.q[j].valid}}
FreeEntries == [k \in 1..iq.fl_length |-> iq.fl[(iq.fl_head + k - 1) % IQSize]]
InAL(tag) == Position(core, tag)

\* The types of the registers of the queue and the lanes.
TypeOK ==
  /\ iq \in [q : [Slots -> [valid : BOOLEAN, tag : Tags \cup {None}, waits : SUBSET Tags,
                            lanes : SUBSET LaneIDs, prev : Slots \cup {None},
                            next : Slots \cup {None}]],
             fl : [Slots -> Slots], fl_head : Slots, fl_tail : Slots,
             fl_length : 0..IQSize, oldest : Slots \cup {None},
             youngest : Slots \cup {None}, part_next : Slots]
  /\ rr \in [LaneIDs -> Tags \cup {None}] /\ wb \in [LaneIDs -> Tags \cup {None}]
  /\ \A l \in LaneIDs : ex[l] \in [1..Depth[l] -> Tags \cup {None}]
  /\ ready \subseteq Tags /\ written \subseteq Tags /\ stalled \subseteq Tags
  /\ al \in Seq([tag : Tags, op : Ops, srcs : SUBSET Tags, completed : BOOLEAN])
  /\ fu_lane_ptr \in [FUs -> LaneIDs]

\* The free list of the queue holds each invalid entry once and the age list
\* the valid ones in program order, whatever was issued or squashed out of the
\* middle: the asserts of dispatch(), remove() and select_and_issue().
QueueExact ==
  LET order == AgeOrder(iq)
  IN /\ TypeOK
     /\ {FreeEntries[k] : k \in DOMAIN FreeEntries} = {i \in Slots : ~iq.q[i].valid}
     /\ Len(FreeEntries) = Cardinality({i \in Slots : ~iq.q[i].valid})
     /\ {order[k] : k \in DOMAIN order} = {i \in Slots : iq.q[i].valid}
     /\ \A j, k \in DOMAIN order : j < k => InAL(iq.q[order[j]].tag) < InAL(iq.q[order[k]].tag)
     /\ order # <<>> => Last(order) = iq.youngest

\* An instruction that has not completed is in one place: an entry, a pipeline
\* register of one lane or the Load Queue, also after any squash.
OnePlaceEach ==
  /\ \A k \in DOMAIN al :
       LET t == al[k].tag
           places == Cardinality({i \in Slots : iq.q[i].valid /\ iq.q[i].tag = t})
                     + Cardinality({p \in LaneIDs \X (1..18) : /\ p[2] \in DOMAIN Pipe(p[1])
                                                               /\ Pipe(p[1])[p[2]] = t})
                     + (IF t \in stalled THEN 1 ELSE 0)
       IN places = IF al[k].completed THEN 0 ELSE 1
  /\ Waiting \cup InLanes \cup stalled \subseteq TagsOf(core)

\* Each producer wakes its dependents once: its ready bit is off until the
\* stage that broadcasts (register read, the last but one sub-stage, the hit or
\* the replay of a load) and on from then, and an entry waits for exactly the
\* sources that are not ready, so the assert of wakeup() holds and no entry
\* waits for a broadcast that is over.
WakeupExact ==
  /\ \A k \in DOMAIN al : HasDest(al[k]) =>
       LET t == al[k].tag
           before == \/ t \in Waiting \cup stalled
                     \/ \E l \in LaneIDs : \/ rr[l] = t
                                           \/ \E d \in 1..Depth[l] : /\ ex[l][d] = t
                                                                     /\ IsLoad(al[k]) \/ d < Depth[l]
       IN t \in ready <=> ~before
  /\ \A i \in Slots : iq.q[i].valid =>
       iq.q[i].waits = InsnOf(core, iq.q[i].tag).srcs \ ready

\* An instruction that is about to read registers finds each source written, or
\* in the last sub-stage of its producer, which writes it earlier in the cycle:
\* dependents are woken a stage ahead of the value and never more.
ValueInTime ==
  \A l \in LaneIDs : rr[l] # None =>
    \A t \in InsnOf(core, rr[l]).srcs :
      t \in written \/ \E m \in LaneIDs : ex[m][Depth[m]] = t /\ ~IsLoad(InsnOf(core, t))

\* The head of the Active List completes: no instruction waits for ever for a
\* wakeup, for its turn in the scan, or for a lane that younger ones keep.
HeadCompletes == []<>(al = <<>> \/ al[1].completed)
=============================================================================
