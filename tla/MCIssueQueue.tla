---------------------------- MODULE MCIssueQueue ----------------------------
(* Instances of IssueQueue for TLC.                                        *)
EXTENDS IssueQueue

\* A lane of one sub-stage and a lane of two; branches and jumps with a link in
\* either, loads in the deep one.
MCDepth == [l \in 0..1 |-> l + 1]
MCFULanes == [fu \in {"alu", "mem"} |-> IF fu = "alu" THEN {0, 1} ELSE {1}]
Load == [fu |-> "mem", load |-> TRUE, dest |-> TRUE, branch |-> FALSE]
Branch == [fu |-> "alu", load |-> FALSE, dest |-> FALSE, branch |-> TRUE]
\* JAL and JALR; one that goes where predicted is to the queue what an ALU operation is.
Link == [fu |-> "alu", load |-> FALSE, dest |-> TRUE, branch |-> TRUE]
MCOps == {Load, Branch, Link}
MCOptions == {[presteer |-> b, age |-> ~b] : b \in BOOLEAN}

(* What decides the future of a state: a tag is known by its place in the  *)
(* Active List, sources matter until they are read, an operation until the *)
(* instruction completes, a slot by its distance to the partition whose    *)
(* turn it is (partitions of one entry), and not at all in age order.  A    *)
(* state in which the lists of the queue are broken has a view of its own. *)
Place(t) == IF t = None \/ t \notin TagsOf(core) THEN 0 ELSE InAL(t)
Places(ts) == {Place(t) : t \in ts} \ {0}
ToRead == Waiting \cup {rr[l] : l \in LaneIDs}
Insns ==
  [k \in DOMAIN al |-> IF al[k].completed THEN <<HasDest(al[k])>>
                       ELSE <<al[k].op, IF al[k].tag \in ToRead THEN Places(al[k].srcs) ELSE {}>>]
Entry(i) == <<Place(iq.q[i].tag), Places(iq.q[i].waits), iq.q[i].lanes>>
Entries ==
  LET order == AgeOrder(iq)
      Turn(i) == (i + IQSize - iq.part_next) % IQSize
  IN IF options.age THEN <<[k \in DOMAIN order |-> Entry(order[k])]>>
     ELSE <<[i \in Slots |-> Entry((i + iq.part_next) % IQSize)],
            [k \in DOMAIN order |-> Turn(order[k])],
            [k \in DOMAIN FreeEntries |-> Turn(FreeEntries[k])]>>
StageView ==
  <<vars = vars, (* TLC evaluates the functions of the state here           *)
    Insns, Entries, [l \in LaneIDs |-> [d \in DOMAIN Pipe(l) |-> Place(Pipe(l)[d])]],
    Places(ready \cap Sources(core)), Places(written \cap Sources(core)), Places(stalled), fu_lane_ptr,
    cycle, options, QueueExact>>
=============================================================================
