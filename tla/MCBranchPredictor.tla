------------------------- MODULE MCBranchPredictor --------------------------
(* Instances of BranchPredictor for TLC.                                   *)
EXTENDS BranchPredictor

\* A conditional branch, a direct and an indirect call and a return.
MCKinds == <<"cond", "call", "callr", "return">>
MCKind == [p \in 1..4 |-> MCKinds[p]]
MCTarget == [p \in 1..4 |-> 4]

\* From the head: where in its ring an entry lies does not matter.
QueueView ==
  <<[i \in DOMAIN flight |-> <<cti_Q[Wrap(cti_head + i - 1)], flight[i].pc, flight[i].next_pc,
                               flight[i].c_next_pc, flight[i].index,
                               Wrap(flight[i].tag - cti_head)>>],
    Wrap(cti_tail - cti_head), cti_Q[cti_tail].history, RAS, pred_table, BTB, history>>
=============================================================================
