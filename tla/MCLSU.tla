-------------------------------- MODULE MCLSU --------------------------------
EXTENDS LSU

(* Two states are one if they differ only in what nothing reads: entries   *)
(* outside the queues, why a load that has its value might have stalled,   *)
(* and which of its two values a phase has (phases are only compared).     *)
SeenLoad(l) ==
  [l EXCEPT !.sq_index_phase = @ # SQ.head_phase,
            !.missed = @ /\ ~l.value_avail,
            !.mdp_stall = @ /\ ~l.value_avail]
View ==
  <<[i \in LQSlot |-> IF LQ.buf[i].valid THEN <<SeenLoad(LQ.buf[i])>> ELSE <<>>],
    [i \in SQSlot |-> IF SQ.buf[i].valid THEN <<SQ.buf[i]>> ELSE <<>>],
    <<LQ.head, LQ.tail, LQ.length, LQ.tail_phase # LQ.head_phase>>,
    <<SQ.head, SQ.tail, SQ.length, SQ.tail_phase # SQ.head_phase>>,
    [k \in DOMAIN window |-> [window[k] EXCEPT !.LQ_phase = @ # LQ.head_phase,
                                               !.SQ_phase = @ # SQ.head_phase]],
    mem>>
=============================================================================
