------------------------------ MODULE MCCache ------------------------------
(* Instances of Cache for TLC.                                             *)
EXTENDS Cache

Each(dc, ic, l2) == [c \in Caches |-> CASE c = "dc" -> dc [] c = "ic" -> ic [] OTHER -> l2]
One == Each(1, 1, 1)

MCAssoc == Each(2, 1, 1)
MCMHSRs == Each(1, 1, 2)
SharedMHSRs == Each(2, 1, 2)

(* Only how far a cycle lies ahead matters, and no cycle that has passed (a *)
(* state with a register out of place has a view of its own).               *)
Ahead(t) == IF t < cycle THEN 0 ELSE t - cycle + 1
Register(m) == IF m.busy THEN <<m.line, Ahead(m.resolved)>> ELSE <<>>
RelativeView ==
  <<[c \in Caches |->
       <<caches[c].sets, [i \in 1..NumMHSR[c] |-> Register(caches[c].mhsr[i])],
         [i \in 1..NumPorts[c] |-> Ahead(caches[c].ports[i])]>>], rejected, MHSRsExact>>
=============================================================================
