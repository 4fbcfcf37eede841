--------------------------- MODULE BranchPredictor ---------------------------
(***************************************************************************)
(* bpred_interface: the queue cti_Q of predictions in flight, the history  *)
(* and the return address stack that are read speculatively out of it, the *)
(* direction table and the BTB.  The pipeline predicts in fetch            *)
(* (get_pred), repairs in writeback (fix_pred), trains in retire           *)
(* (verify_pred) and forgets at a full squash (flush); it keeps the tag of *)
(* each prediction in PAY, which is flight here.                           *)
(***************************************************************************)
EXTENDS Integers, Sequences, SequencesExt

CONSTANTS
  CTIQ_SIZE,     (* entries of cti_Q, a power of two                       *)
  BP_TABLE_SIZE, (* entries of the direction table, a power of two         *)
  BTB_SIZE,      (* entries of the BTB, a power of two                     *)
  HIST_BIT,      (* the highest bit of a history                           *)
  HistoryLow,    (* the lowest bit of HIST_MASK                            *)
  PCSpan,        (* PC_MASK + 1                                            *)
  Kind,          (* the kind of control transfer at each PC                *)
  Target,        (* the target of a direct one                             *)
  Landings,      (* where an indirect one may lead                         *)
  MaxInFlight,   (* what the pipeline holds at most                        *)
  MaxDepth       (* bound: calls nested on a path, the wrong ones included *)

CTIs == DOMAIN Kind
Kinds == {"cond", "jump", "call", "jumpr", "callr", "return"}
IncrementPC(p) == p + 1
Addresses == {0} \cup CTIs \cup {IncrementPC(p) : p \in CTIs} \cup Landings
             \cup {Target[p] : p \in CTIs}

Bits == {2^n : n \in 0..16}

ASSUME BranchPredictorAssumption ==
  /\ {MaxInFlight, MaxDepth} \subseteq Nat
  /\ {CTIQ_SIZE, BP_TABLE_SIZE, BTB_SIZE, HIST_BIT, HistoryLow, PCSpan} \subseteq Bits
  /\ CTIs \subseteq Nat \ {0} /\ Kind \in [CTIs -> Kinds]
  /\ Target \in [CTIs -> Nat] /\ Landings \subseteq Nat
  /\ \A p \in CTIs : Kind[p] = "cond" => Target[p] # p + 1
  /\ MaxInFlight < CTIQ_SIZE

VARIABLES
  cti_Q, cti_head, cti_tail,
  RAS,           (* the committed return addresses, the newest first       *)
  pred_table, BTB,
  flight,        (* the predictions of instructions in flight              *)
  history        (* of the committed conditional branches (for properties) *)

vars == <<cti_Q, cti_head, cti_tail, RAS, pred_table, BTB, flight, history>>
-----------------------------------------------------------------------------
(* Indices and automata.                                                   *)

Wrap(i) == i % CTIQ_SIZE
Unknown == -1

Shift(h, taken) == h \div 2 + IF taken THEN HIST_BIT ELSE 0

\* The exclusive or of history and PC under HIST_MASK, PC_MASK and BP_INDEX_MASK.
IsSet(n, bit) == (n \div bit) % 2 = 1
TableIndex(h, p) ==
  SumSet({bit \in Bits : /\ bit < BP_TABLE_SIZE
                         /\ (bit >= HistoryLow /\ IsSet(h, bit)) # IsSet(p % PCSpan, bit)})
BTBIndex(p) == p % BTB_SIZE

\* BpredPredictAutomaton::update().
Automaton(a, outcome) ==
  IF outcome = a.pred THEN [a EXCEPT !.hyst = TRUE]
  ELSE IF a.hyst THEN [a EXCEPT !.hyst = FALSE]
  ELSE [a EXCEPT !.pred = outcome]

IsCond(e) == e.kind = "cond"
IsCall(e) == e.kind \in {"call", "callr"}
IsReturn(e) == e.kind = "return"
UseBTB(e) == e.kind \in {"jumpr", "callr"}
-----------------------------------------------------------------------------
(* The return address stack.                                               *)

NoAddress == 0
NotFound == [found |-> FALSE, address |-> NoAddress]
Found(a) == [found |-> TRUE, address |-> a]

\* The places of cti_Q from the youngest before t down to the head.
Older(t) == [k \in 1..Wrap(t - cti_head) |-> Wrap(t - k)]

\* The sum of RAS_action over the k youngest, pushes less pops.
Count(t, k) ==
  LET Those(action) == {j \in 1..k : cti_Q[Older(t)[j]].RAS_action = action}
  IN Cardinality(Those(1)) - Cardinality(Those(-1))

\* Where in the committed stack, after the pops of the queue.
CommittedPlaceTop(count) == 1                    \* mutant: the pops in flight do not count
CommittedPlace(count) == 1 - count

\* RAS_lookup() with cti_tail at t: the first call that no return between has
\* popped, in the queue or then in the committed stack.
RAS_lookup(t) ==
  LET older == Older(t)
      stops == {k \in DOMAIN older : cti_Q[older[k]].flush_RAS \/ Count(t, k) = 1}
  IN IF stops # {}
     THEN LET k == Min(stops)
          IN IF cti_Q[older[k]].flush_RAS THEN NotFound
             ELSE Found(cti_Q[older[k]].RAS_address)
     ELSE LET n == CommittedPlace(Count(t, Len(older)))
          IN IF n <= Len(RAS) THEN Found(RAS[n]) ELSE NotFound

\* RAS_update() for an entry that retires.
UpdatedRASNoPush(stack, e) ==                    \* mutant: calls are not pushed
  CASE e.flush_RAS -> <<>>
    [] ~e.flush_RAS /\ e.RAS_action = -1 -> Tail(stack)
    [] OTHER -> stack
UpdatedRAS(stack, e) ==
  CASE e.flush_RAS -> <<>>
    [] ~e.flush_RAS /\ e.RAS_action = -1 -> Tail(stack)
    [] ~e.flush_RAS /\ e.RAS_action = 1 -> <<e.RAS_address>> \o stack
    [] OTHER -> stack
-----------------------------------------------------------------------------
(* Predictions.                                                            *)

NoEntry == [kind |-> "jump", pc |-> 0, target |-> 0, original_pred |-> 0,
            taken |-> FALSE, history |-> 0, RAS_action |-> 0, RAS_address |-> 0,
            flush_RAS |-> FALSE, state |-> 0]

\* decode() and make_predictions() for the instruction at p, at the tail.
Predicted(p) ==
  LET e == [NoEntry EXCEPT !.kind = Kind[p], !.pc = p, !.state = 1,
                           !.history = cti_Q[cti_tail].history]
      taken == ~IsCond(e) \/ pred_table[TableIndex(e.history, p)].pred
      ras == RAS_lookup(cti_tail)
      target == CASE IsReturn(e) -> ras.address
                  [] ~IsReturn(e) /\ taken /\ UseBTB(e) -> BTB[BTBIndex(p)].pred
                  [] ~IsReturn(e) /\ taken /\ ~UseBTB(e) -> Target[p]
                  [] OTHER -> IncrementPC(p)
  IN [e EXCEPT !.taken = taken, !.target = target, !.original_pred = target,
               !.RAS_action = IF IsCall(e) THEN 1
                              ELSE IF IsReturn(e) /\ ras.found THEN -1 ELSE 0,
               !.RAS_address = IF IsCall(e) THEN IncrementPC(p)
                               ELSE IF IsReturn(e) THEN ras.address ELSE NoAddress]

EnteredInPlace(t, e) ==                          \* mutant: the entry's own history moves
  LET h == IF IsCond(e) THEN Shift(e.history, e.taken) ELSE e.history
  IN [cti_Q EXCEPT ![t] = [e EXCEPT !.history = h], ![Wrap(t + 1)].history = h]
\* update(): entry e goes to t, the history to the place after it.
Entered(t, e) ==
  [cti_Q EXCEPT ![t] = e,
                ![Wrap(t + 1)].history = IF IsCond(e) THEN Shift(e.history, e.taken)
                                         ELSE e.history]

TailAfterFixSame(t) == t                         \* mutant: update() is left out
TailAfterFix(t) == Wrap(t + 1)

TakenKept(e, next_pc) == e.taken                 \* mutant: the outcome is not noted
TakenFixed(e, next_pc) == IF IsCond(e) THEN next_pc # IncrementPC(e.pc) ELSE e.taken

\* What fix_pred() makes of entry e at t when the instruction leads to next_pc.
Fixed(t, e, next_pc) ==
  LET ras == RAS_lookup(t)
      right == ras.found /\ ras.address = next_pc
      f == [e EXCEPT !.target = next_pc,
                     !.taken = TakenFixed(e, next_pc)]
  IN IF ~IsReturn(e) THEN f
     ELSE [f EXCEPT !.RAS_action = IF right THEN -1 ELSE 0,
                    !.RAS_address = IF right THEN next_pc ELSE @,
                    !.flush_RAS = ~right]
-----------------------------------------------------------------------------
Init ==
  /\ cti_Q = [i \in 0..CTIQ_SIZE-1 |-> NoEntry]
  /\ cti_head = 0 /\ cti_tail = 0
  /\ RAS = <<>>
  /\ pred_table = [i \in 0..BP_TABLE_SIZE-1 |-> [pred |-> TRUE, hyst |-> FALSE]]
  /\ BTB = [i \in 0..BTB_SIZE-1 |-> [pred |-> 0, hyst |-> FALSE]]
  /\ flight = <<>> /\ history = 0

\* Calls on the path so far, as if every one were still open.
Depth == Len(RAS) + Len(SelectSeq(flight, LAMBDA f : Kind[f.pc] \in {"call", "callr"}))

\* fetch() of the control transfer at p.
GetPred(p) ==
  /\ Len(flight) < MaxInFlight
  /\ Kind[p] \in {"call", "callr"} => Depth < MaxDepth
  /\ LET e == Predicted(p)
     IN /\ cti_Q' = Entered(cti_tail, e)
        /\ flight' = Append(flight, [tag |-> cti_tail, pc |-> p, next_pc |-> e.target,
                                     c_next_pc |-> Unknown,
                                     index |-> TableIndex(e.history, p)])
  /\ cti_tail' = Wrap(cti_tail + 1)
  /\ UNCHANGED <<cti_head, RAS, pred_table, BTB, history>>

\* Where the instruction at p may lead.
Outcomes(p) ==
  CASE Kind[p] = "cond" -> {Target[p], IncrementPC(p)}
    [] Kind[p] \in {"jump", "call"} -> {Target[p]}
    [] OTHER -> Landings

Unresolved(i) == i <= Len(flight) /\ flight[i].c_next_pc = Unknown

ResolveCorrect(i) ==
  /\ Unresolved(i)
  /\ flight[i].next_pc \in Outcomes(flight[i].pc)
  /\ flight' = [flight EXCEPT ![i].c_next_pc = flight[i].next_pc]
  /\ UNCHANGED <<cti_Q, cti_head, cti_tail, RAS, pred_table, BTB, history>>

\* writeback() of a mispredicted branch: fix_pred().
FixPred(i) ==
  /\ Unresolved(i)
  /\ \E c_next_pc \in Outcomes(flight[i].pc) \ {flight[i].next_pc} :
       LET t == flight[i].tag
       IN /\ cti_Q' = Entered(t, Fixed(t, cti_Q[t], c_next_pc))
          /\ cti_tail' = TailAfterFix(t)
          /\ flight' = [SubSeq(flight, 1, i) EXCEPT ![i].c_next_pc = c_next_pc]
  /\ UNCHANGED <<cti_head, RAS, pred_table, BTB, history>>

\* update_predictions() for the head.
TrainedTable(e) ==
  IF IsCond(e) THEN [pred_table EXCEPT ![TableIndex(e.history, e.pc)] = Automaton(@, e.taken)]
  ELSE pred_table
TrainedBTB(e) ==
  IF UseBTB(e) THEN [BTB EXCEPT ![BTBIndex(e.pc)] = Automaton(@, e.target)] ELSE BTB

Cleared(e) == [NoEntry EXCEPT !.history = e.history]

\* retire() of the oldest one: verify_pred().
VerifyPred ==
  /\ flight # <<>> /\ flight[1].c_next_pc # Unknown
  /\ LET e == cti_Q[cti_head]
     IN /\ pred_table' = TrainedTable(e)
        /\ BTB' = TrainedBTB(e)
        /\ RAS' = UpdatedRAS(RAS, e)
        /\ cti_Q' = [cti_Q EXCEPT ![cti_head] = Cleared(e)]
        /\ history' = IF Kind[flight[1].pc] = "cond"
                      THEN Shift(history, flight[1].c_next_pc # IncrementPC(flight[1].pc))
                      ELSE history
  /\ cti_head' = Wrap(cti_head + 1)
  /\ flight' = Tail(flight)
  /\ UNCHANGED cti_tail

\* squash_complete(): flush().
Flush ==
  /\ flight # <<>>
  /\ cti_tail' = cti_head
  /\ flight' = <<>>
  /\ UNCHANGED <<cti_Q, cti_head, RAS, pred_table, BTB, history>>

Next ==
  \/ \E p \in CTIs : GetPred(p)
  \/ \E i \in 1..MaxInFlight : ResolveCorrect(i) \/ FixPred(i)
  \/ VerifyPred
  \/ Flush

Spec == Init /\ [][Next]_vars
-----------------------------------------------------------------------------
(* Properties                                                              *)

\* Every variable stays in its domain.
TypeOK ==
  /\ cti_head \in 0..CTIQ_SIZE-1 /\ cti_tail \in 0..CTIQ_SIZE-1
  /\ \A i \in 0..CTIQ_SIZE-1 :
       /\ cti_Q[i].kind \in Kinds /\ cti_Q[i].RAS_action \in -1..1
       /\ {cti_Q[i].pc, cti_Q[i].target, cti_Q[i].RAS_address} \subseteq Addresses
       /\ cti_Q[i].history \in 0..2*HIST_BIT-1
  /\ \A i \in 0..BP_TABLE_SIZE-1 : pred_table[i] \in [pred : BOOLEAN, hyst : BOOLEAN]
  /\ \A i \in 0..BTB_SIZE-1 : BTB[i] \in [pred : Addresses, hyst : BOOLEAN]

\* Types; cti_Q from its head holds exactly the predictions in flight, each at its
\* tag: no prediction is overwritten before it is verified, after any number
\* of repairs and flushes (the queue has no test for being full).
QueueExact ==
  /\ TypeOK
  /\ Wrap(cti_tail - cti_head) = Len(flight)
  /\ \A i \in DOMAIN flight :
       LET e == cti_Q[flight[i].tag]
       IN /\ flight[i].tag = Wrap(cti_head + i - 1)
          /\ e.pc = flight[i].pc /\ e.state = 1
          /\ e.original_pred = flight[i].next_pc
          /\ e.target = IF flight[i].c_next_pc = Unknown THEN flight[i].next_pc
                                                         ELSE flight[i].c_next_pc

\* The histories that the queue holds are those of the path: the head's is that of
\* the conditional branches that retired, and each next one's, up to that of the
\* next prediction, has the outcome of one more or, while that is unknown, its
\* prediction.
HistoryExact ==
  LET Leads(f) == IF f.c_next_pc = Unknown THEN f.next_pc ELSE f.c_next_pc
      Step(h, f) == IF Kind[f.pc] = "cond" THEN Shift(h, Leads(f) # IncrementPC(f.pc)) ELSE h
      History(i) == cti_Q[Wrap(cti_head + i)].history
  IN /\ History(0) = history
     /\ \A i \in DOMAIN flight : History(i) = Step(History(i - 1), flight[i])

\* The stack as the first i predictions in flight, one after the other, leave it.
Stacks[i \in 0..Len(flight)] ==
  IF i = 0 THEN RAS ELSE UpdatedRAS(Stacks[i - 1], cti_Q[flight[i].tag])

\* What RAS_lookup() finds from the tail, or from an entry that is repaired,
\* through the queue and the committed stack is the top of the stack that the
\* older predictions would leave.
LookupIsTopOfStack ==
  \A i \in 0..Len(flight) :
    RAS_lookup(Wrap(cti_head + i)) =
      IF Stacks[i] = <<>> THEN NotFound ELSE Found(Stacks[i][1])

\* A conditional branch trains the entry of the table that predicted it.
TrainsWhatPredicted ==
  \A i \in DOMAIN flight :
    LET e == cti_Q[flight[i].tag] IN TableIndex(e.history, e.pc) = flight[i].index

\* The assertions of verify_pred() and RAS_update() for the oldest.
VerifyAssertions ==
  flight # <<>> /\ flight[1].c_next_pc # Unknown =>
    LET e == cti_Q[cti_head]
    IN /\ flight[1].tag = cti_head
       /\ e.state = 1
       /\ e.target = flight[1].c_next_pc
       /\ e.RAS_action = -1 /\ ~e.flush_RAS => RAS # <<>> /\ RAS[1] = e.RAS_address
=============================================================================
