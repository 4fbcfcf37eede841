------------------------------ MODULE Lockstep ------------------------------
(***************************************************************************)
(* The two simulators of a run: the functional one (isa), which runs ahead *)
(* and fills the debug buffer, and the core (micro), which retires in      *)
(* bundles, has cycles in which nothing retires, and is checked against    *)
(* the debug buffer.  Each has a host of its own, and each must give it    *)
(* its turn after the same instructions: sim_t::step(), step_micro(),      *)
(* debug_buffer_t::pop(), checker().                                       *)
(*                                                                         *)
(* What happens before retirement is module Renamer, LSU and FrontEnd:     *)
(* here the core retires the instruction at its PC, except that a load may *)
(* have read memory before a tick that came while it was in flight.        *)
(***************************************************************************)
EXTENDS Hart

CONSTANTS
  Programs,     (* sequences of instructions                               *)
  RetireWidth,  (* RETIRE_WIDTH                                            *)
  DebugSize,    (* entries of the debug buffer                             *)
  MaxIdle       (* bound: cycles in a row in which nothing retires         *)

ASSUME LockstepAssumption ==
  /\ Programs \subseteq Seq(Insn)
  /\ RetireWidth \in Nat \ {0} /\ DebugSize \in Nat \ {0} /\ MaxIdle \in Nat

VARIABLES
  program,   (* the program, which does not change                         *)
  isa,       (* the functional simulator: a Simulator                      *)
  db,        (* the debug buffer from its head                             *)
  micro,     (* the core: a Simulator                                      *)
  at,        (* where the run is                                           *)
  call,      (* step_micro(): the limit n, instret, and the retire lane    *)
  seen       (* what a load in flight may have read                        *)

vars == <<program, isa, db, micro, at, call, seen>>

Simulator == [hart : HartState, host : Host, step : Nat, idle : Nat]
Boot == [hart |-> Reset, host |-> HostAtBoot, step |-> 0, idle |-> 0]
NoCall == [n |-> 0, instret |-> 0, lane |-> 0]
-----------------------------------------------------------------------------
(* sim_t::step(), with what a step retired.                                *)

IdleAfterRunning(s, instret) ==    \* mutant: only a running core has idle cycles
  IF instret > 0 \/ ~s.hart.run THEN 0 ELSE s.idle + 1
IdleAfter(s, instret) == IF instret > 0 THEN 0 ELSE s.idle + 1

TickDue(s, instret) ==
  s.step + instret = Interleave \/ IdleAfter(s, instret) = Interleave

Accounted(s, instret) ==
  IF TickDue(s, instret)
  THEN LET ticked == Tick(s.hart, s.host)
       IN [hart |-> ticked.hart, host |-> ticked.host, step |-> 0, idle |-> 0]
  ELSE [s EXCEPT !.step = @ + instret, !.idle = IdleAfter(s, instret)]
-----------------------------------------------------------------------------
(* The functional simulator.                                               *)

\* What the checker compares: push_instr_actual(), push_state_actual().
Entry(h, h2, insn) ==
  [pc |-> h.pc, x |-> h2.x, sr |-> h2.sr, tohost |-> h2.tohost,
   fromhost |-> h2.fromhost, count |-> h2.count, exception |-> Excepts(h, insn)]

\* step(1): the entry is pushed before the timer is updated.
StepISA ==
  IF isa.hart.run
  THEN LET insn == Fetched(program, isa.hart.pc)
           hart == Executed(isa.hart, insn, isa.hart.mem)
       IN /\ isa' = Accounted([isa EXCEPT !.hart = UpdateTimer(hart)], 1)
          /\ db' = Append(db, Entry(isa.hart, hart, insn))
  ELSE /\ isa' = Accounted(isa, 0)
       /\ UNCHANGED db

\* run_ahead(), before the core starts.
RunAhead ==
  /\ at = "run_ahead"
  /\ StepISA
  /\ at' = IF Len(db') = DebugSize THEN "step" ELSE at
  /\ UNCHANGED <<micro, call, seen>>

\* pop() takes the head after the functional simulator has filled the buffer,
\* which is never more than one short while it runs.
PopActual ==
  IF Len(db) < DebugSize /\ isa.hart.run
  THEN LET insn == Fetched(program, isa.hart.pc)
           hart == Executed(isa.hart, insn, isa.hart.mem)
       IN /\ isa' = Accounted([isa EXCEPT !.hart = UpdateTimer(hart)], 1)
          /\ db' = Tail(Append(db, Entry(isa.hart, hart, insn)))
  ELSE db' = Tail(db) /\ UNCHANGED isa
-----------------------------------------------------------------------------
(* The core.                                                               *)

\* next_timer() | 1
OddTimer == IF NextTimer(micro.hart) % 2 = 0 THEN NextTimer(micro.hart) + 1 ELSE NextTimer(micro.hart)
Limit == IF Interleave - micro.step < OddTimer THEN Interleave - micro.step ELSE OddTimer

\* A core that was stopped returns at once; when HTIF is done as well the run ends.
StepMicro ==
  /\ at = "step"
  /\ IF micro.hart.run
     THEN /\ at' = "cycle" /\ call' = [n |-> Limit, instret |-> 0, lane |-> 0]
          /\ UNCHANGED micro
     ELSE /\ at' = IF TickDue(micro, 0) THEN "finished" ELSE at
          /\ micro' = Accounted(micro, 0)
          /\ UNCHANGED call
  /\ UNCHANGED <<isa, db, seen>>

HeadInsn == Fetched(program, micro.hart.pc)
Loads == IF HeadInsn.op = "lw" THEN seen ELSE {micro.hart.mem}
Retired(loaded) == Executed(micro.hart, HeadInsn, loaded)

\* AMOs, system instructions and traps squash everything behind them.
SquashesBehind ==
  Excepts(micro.hart, HeadInsn) \/ HeadInsn.op \in {"csrr", "csrw", "sret"}

SeenAfterKept == seen \cup {micro.hart.mem}     \* mutant: loads survive the squash
SeenAfter ==
  CASE HeadInsn.op = "sw" -> {micro.hart.x}
    [] SquashesBehind -> {micro.hart.mem}
    [] OTHER -> seen

\* The retire loop halts when it is time for a tick.
MayRetireWidth == call.lane < RetireWidth       \* mutant: only the width limits it
MayRetire == call.lane < RetireWidth /\ call.instret < call.n

Retire ==
  /\ at = "cycle"
  /\ MayRetire
  /\ db # <<>>
  /\ \E loaded \in Loads : micro' = [micro EXCEPT !.hart = UpdateTimer(Retired(loaded))]
  /\ call' = [call EXCEPT !.instret = @ + 1,
                          !.lane = IF SquashesBehind THEN RetireWidth ELSE @ + 1]
  /\ seen' = SeenAfter
  /\ PopActual
  /\ UNCHANGED at

\* The next cycle of the call: a retire lane is free again.
NextCycle ==
  /\ at = "cycle"
  /\ call.lane > 0 /\ call.instret < call.n
  /\ call' = [call EXCEPT !.lane = 0]
  /\ UNCHANGED <<isa, db, micro, at, seen>>

\* step_micro() returns at its limit, and from a first cycle without retirement.
ReturnFromCall ==
  /\ at = "cycle"
  /\ \/ call.instret >= call.n
     \/ call.instret = 0 /\ micro.idle < MaxIdle
  /\ micro' = Accounted(micro, call.instret)
  /\ seen' = seen \cup {micro'.hart.mem}
  /\ at' = "step" /\ call' = NoCall
  /\ UNCHANGED <<isa, db>>
-----------------------------------------------------------------------------
Init ==
  /\ program \in Programs
  /\ isa = Boot /\ micro = Boot
  /\ db = <<>> /\ at = "run_ahead" /\ call = NoCall /\ seen = {Reset.mem}

Step == RunAhead \/ StepMicro \/ Retire \/ NextCycle \/ ReturnFromCall

\* sim_t::run() ends when HTIF is done.
Finished == at = "finished" /\ UNCHANGED <<isa, db, micro, at, call, seen>>

Next == (Step \/ Finished) /\ UNCHANGED program

\* The loops of the simulator go on; that the head of the core leaves is what
\* module Renamer shows.
Spec == Init /\ [][Next]_vars /\ WF_vars(Next)
-----------------------------------------------------------------------------
(* Properties                                                              *)

\* Every variable stays in its domain.
TypeOK ==
  /\ isa \in Simulator /\ micro \in Simulator
  /\ Len(db) <= DebugSize
  /\ at \in {"run_ahead", "step", "cycle", "finished"}
  /\ call \in [n : 0..Interleave, instret : Nat, lane : 0..RetireWidth]
  /\ seen \subseteq Values

\* Types; the assertions of checker() and pop(): whatever retires next is in the debug
\* buffer, with its PC, its value, its trap and the state it leaves, so that tohost,
\* fromhost, the counter and the pending interrupts agree at every instruction.
RetirementAgrees ==
  /\ TypeOK
  /\ at = "cycle" /\ MayRetire =>
       /\ db # <<>>
       /\ \A loaded \in Loads :
            db[1] = Entry(micro.hart, Retired(loaded), HeadInsn)

\* The core, with its bundles, idle cycles and calls cut short by the timer, is
\* the machine that executes one instruction at a time and gives the host a turn
\* after every Interleave instructions (sim_t::step() and step_micro()).
TicksOf(s) == [hart |-> s.hart, host |-> s.host, step |-> s.step]
Functionally ==
  IF at = "cycle" /\ call.instret > 0
  THEN TicksOf(Accounted(micro, call.instret)) ELSE TicksOf(micro)
F == INSTANCE Functional WITH machine <- Functionally
ImplementsFunctional == F!Spec

\* A program that tells the host to exit ends the run: the stopped core still
\* counts idle cycles, and the tick they lead to finds HTIF done.
ExitStops == (micro.hart.run /\ micro.hart.tohost % 2 = 1) ~> (at = "finished")
=============================================================================
