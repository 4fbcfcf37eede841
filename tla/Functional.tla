----------------------------- MODULE Functional -----------------------------
(* The machine that the core has to be: it executes its program one        *)
(* instruction at a time, and after every Interleave of them the host gets *)
(* one turn.                                                               *)
EXTENDS Hart

CONSTANT Programs   (* sequences of instructions *)

VARIABLES
  program,   (* the one that runs                                          *)
  machine    (* [hart, host, step]: step counts instructions since a tick  *)

Boot == [hart |-> Reset, host |-> HostAtBoot, step |-> 0]

\* sim_t::step(): after instret instructions, is it time for a tick?
Interleaved(m, instret) ==
  LET ticked == Tick(m.hart, m.host)
  IN IF m.step + instret = Interleave
     THEN [m EXCEPT !.hart = ticked.hart, !.host = ticked.host, !.step = 0]
     ELSE [m EXCEPT !.step = @ + instret]

Stepped(m) ==
  LET hart == UpdateTimer(Executed(m.hart, Fetched(program, m.hart.pc), m.hart.mem))
  IN Interleaved([m EXCEPT !.hart = hart], 1)

Init == program \in Programs /\ machine = Boot

Step ==
  /\ machine.hart.run
  /\ machine' = Stepped(machine)
  /\ UNCHANGED program

Spec == Init /\ [][Step]_<<program, machine>>
=============================================================================
