------------------------------ MODULE InOrder ------------------------------
(***************************************************************************)
(* What the out-of-order core promises its program: a machine that holds a *)
(* window of fetched instructions and executes each of them, in one step   *)
(* and in program order, as it leaves the window.  Nothing of the          *)
(* mechanism (physical registers, free list, checkpoints, ready bits) is   *)
(* visible here.  Renamer.tla is shown to implement this specification.    *)
(***************************************************************************)
EXTENDS Integers, Sequences

CONSTANTS
  Insn,            (* the instructions of a program                         *)
  Regs,            (* the logical registers                                 *)
  HasDest(_),      (* does the instruction write a register?                *)
  MayRedirect(_),  (* can the instruction turn out mispredicted?            *)
  Serializes(_),   (* is everything after it fetched again?                 *)
  Op(_)            (* the function an instruction computes of its source    *)

VARIABLES
  regs,            (* committed value of each logical register              *)
  window           (* instructions fetched and not yet committed, in order  *)

vars == <<regs, window>>

Init ==
  /\ regs = [r \in Regs |-> 0]
  /\ window = <<>>

Fetch(i) ==
  /\ window' = Append(window, i)
  /\ UNCHANGED regs

(* Executing the instruction i against the committed registers.            *)
Effect(i) ==
  IF HasDest(i) THEN [regs EXCEPT ![i.dst] = Op(regs[i.src])] ELSE regs

(* The oldest instruction takes effect and leaves the window; everything   *)
(* younger goes with it if the instruction serializes the machine.         *)
Commit ==
  /\ window # <<>>
  /\ regs' = Effect(Head(window))
  /\ window' = IF Serializes(Head(window)) THEN <<>> ELSE Tail(window)

(* A mispredicted branch keeps its place; what was fetched after it goes.  *)
Redirect(k) ==
  /\ MayRedirect(window[k])
  /\ window' = SubSeq(window, 1, k)
  /\ UNCHANGED regs

(* A trap or a replayed load at the head: nothing of the window happened.  *)
Flush ==
  /\ window # <<>>
  /\ window' = <<>>
  /\ UNCHANGED regs

Next ==
  \/ \E i \in Insn : Fetch(i)
  \/ Commit
  \/ \E k \in 1..Len(window) : Redirect(k)
  \/ Flush

Spec == Init /\ [][Next]_vars
=============================================================================
