-------------------------------- MODULE Hart --------------------------------
(***************************************************************************)
(* One processor with the host behind it, as a value: what an instruction  *)
(* does to the privileged state (processor.cc), and what a tick of HTIF    *)
(* does to it (htif.cc, fesvr).  The functional simulator and the core     *)
(* have one each.  There is one general register, x, and one word of       *)
(* memory, mem; interrupts stay disabled, as at boot.                      *)
(***************************************************************************)
EXTENDS Integers, Sequences

CONSTANTS
  Width,       (* values and PCs are 0..Width-1                            *)
  Handler,     (* state.evec                                               *)
  Interleave,  (* instructions between two ticks of the host               *)
  MaxPending,  (* bound: replies that wait in the host                     *)
  Result       (* what a proxied system call answers to an argument        *)

Values == 0..Width-1

ASSUME HartAssumption ==
  /\ Width \in Nat \ {0, 1} /\ Handler \in Values
  /\ Interleave \in Nat \ {0} /\ MaxPending \in Nat \ {0}
  /\ Result \in [Values -> Values]

Ops == {"li", "addi", "lw", "sw", "beqz", "j", "scall", "sret", "bad", "csrr", "csrw"}
CSRs == {"none", "tohost", "fromhost", "count", "cycle", "compare", "epc"}
Insn ==
  {i \in [op : Ops, csr : CSRs, v : Values] : i.op \in {"csrr", "csrw"} => i.csr # "none"}

\* Beyond the program no page is mapped.
Unmapped == [op |-> "bad", csr |-> "none", v |-> 0]
Fetched(program, p) == IF p < Len(program) THEN program[p + 1] ELSE Unmapped

\* sr: S and PS say who is privileged and was before the trap, timer and host are
\* the two bits of IP.
StatusRegister == [S : BOOLEAN, PS : BOOLEAN, timer : BOOLEAN, host : BOOLEAN]
HartState ==
  [pc : Values, x : Values, mem : Values, sr : StatusRegister,
   tohost : Values, fromhost : Values, epc : Values, count : Values, compare : Values,
   serialized : BOOLEAN, run : BOOLEAN]

Reset ==
  [pc |-> 0, x |-> 0, mem |-> 0,
   sr |-> [S |-> TRUE, PS |-> FALSE, timer |-> FALSE, host |-> FALSE],
   tohost |-> 0, fromhost |-> 0, epc |-> 0, count |-> 0, compare |-> 0,
   serialized |-> FALSE, run |-> TRUE]
-----------------------------------------------------------------------------
(* Instructions.                                                           *)

IncrementPC(p) == (p + 1) % Width

TakeTrap(h) ==
  [h EXCEPT !.sr.S = TRUE, !.sr.PS = h.sr.S, !.epc = h.pc, !.pc = Handler]

\* validate_csr() and require_supervisor: a user reads the cycle counter, which
\* nobody writes; all else is for the supervisor.
Allowed(h, insn) ==
  /\ insn.op \in {"sret", "csrr", "csrw"} =>
       h.sr.S \/ (insn.op = "csrr" /\ insn.csr = "cycle")
  /\ ~(insn.op = "csrw" /\ insn.csr = "cycle")

Excepts(h, insn) == insn.op \in {"scall", "bad"} \/ ~Allowed(h, insn)

\* serialize() throws every other time it is called: get_pcr() calls it for a
\* counter, set_pcr() for compare.
Serializing(h, insn) ==
  /\ insn.op \in {"csrr", "csrw"} /\ Allowed(h, insn)
  /\ insn.csr \in {"count", "cycle", "compare"}
  /\ ~h.serialized

GetPCR(h, csr) ==
  CASE csr = "tohost" -> h.tohost
    [] csr = "fromhost" -> h.fromhost
    [] csr \in {"count", "cycle"} -> h.count
    [] csr = "compare" -> h.compare
    [] csr = "epc" -> h.epc

SetFromHost(h, v) == [h EXCEPT !.fromhost = v, !.sr.host = (v # 0)]

SetPCR(h, csr, v) ==
  CASE csr = "tohost" -> [h EXCEPT !.tohost = IF @ = 0 THEN v ELSE @]
    [] csr = "fromhost" -> SetFromHost(h, v)
    [] csr = "count" -> [h EXCEPT !.count = v]
    [] csr = "cycle" -> h
    [] csr = "compare" -> [h EXCEPT !.compare = v, !.sr.timer = FALSE]
    [] csr = "epc" -> [h EXCEPT !.epc = v]

\* csrr is csrrs with x0, which writes the old value back.
AccessCSR(h, insn) ==
  LET old == GetPCR(h, insn.csr)
      unlocked == [h EXCEPT !.serialized = FALSE, !.pc = IncrementPC(h.pc)]
  IN IF insn.op = "csrr" THEN [SetPCR(unlocked, insn.csr, old) EXCEPT !.x = old]
     ELSE SetPCR(unlocked, insn.csr, insn.v)

Sret(h) == [h EXCEPT !.sr.S = h.sr.PS, !.pc = h.epc]

Performed(h, insn, loaded) ==
  LET next == [h EXCEPT !.pc = IncrementPC(h.pc)]
  IN CASE insn.op = "li" -> [next EXCEPT !.x = insn.v]
       [] insn.op = "addi" -> [next EXCEPT !.x = (@ + insn.v) % Width]
       [] insn.op = "lw" -> [next EXCEPT !.x = loaded]
       [] insn.op = "sw" -> [next EXCEPT !.mem = h.x]
       [] insn.op = "beqz" -> [h EXCEPT !.pc = IF h.x = 0 THEN insn.v ELSE IncrementPC(h.pc)]
       [] insn.op = "j" -> [h EXCEPT !.pc = insn.v]
       [] insn.op = "sret" -> Sret(h)
       [] insn.op \in {"csrr", "csrw"} -> AccessCSR(h, insn)

\* One instruction; a load finds the value loaded.
Executed(h, insn, loaded) ==
  IF Excepts(h, insn) THEN TakeTrap(h)
  ELSE IF Serializing(h, insn) THEN [h EXCEPT !.serialized = TRUE]
  ELSE Performed(h, insn, loaded)

\* The timer interrupt becomes pending when count reaches compare.
UpdateTimer(h) ==
  [h EXCEPT !.count = (@ + 1) % Width, !.sr.timer = @ \/ h.count + 1 = h.compare]

NextTimer(h) == (Width + h.compare - h.count) % Width
-----------------------------------------------------------------------------
(* The host: it sends one packet and waits for the tick that answers it.   *)

Host == [phase : {"poll", "args", "result", "reply", "stop"}, arg : Values,
         pending : 0..MaxPending, exiting : BOOLEAN]
HostAtBoot == [phase |-> "poll", arg |-> 0, pending |-> 0, exiting |-> FALSE]

\* A command is answered, then the loop of htif_t::run() goes round.
Responded(host) ==
  [host EXCEPT !.phase = "reply", !.pending = IF @ < MaxPending THEN @ + 1 ELSE @]
NextPacket(host) == [host EXCEPT !.phase = IF host.exiting THEN "stop" ELSE "poll"]

\* write_cr(30, 0): an odd value ends the program, an even one is a system call.
Poll(h, host) ==
  [hart |-> [h EXCEPT !.tohost = 0],
   host |-> IF h.tohost % 2 = 1 THEN Responded([host EXCEPT !.exiting = TRUE])
            ELSE IF h.tohost > 0 THEN [host EXCEPT !.phase = "args"]
            ELSE IF host.pending > 0 THEN [host EXCEPT !.phase = "reply"]
            ELSE host]

\* syscall_t::dispatch() reads its arguments and writes its result.
ReadArgs(h, host) ==
  [hart |-> h, host |-> [host EXCEPT !.phase = "result", !.arg = h.mem]]
WriteResult(h, host) ==
  [hart |-> [h EXCEPT !.mem = Result[host.arg]], host |-> Responded([host EXCEPT !.arg = 0])]

\* write_cr(31, 1), which is tried again until fromhost was 0.
Reply(h, host) ==
  IF h.fromhost = 0
  THEN [hart |-> SetFromHost(h, 1), host |-> NextPacket([host EXCEPT !.pending = @ - 1])]
  ELSE [hart |-> h, host |-> NextPacket(host)]

\* write_cr(29, 1): the registers are reset, memory and the serialize flag are not.
Stop(h, host) ==
  [hart |-> [Reset EXCEPT !.run = FALSE, !.mem = h.mem, !.serialized = h.serialized], host |-> host]

\* htif_isasim_t::tick_once(), unless done().
Tick(h, host) ==
  IF ~h.run THEN [hart |-> h, host |-> host]
  ELSE CASE host.phase = "poll" -> Poll(h, host)
         [] host.phase = "args" -> ReadArgs(h, host)
         [] host.phase = "result" -> WriteResult(h, host)
         [] host.phase = "reply" -> Reply(h, host)
         [] host.phase = "stop" -> Stop(h, host)
=============================================================================
