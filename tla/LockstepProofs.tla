--------------------------- MODULE LockstepProofs ---------------------------
(* Theorems about Lockstep, for every width, interleave and program.       *)
EXTENDS Lockstep, TLAPS

-----------------------------------------------------------------------------
(* A processor and its host keep their types.                              *)

\* What fetch finds, on and beyond the pages of the program.
LEMMA FetchedType ==
  ASSUME NEW prog \in Seq(Insn), NEW p \in Values
  PROVE  Fetched(prog, p) \in Insn
  BY HartAssumption DEF Fetched, Unmapped, Insn, Ops, CSRs, Values

LEMMA ZeroIsValue == 0 \in Values /\ 1 \in Values
  BY HartAssumption DEF Values

LEMMA IncrementPCType == ASSUME NEW p \in Values PROVE IncrementPC(p) \in Values
  BY HartAssumption DEF IncrementPC, Values

LEMMA AddType == ASSUME NEW a \in Values, NEW b \in Values PROVE (a + b) % Width \in Values
  BY HartAssumption DEF Values

LEMMA TakeTrapType ==
  ASSUME NEW h \in HartState
  PROVE  TakeTrap(h) \in HartState /\ TakeTrap(h).run = h.run
  BY HartAssumption DEF TakeTrap, HartState, StatusRegister

LEMMA SetFromHostType ==
  ASSUME NEW h \in HartState, NEW v \in Values
  PROVE  SetFromHost(h, v) \in HartState /\ SetFromHost(h, v).run = h.run
  BY DEF SetFromHost, HartState, StatusRegister

LEMMA GetPCRType ==
  ASSUME NEW h \in HartState, NEW csr \in CSRs \ {"none"}
  PROVE  GetPCR(h, csr) \in Values
  BY DEF GetPCR, HartState, CSRs

LEMMA SetPCRType ==
  ASSUME NEW h \in HartState, NEW csr \in CSRs \ {"none"}, NEW v \in Values
  PROVE  SetPCR(h, csr, v) \in HartState /\ SetPCR(h, csr, v).run = h.run
  <1>1. CASE csr = "tohost" BY <1>1 DEF SetPCR, HartState
  <1>2. CASE csr = "fromhost" BY <1>2, SetFromHostType DEF SetPCR
  <1>3. CASE csr = "count" BY <1>3 DEF SetPCR, HartState
  <1>4. CASE csr = "cycle" BY <1>4 DEF SetPCR
  <1>5. CASE csr = "compare" BY <1>5 DEF SetPCR, HartState, StatusRegister
  <1>6. CASE csr = "epc" BY <1>6 DEF SetPCR, HartState
  <1> QED BY <1>1, <1>2, <1>3, <1>4, <1>5, <1>6 DEF CSRs

LEMMA AccessCSRType ==
  ASSUME NEW h \in HartState, NEW insn \in Insn, insn.op \in {"csrr", "csrw"}
  PROVE  AccessCSR(h, insn) \in HartState /\ AccessCSR(h, insn).run = h.run
  <1> DEFINE old == GetPCR(h, insn.csr)
             unlocked == [h EXCEPT !.serialized = FALSE, !.pc = IncrementPC(h.pc)]
             read == SetPCR(unlocked, insn.csr, old)
             written == SetPCR(unlocked, insn.csr, insn.v)
  <1>1. insn.csr \in CSRs \ {"none"} /\ insn.v \in Values BY DEF Insn
  <1>2. unlocked \in HartState /\ unlocked.run = h.run
    BY IncrementPCType DEF HartState
  <1>3. old \in Values BY <1>1, GetPCRType
  <1>4. read \in HartState /\ read.run = h.run
    <2> HIDE DEF unlocked, old
    <2> QED BY <1>1, <1>2, <1>3, SetPCRType
  <1>5. written \in HartState /\ written.run = h.run
    <2> HIDE DEF unlocked
    <2> QED BY <1>1, <1>2, SetPCRType
  <1>6. [read EXCEPT !.x = old] \in HartState /\ [read EXCEPT !.x = old].run = h.run
    <2> HIDE DEF read, old
    <2> QED BY <1>3, <1>4 DEF HartState
  <1>7. AccessCSR(h, insn) = IF insn.op = "csrr" THEN [read EXCEPT !.x = old] ELSE written
    BY DEF AccessCSR
  <1> HIDE DEF read, written, old, unlocked
  <1> QED BY <1>5, <1>6, <1>7

LEMMA SretType ==
  ASSUME NEW h \in HartState
  PROVE  Sret(h) \in HartState /\ Sret(h).run = h.run
  BY DEF Sret, HartState, StatusRegister

\* No instruction leaves the types or stops the processor: only the host does.
LEMMA PerformedType ==
  ASSUME NEW h \in HartState, NEW insn \in Insn, NEW loaded \in Values,
         insn.op \notin {"scall", "bad"}
  PROVE  /\ Performed(h, insn, loaded) \in HartState
         /\ Performed(h, insn, loaded).run = h.run
  <1> DEFINE next == [h EXCEPT !.pc = IncrementPC(h.pc)]
             R == Performed(h, insn, loaded)
  <1>1. insn.v \in Values /\ insn.op \in Ops BY DEF Insn
  <1>2. next \in HartState /\ next.run = h.run BY IncrementPCType DEF HartState
  <1>3. CASE insn.op = "li"
    <2>1. R = [next EXCEPT !.x = insn.v] BY <1>3 DEF Performed
    <2> HIDE DEF next
    <2> QED BY <2>1, <1>1, <1>2 DEF HartState
  <1>4. CASE insn.op = "addi"
    <2>1. R = [next EXCEPT !.x = (next.x + insn.v) % Width] BY <1>4 DEF Performed
    <2> HIDE DEF next
    <2>2. next.x \in Values BY <1>2 DEF HartState
    <2>3. (next.x + insn.v) % Width \in Values BY <1>1, <2>2, AddType
    <2> QED BY <2>1, <2>3, <1>2 DEF HartState
  <1>5. CASE insn.op = "lw"
    <2>1. R = [next EXCEPT !.x = loaded] BY <1>5 DEF Performed
    <2> HIDE DEF next
    <2> QED BY <2>1, <1>2 DEF HartState
  <1>6. CASE insn.op = "sw"
    <2>1. R = [next EXCEPT !.mem = h.x] BY <1>6 DEF Performed
    <2>2. h.x \in Values BY DEF HartState
    <2> HIDE DEF next
    <2> QED BY <2>1, <2>2, <1>2 DEF HartState
  <1>7. CASE insn.op = "beqz"
    <2>1. R = [h EXCEPT !.pc = IF h.x = 0 THEN insn.v ELSE IncrementPC(h.pc)]
      BY <1>7 DEF Performed
    <2>2. (IF h.x = 0 THEN insn.v ELSE IncrementPC(h.pc)) \in Values
      BY <1>1, IncrementPCType DEF HartState
    <2> QED BY <2>1, <2>2 DEF HartState
  <1>8. CASE insn.op = "j"
    <2>1. R = [h EXCEPT !.pc = insn.v] BY <1>8 DEF Performed
    <2> QED BY <2>1, <1>1 DEF HartState
  <1>9. CASE insn.op = "sret"
    <2>1. R = Sret(h) BY <1>9 DEF Performed
    <2> QED BY <2>1, SretType
  <1>10. CASE insn.op \in {"csrr", "csrw"}
    <2>1. R = AccessCSR(h, insn) BY <1>10 DEF Performed
    <2> QED BY <2>1, <1>10, AccessCSRType
  <1> QED BY <1>1, <1>3, <1>4, <1>5, <1>6, <1>7, <1>8, <1>9, <1>10 DEF Ops

LEMMA ExecutedType ==
  ASSUME NEW h \in HartState, NEW insn \in Insn, NEW loaded \in Values
  PROVE  /\ Executed(h, insn, loaded) \in HartState
         /\ Executed(h, insn, loaded).run = h.run
  <1> DEFINE R == Executed(h, insn, loaded)
  <1>1. CASE Excepts(h, insn)
    <2>1. R = TakeTrap(h) BY <1>1 DEF Executed
    <2> QED BY <2>1, TakeTrapType
  <1>2. CASE ~Excepts(h, insn) /\ Serializing(h, insn)
    <2>1. R = [h EXCEPT !.serialized = TRUE] BY <1>2 DEF Executed
    <2> QED BY <2>1 DEF HartState
  <1>3. CASE ~Excepts(h, insn) /\ ~Serializing(h, insn)
    <2>1. R = Performed(h, insn, loaded) BY <1>3 DEF Executed
    <2>2. insn.op \notin {"scall", "bad"} BY <1>3 DEF Excepts
    <2> QED BY <2>1, <2>2, PerformedType
  <1> QED BY <1>1, <1>2, <1>3

LEMMA UpdateTimerType ==
  ASSUME NEW h \in HartState
  PROVE  UpdateTimer(h) \in HartState /\ UpdateTimer(h).run = h.run
  <1>1. (h.count + 1) % Width \in Values BY AddType, ZeroIsValue DEF HartState
  <1> QED BY <1>1 DEF UpdateTimer, HartState, StatusRegister

LEMMA NextTimerType == ASSUME NEW h \in HartState PROVE NextTimer(h) \in Nat
  <1>1. Width \in Nat /\ Width > 0 /\ h.compare \in Int /\ h.count \in Int
    BY HartAssumption DEF HartState, Values
  <1>2. Width + h.compare - h.count \in Int BY <1>1
  <1>3. \A a \in Int : a % Width \in Nat BY <1>1
  <1> QED BY <1>2, <1>3 DEF NextTimer
-----------------------------------------------------------------------------
(* The host, and its turn.                                                 *)

\* A host that is about to reply has a reply.
ReadyHost == {host \in Host : host.phase = "reply" => host.pending > 0}

LEMMA RespondedType ==
  ASSUME NEW host \in Host
  PROVE  Responded(host) \in ReadyHost
  <1> DEFINE pending == IF host.pending < MaxPending THEN host.pending + 1 ELSE host.pending
  <1>1. pending \in 0..MaxPending /\ pending > 0
    BY HartAssumption DEF Host
  <1>2. Responded(host) = [host EXCEPT !.phase = "reply", !.pending = pending]
    BY DEF Responded
  <1> HIDE DEF pending
  <1> QED BY <1>1, <1>2 DEF Host, ReadyHost

LEMMA NextPacketType ==
  ASSUME NEW host \in Host
  PROVE  NextPacket(host) \in ReadyHost
  BY DEF NextPacket, Host, ReadyHost

LEMMA PollType ==
  ASSUME NEW h \in HartState, NEW host \in ReadyHost
  PROVE  Poll(h, host).hart \in HartState /\ Poll(h, host).host \in ReadyHost
  <1>1. host \in Host BY DEF ReadyHost
  <1>2. Poll(h, host).hart \in HartState
    <2>1. Poll(h, host).hart = [h EXCEPT !.tohost = 0] BY DEF Poll
    <2> QED BY <2>1, ZeroIsValue DEF HartState
  <1>3. CASE h.tohost % 2 = 1
    <2>1. [host EXCEPT !.exiting = TRUE] \in Host BY <1>1 DEF Host
    <2>2. Poll(h, host).host = Responded([host EXCEPT !.exiting = TRUE]) BY <1>3 DEF Poll
    <2> QED BY <1>2, <2>1, <2>2, RespondedType
  <1>4. CASE ~(h.tohost % 2 = 1) /\ h.tohost > 0
    <2>1. Poll(h, host).host = [host EXCEPT !.phase = "args"] BY <1>4 DEF Poll
    <2> QED BY <1>1, <1>2, <2>1 DEF Host, ReadyHost
  <1>5. CASE ~(h.tohost % 2 = 1) /\ ~(h.tohost > 0) /\ host.pending > 0
    <2>1. Poll(h, host).host = [host EXCEPT !.phase = "reply"] BY <1>5 DEF Poll
    <2> QED BY <1>1, <1>2, <1>5, <2>1 DEF Host, ReadyHost
  <1>6. CASE ~(h.tohost % 2 = 1) /\ ~(h.tohost > 0) /\ ~(host.pending > 0)
    <2>1. Poll(h, host).host = host BY <1>6 DEF Poll
    <2> QED BY <1>2, <2>1
  <1> QED BY <1>3, <1>4, <1>5, <1>6

LEMMA WriteResultType ==
  ASSUME NEW h \in HartState, NEW host \in ReadyHost
  PROVE  WriteResult(h, host).hart \in HartState /\ WriteResult(h, host).host \in ReadyHost
  <1>1. host \in Host /\ host.arg \in Values BY DEF ReadyHost, Host
  <1>2. Result[host.arg] \in Values BY <1>1, HartAssumption
  <1>3. WriteResult(h, host).hart = [h EXCEPT !.mem = Result[host.arg]] BY DEF WriteResult
  <1>4. [host EXCEPT !.arg = 0] \in Host BY <1>1, ZeroIsValue DEF Host
  <1>5. WriteResult(h, host).host = Responded([host EXCEPT !.arg = 0]) BY DEF WriteResult
  <1>6. WriteResult(h, host).hart \in HartState BY <1>2, <1>3 DEF HartState
  <1> QED BY <1>4, <1>5, <1>6, RespondedType

LEMMA ReplyType ==
  ASSUME NEW h \in HartState, NEW host \in ReadyHost, host.phase = "reply"
  PROVE  Reply(h, host).hart \in HartState /\ Reply(h, host).host \in ReadyHost
  <1>1. host \in Host /\ host.pending \in 1..MaxPending BY DEF ReadyHost, Host
  <1>2. [host EXCEPT !.pending = host.pending - 1] \in Host
    <2>1. host.pending - 1 \in 0..MaxPending BY <1>1, HartAssumption
    <2> QED BY <1>1, <2>1 DEF Host
  <1>3. CASE h.fromhost = 0
    <2>1. /\ Reply(h, host).hart = SetFromHost(h, 1)
          /\ Reply(h, host).host = NextPacket([host EXCEPT !.pending = host.pending - 1])
      BY <1>3 DEF Reply
    <2> QED BY <1>2, <2>1, ZeroIsValue, SetFromHostType, NextPacketType
  <1>4. CASE h.fromhost # 0
    <2>1. Reply(h, host).hart = h /\ Reply(h, host).host = NextPacket(host) BY <1>4 DEF Reply
    <2> QED BY <1>1, <2>1, NextPacketType
  <1> QED BY <1>3, <1>4

\* A tick keeps the types, and does nothing once the processor is stopped.
LEMMA TickType ==
  ASSUME NEW h \in HartState, NEW host \in ReadyHost
  PROVE  /\ Tick(h, host).hart \in HartState /\ Tick(h, host).host \in ReadyHost
         /\ ~h.run => Tick(h, host) = [hart |-> h, host |-> host]
  <1>1. CASE ~h.run BY <1>1 DEF Tick
  <1>2. CASE h.run
    <2>1. host \in Host /\ h.mem \in Values
          /\ host.phase \in {"poll", "args", "result", "reply", "stop"}
      BY DEF ReadyHost, Host, HartState
    <2>2. CASE host.phase = "poll"
      <3>1. Tick(h, host) = Poll(h, host) BY <1>2, <2>2 DEF Tick
      <3> QED BY <1>2, <3>1, PollType
    <2>3. CASE host.phase = "args"
      <3>1. Tick(h, host) = ReadArgs(h, host) BY <1>2, <2>3 DEF Tick
      <3>2. ReadArgs(h, host).hart = h
            /\ ReadArgs(h, host).host = [host EXCEPT !.phase = "result", !.arg = h.mem]
        BY DEF ReadArgs
      <3>3. [host EXCEPT !.phase = "result", !.arg = h.mem] \in Host BY <2>1 DEF Host
      <3>4. [host EXCEPT !.phase = "result", !.arg = h.mem] \in ReadyHost
        BY <2>1, <3>3 DEF Host, ReadyHost
      <3> QED BY <1>2, <3>1, <3>2, <3>4
    <2>4. CASE host.phase = "result"
      <3>1. Tick(h, host) = WriteResult(h, host) BY <1>2, <2>4 DEF Tick
      <3> QED BY <1>2, <3>1, WriteResultType
    <2>5. CASE host.phase = "reply"
      <3>1. Tick(h, host) = Reply(h, host) BY <1>2, <2>5 DEF Tick
      <3> QED BY <1>2, <2>5, <3>1, ReplyType
    <2>6. CASE host.phase = "stop"
      <3>1. Tick(h, host) = Stop(h, host) BY <1>2, <2>6 DEF Tick
      <3> DEFINE stopped == [Reset EXCEPT !.run = FALSE, !.mem = h.mem, !.serialized = h.serialized]
      <3>2. Stop(h, host).hart = stopped /\ Stop(h, host).host = host
        BY DEF Stop
      <3>3. stopped \in HartState BY ZeroIsValue DEF Reset, HartState, StatusRegister
      <3> QED BY <1>2, <3>1, <3>2, <3>3
    <2> QED BY <2>1, <2>2, <2>3, <2>4, <2>5, <2>6
  <1> QED BY <1>1, <1>2
-----------------------------------------------------------------------------
(* The functional machine is made of the same operators.                   *)

LEMMA SameValues ==
  /\ F!Values = Values /\ F!Unmapped = Unmapped
  /\ F!Reset = Reset /\ F!HostAtBoot = HostAtBoot
  BY DEF F!Values, Values, F!Unmapped, Unmapped, F!Reset, Reset, F!HostAtBoot, HostAtBoot

LEMMA SameFetched == ASSUME NEW p PROVE F!Fetched(program, p) = Fetched(program, p)
  BY DEF F!Fetched, Fetched, F!Unmapped, Unmapped

LEMMA SameExcepts ==
  ASSUME NEW h, NEW insn
  PROVE  /\ F!Allowed(h, insn) <=> Allowed(h, insn)
         /\ F!Excepts(h, insn) <=> Excepts(h, insn)
         /\ F!Serializing(h, insn) <=> Serializing(h, insn)
  BY DEF F!Allowed, Allowed, F!Excepts, Excepts, F!Serializing, Serializing

LEMMA SameSetPCR ==
  ASSUME NEW h, NEW csr, NEW v
  PROVE  F!SetPCR(h, csr, v) = SetPCR(h, csr, v) /\ F!GetPCR(h, csr) = GetPCR(h, csr)
  BY DEF F!SetPCR, SetPCR, F!GetPCR, GetPCR, F!SetFromHost, SetFromHost

LEMMA SameAccessCSR ==
  ASSUME NEW h, NEW insn
  PROVE  F!AccessCSR(h, insn) = AccessCSR(h, insn)
  BY SameSetPCR DEF F!AccessCSR, AccessCSR, F!IncrementPC, IncrementPC

LEMMA SamePerformed ==
  ASSUME NEW h, NEW insn, NEW loaded
  PROVE  F!Performed(h, insn, loaded) = Performed(h, insn, loaded)
  BY SameAccessCSR DEF F!Performed, Performed, F!IncrementPC, IncrementPC, F!Sret, Sret

LEMMA SameExecuted ==
  ASSUME NEW h, NEW insn, NEW loaded
  PROVE  F!Executed(h, insn, loaded) = Executed(h, insn, loaded)
  BY SameExcepts, SamePerformed DEF F!Executed, Executed, F!TakeTrap, TakeTrap

LEMMA SameUpdateTimer == ASSUME NEW h PROVE F!UpdateTimer(h) = UpdateTimer(h)
  BY DEF F!UpdateTimer, UpdateTimer

LEMMA SameResponded ==
  ASSUME NEW host
  PROVE  F!Responded(host) = Responded(host) /\ F!NextPacket(host) = NextPacket(host)
  BY DEF F!Responded, Responded, F!NextPacket, NextPacket

LEMMA SameTick ==
  ASSUME NEW h, NEW host
  PROVE  F!Tick(h, host) = Tick(h, host)
  <1>1. F!Poll(h, host) = Poll(h, host) BY SameResponded DEF F!Poll, Poll
  <1>2. F!WriteResult(h, host) = WriteResult(h, host)
    BY SameResponded DEF F!WriteResult, WriteResult
  <1>3. F!Reply(h, host) = Reply(h, host)
    BY SameResponded DEF F!Reply, Reply, F!SetFromHost, SetFromHost
  <1>4. F!ReadArgs(h, host) = ReadArgs(h, host) /\ F!Stop(h, host) = Stop(h, host)
    BY SameValues DEF F!ReadArgs, ReadArgs, F!Stop, Stop
  <1> QED BY <1>1, <1>2, <1>3, <1>4 DEF F!Tick, Tick
-----------------------------------------------------------------------------
(* The accounts of sim_t::step().                                          *)

Core == [hart : HartState, host : ReadyHost, step : 0..Interleave-1, idle : Nat]
Stopped(s) == ~s.hart.run => s.step = 0

LEMMA AccountedType ==
  ASSUME NEW s \in Core, NEW k \in Nat, s.step + k <= Interleave,
         Stopped(s), ~s.hart.run => k = 0
  PROVE  Accounted(s, k) \in Core /\ Stopped(Accounted(s, k))
  <1> DEFINE ticked == Tick(s.hart, s.host)
  <1>1. s.hart \in HartState /\ s.host \in ReadyHost /\ s.step \in 0..Interleave-1
        /\ s.idle \in Nat /\ IdleAfter(s, k) \in Nat
    BY DEF Core, IdleAfter
  <1>2. ticked.hart \in HartState /\ ticked.host \in ReadyHost
    BY <1>1, TickType
  <1>3. 0 \in 0..Interleave-1 /\ 0 \in Nat BY HartAssumption
  <1>4. CASE TickDue(s, k)
    <2>1. Accounted(s, k) = [hart |-> ticked.hart, host |-> ticked.host, step |-> 0, idle |-> 0]
      BY <1>4 DEF Accounted
    <2> HIDE DEF ticked
    <2> QED BY <1>2, <1>3, <2>1 DEF Core, Stopped
  <1>5. CASE ~TickDue(s, k)
    <2>1. Accounted(s, k) = [s EXCEPT !.step = s.step + k, !.idle = IdleAfter(s, k)]
      BY <1>5 DEF Accounted
    <2>2. s.step + k \in 0..Interleave-1
      BY <1>1, <1>5, HartAssumption DEF TickDue
    <2>3. Accounted(s, k) \in Core BY <1>1, <2>1, <2>2 DEF Core
    <2>4. Accounted(s, k).hart = s.hart /\ Accounted(s, k).step = s.step + k
      BY <2>1 DEF Core
    <2> QED BY <1>1, <2>3, <2>4 DEF Stopped
  <1> QED BY <1>4, <1>5

\* After a step that retired something it is the functional machine's account.
LEMMA AccountedIsInterleaved ==
  ASSUME NEW s \in Core, NEW k \in Nat, k > 0
  PROVE  TicksOf(Accounted(s, k)) = F!Interleaved(TicksOf(s), k)
  <1> DEFINE ticked == Tick(s.hart, s.host)
  <1>1. IdleAfter(s, k) = 0 /\ Interleave # 0 BY HartAssumption DEF IdleAfter
  <1>2. TicksOf(s) = [hart |-> s.hart, host |-> s.host, step |-> s.step] BY DEF TicksOf
  <1>3. F!Tick(TicksOf(s).hart, TicksOf(s).host) = ticked BY <1>2, SameTick
  <1>4. CASE s.step + k = Interleave
    <2>1. Accounted(s, k) = [hart |-> ticked.hart, host |-> ticked.host, step |-> 0, idle |-> 0]
      BY <1>4 DEF Accounted, TickDue
    <2>2. TicksOf(Accounted(s, k)) = [hart |-> ticked.hart, host |-> ticked.host, step |-> 0]
      BY <2>1 DEF TicksOf
    <2>3. F!Interleaved(TicksOf(s), k) =
            [TicksOf(s) EXCEPT !.hart = ticked.hart, !.host = ticked.host, !.step = 0]
      <3> DEFINE m == TicksOf(s)
      <3>1. m.step + k = Interleave BY <1>2, <1>4
      <3>2. F!Tick(m.hart, m.host) = ticked BY <1>3
      <3> HIDE DEF m, ticked
      <3>3. F!Interleaved(m, k) =
              [m EXCEPT !.hart = ticked.hart, !.host = ticked.host, !.step = 0]
        BY <3>1, <3>2 DEF F!Interleaved
      <3> QED BY <3>3 DEF m
    <2> HIDE DEF ticked
    <2> QED BY <1>2, <2>2, <2>3
  <1>5. CASE s.step + k # Interleave
    <2>1. Accounted(s, k) = [s EXCEPT !.step = s.step + k, !.idle = IdleAfter(s, k)]
      BY <1>1, <1>5 DEF Accounted, TickDue
    <2>2. F!Interleaved(TicksOf(s), k) = [TicksOf(s) EXCEPT !.step = s.step + k]
      BY <1>2, <1>3, <1>5 DEF F!Interleaved
    <2> QED BY <1>2, <2>1, <2>2 DEF TicksOf, Core
  <1> QED BY <1>4, <1>5

\* One that retired nothing is no step of that machine, unless a tick is due that
\* finds a running processor.
LEMMA AccountedIdle ==
  ASSUME NEW s \in Core, Stopped(s),
         s.hart.run => IdleAfter(s, 0) # Interleave
  PROVE  TicksOf(Accounted(s, 0)) = TicksOf(s)
  <1>1. s.step # Interleave /\ s.step + 0 = s.step BY HartAssumption DEF Core
  <1>2. CASE TickDue(s, 0)
    <2>1. ~s.hart.run BY <1>1, <1>2 DEF TickDue
    <2>2. Tick(s.hart, s.host) = [hart |-> s.hart, host |-> s.host]
      BY <2>1, TickType DEF Core
    <2>3. Accounted(s, 0) = [hart |-> s.hart, host |-> s.host, step |-> 0, idle |-> 0]
      BY <1>2, <2>2 DEF Accounted
    <2> QED BY <2>1, <2>3 DEF TicksOf, Stopped
  <1>3. CASE ~TickDue(s, 0)
    <2>1. Accounted(s, 0) = [s EXCEPT !.step = s.step, !.idle = IdleAfter(s, 0)]
      BY <1>1, <1>3 DEF Accounted
    <2> QED BY <2>1 DEF TicksOf, Core
  <1> QED BY <1>2, <1>3

LEMMA LimitType ==
  ASSUME micro \in Core
  PROVE  Limit \in 1..Interleave - micro.step
  <1>1. NextTimer(micro.hart) \in Nat /\ micro.step \in 0..Interleave-1
    BY NextTimerType DEF Core
  <1>2. OddTimer \in Nat /\ OddTimer >= 1
    <2> DEFINE t == NextTimer(micro.hart)
    <2>1. t = 0 => t % 2 = 0 BY <1>1
    <2> HIDE DEF t
    <2> QED BY <1>1, <2>1 DEF OddTimer, t
  <1> QED BY <1>1, <1>2, HartAssumption DEF Limit
-----------------------------------------------------------------------------
(* The invariant.                                                          *)

Entries ==
  [pc : Values, x : Values, sr : StatusRegister, tohost : Values, fromhost : Values,
   count : Values, exception : BOOLEAN]

\* Both simulators keep their accounts; the buffer has room until the core starts.
SimulatorsOK ==
  /\ program \in Programs
  /\ isa \in Core /\ Stopped(isa)
  /\ micro \in Core /\ Stopped(micro)
  /\ seen \subseteq Values
BufferOK ==
  /\ db \in Seq(Entries) /\ Len(db) <= DebugSize
  /\ at = "run_ahead" => Len(db) < DebugSize
\* A call of step_micro() is for a running core and ends no later than its next tick.
CallOK ==
  /\ at \in {"run_ahead", "step", "cycle", "finished"}
  /\ call \in [n : 0..Interleave, instret : Nat, lane : 0..RetireWidth]
  /\ at = "cycle" => /\ micro.hart.run
                     /\ call.n \in 1..Interleave - micro.step
                     /\ call.instret <= call.n
Inv == SimulatorsOK /\ BufferOK /\ CallOK

LEMMA EntryType ==
  ASSUME NEW h \in HartState, NEW h2 \in HartState, NEW insn
  PROVE  Entry(h, h2, insn) \in Entries
  <1>1. Excepts(h, insn) \in BOOLEAN BY DEF Excepts
  <1> QED BY <1>1 DEF Entry, Entries, HartState

\* One instruction on a simulator that runs.
LEMMA SteppedType ==
  ASSUME NEW s \in Core, s.hart.run, program \in Programs, NEW loaded \in Values
  PROVE  LET insn == Fetched(program, s.hart.pc)
             hart == Executed(s.hart, insn, loaded)
             s2 == [s EXCEPT !.hart = UpdateTimer(hart)]
         IN /\ Entry(s.hart, hart, insn) \in Entries
            /\ s2 \in Core /\ s2.hart.run /\ s2.hart = UpdateTimer(hart)
            /\ s2.host = s.host /\ s2.step = s.step /\ s2.idle = s.idle
  <1> DEFINE insn == Fetched(program, s.hart.pc)
             hart == Executed(s.hart, insn, loaded)
  <1>1. s.hart \in HartState /\ s.hart.pc \in Values /\ program \in Seq(Insn)
    BY LockstepAssumption DEF Core, HartState
  <1>2. insn \in Insn BY <1>1, FetchedType
  <1> HIDE DEF insn
  <1>3. hart \in HartState /\ hart.run = s.hart.run BY <1>1, <1>2, ExecutedType
  <1>4. Entry(s.hart, hart, insn) \in Entries BY <1>1, <1>3, EntryType
  <1> HIDE DEF hart
  <1>5. UpdateTimer(hart) \in HartState /\ UpdateTimer(hart).run = s.hart.run
    BY <1>3, UpdateTimerType
  <1>6. [s EXCEPT !.hart = UpdateTimer(hart)] \in Core BY <1>5 DEF Core
  <1>7. [s EXCEPT !.hart = UpdateTimer(hart)].hart = UpdateTimer(hart)
        /\ [s EXCEPT !.hart = UpdateTimer(hart)].host = s.host
        /\ [s EXCEPT !.hart = UpdateTimer(hart)].step = s.step
        /\ [s EXCEPT !.hart = UpdateTimer(hart)].idle = s.idle
    BY DEF Core
  <1>8. [s EXCEPT !.hart = UpdateTimer(hart)].hart.run BY <1>5, <1>7
  <1> QED BY <1>4, <1>6, <1>7, <1>8 DEF insn, hart

LEMMA InitInv == Init => Inv
  <1> SUFFICES ASSUME Init PROVE Inv OBVIOUS
  <1>1. Reset \in HartState /\ Reset.run
    BY ZeroIsValue DEF Reset, HartState, StatusRegister
  <1>2. HostAtBoot \in ReadyHost
    BY ZeroIsValue, HartAssumption DEF HostAtBoot, ReadyHost, Host
  <1>3. Boot \in Core /\ Stopped(Boot)
    BY <1>1, <1>2, HartAssumption DEF Boot, Core, Stopped
  <1>4. Reset.mem \in Values BY ZeroIsValue DEF Reset
  <1>5. SimulatorsOK BY <1>3, <1>4 DEF Init, SimulatorsOK
  <1>6. BufferOK BY LockstepAssumption DEF Init, BufferOK
  <1>7. CallOK BY HartAssumption, LockstepAssumption DEF Init, CallOK, NoCall
  <1> QED BY <1>5, <1>6, <1>7 DEF Inv

LEMMA RunAheadInv == ASSUME Inv, RunAhead, UNCHANGED program PROVE Inv'
  <1>1. isa \in Core /\ Stopped(isa) /\ isa.hart.mem \in Values /\ program \in Programs
    BY DEF Inv, SimulatorsOK, Core, HartState
  <1>2. isa.step + 1 <= Interleave /\ isa.step + 0 <= Interleave
    BY <1>1, HartAssumption DEF Core
  <1>3. /\ isa' \in Core /\ Stopped(isa')
        /\ db' \in Seq(Entries) /\ Len(db') <= Len(db) + 1
    <2>1. CASE isa.hart.run
      <3> DEFINE insn == Fetched(program, isa.hart.pc)
                 hart == Executed(isa.hart, insn, isa.hart.mem)
                 s == [isa EXCEPT !.hart = UpdateTimer(hart)]
                 e == Entry(isa.hart, hart, insn)
      <3>1. isa' = Accounted(s, 1) /\ db' = Append(db, e)
        BY <2>1 DEF RunAhead, StepISA
      <3>2. e \in Entries /\ s \in Core /\ s.hart.run /\ s.step = isa.step
        BY <1>1, <2>1, SteppedType
      <3> HIDE DEF s, e
      <3>3. Stopped(s) BY <3>2 DEF Stopped
      <3>4. isa' \in Core /\ Stopped(isa')
        BY <1>2, <3>1, <3>2, <3>3, AccountedType
      <3> QED BY <3>1, <3>2, <3>4 DEF Inv, BufferOK
    <2>2. CASE ~isa.hart.run
      <3>1. isa' = Accounted(isa, 0) /\ db' = db BY <2>2 DEF RunAhead, StepISA
      <3>2. isa' \in Core /\ Stopped(isa') BY <1>1, <1>2, <3>1, AccountedType
      <3> QED BY <3>1, <3>2 DEF Inv, BufferOK
    <2> QED BY <2>1, <2>2
  <1>4. SimulatorsOK' BY <1>3 DEF Inv, SimulatorsOK, RunAhead, Stopped
  <1>5. BufferOK'
    <2>1. Len(db) < DebugSize /\ Len(db) \in Nat BY DEF Inv, BufferOK, RunAhead
    <2>2. Len(db') <= DebugSize /\ Len(db') \in Nat
      BY <1>3, <2>1, LockstepAssumption
    <2>3. at' = "run_ahead" => Len(db') # DebugSize BY DEF RunAhead
    <2> QED BY <1>3, <2>2, <2>3, LockstepAssumption DEF BufferOK
  <1>6. CallOK' BY DEF Inv, CallOK, RunAhead
  <1> QED BY <1>4, <1>5, <1>6 DEF Inv

LEMMA StepMicroInv == ASSUME Inv, StepMicro, UNCHANGED program PROVE Inv'
  <1>1. micro \in Core /\ Stopped(micro) /\ micro.step + 0 <= Interleave
    BY HartAssumption DEF Inv, SimulatorsOK, Core
  <1>2. CASE micro.hart.run
    <2>1. Limit \in 1..Interleave - micro.step BY <1>1, LimitType
    <2>2. at' = "cycle" /\ call' = [n |-> Limit, instret |-> 0, lane |-> 0] /\ micro' = micro
      BY <1>2 DEF StepMicro
    <2>3. Limit \in 0..Interleave /\ 0 <= Limit BY <1>1, <2>1, HartAssumption DEF Core
    <2>4. CallOK'
      BY <1>1, <1>2, <2>1, <2>2, <2>3, LockstepAssumption DEF CallOK
    <2> QED BY <2>2, <2>4 DEF Inv, SimulatorsOK, BufferOK, StepMicro, Stopped
  <1>3. CASE ~micro.hart.run
    <2>1. micro' = Accounted(micro, 0) /\ at' \in {"step", "finished"} /\ call' = call
      BY <1>3 DEF StepMicro
    <2>2. micro' \in Core /\ Stopped(micro') BY <1>1, <2>1, AccountedType
    <2> QED BY <2>1, <2>2 DEF Inv, SimulatorsOK, BufferOK, CallOK, StepMicro, Stopped
  <1> QED BY <1>2, <1>3

\* pop() keeps the account of the functional simulator and the room in the buffer.
LEMMA PopActualInv ==
  ASSUME Inv, PopActual, db # <<>>
  PROVE  /\ isa' \in Core /\ Stopped(isa')
         /\ db' \in Seq(Entries) /\ Len(db') <= DebugSize
  <1>1. isa \in Core /\ Stopped(isa) /\ isa.hart.mem \in Values /\ program \in Programs
    BY DEF Inv, SimulatorsOK, Core, HartState
  <1>2. isa.step + 1 <= Interleave BY <1>1, HartAssumption DEF Core
  <1>3. db \in Seq(Entries) /\ Len(db) <= DebugSize BY DEF Inv, BufferOK
  <1>4. CASE Len(db) < DebugSize /\ isa.hart.run
    <2> DEFINE insn == Fetched(program, isa.hart.pc)
               hart == Executed(isa.hart, insn, isa.hart.mem)
               s == [isa EXCEPT !.hart = UpdateTimer(hart)]
               e == Entry(isa.hart, hart, insn)
    <2>1. isa' = Accounted(s, 1) /\ db' = Tail(Append(db, e)) BY <1>4 DEF PopActual
    <2>2. e \in Entries /\ s \in Core /\ s.hart.run /\ s.step = isa.step
      BY <1>1, <1>4, SteppedType
    <2> HIDE DEF s, e
    <2>3. Stopped(s) BY <2>2 DEF Stopped
    <2>4. isa' \in Core /\ Stopped(isa') BY <1>2, <2>1, <2>2, <2>3, AccountedType
    <2>5. Append(db, e) \in Seq(Entries) /\ Append(db, e) # <<>>
          /\ Len(Append(db, e)) = Len(db) + 1
      BY <1>3, <2>2
    <2>6. db' \in Seq(Entries) /\ Len(db') = Len(db) BY <1>3, <2>1, <2>5
    <2> QED BY <1>3, <2>4, <2>6
  <1>5. CASE ~(Len(db) < DebugSize /\ isa.hart.run)
    <2>1. db' = Tail(db) /\ isa' = isa BY <1>5 DEF PopActual
    <2>2. db' \in Seq(Entries) /\ Len(db') <= DebugSize
      BY <1>3, <2>1, LockstepAssumption
    <2> QED BY <1>1, <2>1, <2>2
  <1> QED BY <1>4, <1>5

\* The instruction that retires: it loads a value, and leaves a core that runs.
LEMMA RetiredType ==
  ASSUME Inv, at = "cycle", NEW loaded \in Loads
  PROVE  LET s == [micro EXCEPT !.hart = UpdateTimer(Retired(loaded))]
         IN /\ s \in Core /\ s.hart.run /\ s.hart = UpdateTimer(Retired(loaded))
            /\ s.host = micro.host /\ s.step = micro.step /\ s.idle = micro.idle
  <1>1. micro \in Core /\ micro.hart.run /\ program \in Programs
    BY DEF Inv, SimulatorsOK, CallOK
  <1>2. loaded \in Values
    BY <1>1 DEF Loads, Inv, SimulatorsOK, Core, HartState
  <1> QED BY <1>1, <1>2, SteppedType DEF Retired, HeadInsn

LEMMA RetireInv == ASSUME Inv, Retire, UNCHANGED program PROVE Inv'
  <1>1. at = "cycle" /\ at' = at /\ db # <<>> /\ PopActual BY DEF Retire
  <1>2. PICK loaded \in Loads : micro' = [micro EXCEPT !.hart = UpdateTimer(Retired(loaded))]
    BY DEF Retire
  <1>3. micro' \in Core /\ micro'.hart.run /\ micro'.step = micro.step
    BY <1>1, <1>2, RetiredType
  <1>4. seen' \subseteq Values
    <2>1. micro.hart.x \in Values /\ micro.hart.mem \in Values /\ seen \subseteq Values
      BY DEF Inv, SimulatorsOK, Core, HartState
    <2> QED BY <2>1 DEF Retire, SeenAfter
  <1>5. SimulatorsOK'
    BY <1>1, <1>3, <1>4, PopActualInv DEF SimulatorsOK, Inv, Stopped
  <1>6. BufferOK' BY <1>1, PopActualInv DEF BufferOK
  <1>7. CallOK'
    <2>1. call \in [n : 0..Interleave, instret : Nat, lane : 0..RetireWidth]
          /\ call.n \in 1..Interleave - micro.step
      BY <1>1 DEF Inv, CallOK
    <2>2. call.instret + 1 \in Nat /\ call.instret + 1 <= call.n
          /\ call.lane + 1 \in 0..RetireWidth /\ RetireWidth \in 0..RetireWidth
      BY <2>1, LockstepAssumption DEF Retire, MayRetire
    <2>3. call' = [call EXCEPT !.instret = call.instret + 1,
                               !.lane = IF SquashesBehind THEN RetireWidth ELSE call.lane + 1]
      BY DEF Retire
    <2>4. /\ call' \in [n : 0..Interleave, instret : Nat, lane : 0..RetireWidth]
          /\ call'.n = call.n /\ call'.instret = call.instret + 1
      BY <2>1, <2>2, <2>3
    <2> QED BY <1>1, <1>3, <2>1, <2>2, <2>4 DEF CallOK
  <1> QED BY <1>5, <1>6, <1>7 DEF Inv

LEMMA NextCycleInv == ASSUME Inv, NextCycle, UNCHANGED program PROVE Inv'
  <1>1. CallOK'
    <2>1. call \in [n : 0..Interleave, instret : Nat, lane : 0..RetireWidth]
      BY DEF Inv, CallOK
    <2>2. call' = [call EXCEPT !.lane = 0] /\ at' = at /\ micro' = micro BY DEF NextCycle
    <2>3. /\ call' \in [n : 0..Interleave, instret : Nat, lane : 0..RetireWidth]
          /\ call'.n = call.n /\ call'.instret = call.instret
      BY <2>1, <2>2, LockstepAssumption
    <2> QED BY <2>2, <2>3 DEF Inv, CallOK
  <1> QED BY <1>1 DEF NextCycle, Inv, SimulatorsOK, BufferOK, Stopped

LEMMA ReturnInv == ASSUME Inv, ReturnFromCall, UNCHANGED program PROVE Inv'
  <1>1. /\ micro \in Core /\ Stopped(micro) /\ micro.hart.run
        /\ call.instret \in Nat /\ call.instret + micro.step <= Interleave
    BY HartAssumption DEF Inv, SimulatorsOK, CallOK, ReturnFromCall, Core
  <1>2. micro' = Accounted(micro, call.instret) /\ at' = "step" /\ call' = NoCall
        /\ seen' = seen \cup {micro'.hart.mem}
    BY DEF ReturnFromCall
  <1>3. micro.step + call.instret <= Interleave BY <1>1 DEF Core
  <1>4. micro' \in Core /\ Stopped(micro') BY <1>1, <1>2, <1>3, AccountedType
  <1>5. seen' \subseteq Values BY <1>2, <1>4 DEF Inv, SimulatorsOK, Core, HartState
  <1>6. CallOK' BY <1>2, HartAssumption, LockstepAssumption DEF CallOK, NoCall
  <1> QED BY <1>4, <1>5, <1>6, <1>2 DEF ReturnFromCall, Inv, SimulatorsOK, BufferOK, Stopped

LEMMA NextInv == ASSUME Inv, [Next]_vars PROVE Inv'
  <1>1. CASE UNCHANGED vars
    BY <1>1 DEF vars, Inv, SimulatorsOK, BufferOK, CallOK, Stopped
  <1>2. CASE Finished /\ UNCHANGED program
    BY <1>2 DEF Finished, Inv, SimulatorsOK, BufferOK, CallOK, Stopped
  <1> QED BY <1>1, <1>2, RunAheadInv, StepMicroInv, RetireInv, NextCycleInv, ReturnInv
    DEF Next, Step

\* The invariant holds in every run.
THEOREM Invariant == Spec => []Inv
  BY InitInv, NextInv, PTL DEF Spec

\* Every variable stays in its domain, for every program, width and retire width.
THEOREM Types == Spec => []TypeOK
  <1>1. Inv => TypeOK
    <2> SUFFICES ASSUME Inv PROVE TypeOK OBVIOUS
    <2>1. Core \subseteq Simulator
      BY HartAssumption DEF Core, Simulator, ReadyHost
    <2> QED BY <2>1 DEF TypeOK, Inv, SimulatorsOK, BufferOK, CallOK
  <1> QED BY <1>1, Invariant, PTL
-----------------------------------------------------------------------------
(* The core is the functional machine.                                     *)

\* A load that retires has read what memory holds now: no program polls a word
\* that the host writes while the load may already be in flight.
RaceFree == at = "cycle" => Loads \subseteq {micro.hart.mem}

LEMMA InitFunctional == Init => F!Init
  <1> SUFFICES ASSUME Init PROVE F!Init OBVIOUS
  <1>1. Functionally = TicksOf(Boot) BY DEF Init, Functionally
  <1>2. TicksOf(Boot) = F!Boot BY SameValues DEF TicksOf, Boot, F!Boot
  <1> QED BY <1>1, <1>2 DEF Init, F!Init

\* Instructions may be accounted together or one by one.
LEMMA InterleavedAgain ==
  ASSUME NEW h, NEW host, NEW step \in Nat, NEW k \in Nat
  PROVE  F!Interleaved([hart |-> h, host |-> host, step |-> step], k + 1) =
           F!Interleaved([hart |-> h, host |-> host, step |-> step + k], 1)
  <1> DEFINE m == [hart |-> h, host |-> host, step |-> step]
             m2 == [hart |-> h, host |-> host, step |-> step + k]
             ticked == F!Tick(h, host)
  <1>1. step + (k + 1) = (step + k) + 1 BY HartAssumption
  <1>2. m.step = step /\ m2.step = step + k OBVIOUS
  <1>3. F!Tick(m.hart, m.host) = ticked /\ F!Tick(m2.hart, m2.host) = ticked OBVIOUS
  <1>4. [m EXCEPT !.hart = ticked.hart, !.host = ticked.host, !.step = 0] =
          [m2 EXCEPT !.hart = ticked.hart, !.host = ticked.host, !.step = 0]
    <2> HIDE DEF ticked
    <2> QED OBVIOUS
  <1>5. [m EXCEPT !.step = step + (k + 1)] = [m2 EXCEPT !.step = (step + k) + 1]
    BY <1>1
  <1> HIDE DEF m, m2, ticked
  <1>6. F!Interleaved(m, k + 1) = F!Interleaved(m2, 1)
    BY <1>1, <1>2, <1>3, <1>4, <1>5 DEF F!Interleaved
  <1> QED BY <1>6 DEF m, m2

\* Within a call the functional machine has stepped with what has retired.
LEMMA FunctionallyBefore ==
  ASSUME Inv, at = "cycle", call.instret < call.n
  PROVE  Functionally = [hart |-> micro.hart, host |-> micro.host,
                         step |-> micro.step + call.instret]
  <1> DEFINE k == call.instret
  <1>1. /\ micro \in Core /\ k \in Nat /\ micro.step + k < Interleave
        /\ micro.step \in Nat
    BY HartAssumption DEF Inv, SimulatorsOK, CallOK, Core
  <1>2. CASE k = 0
    BY <1>1, <1>2 DEF Functionally, TicksOf
  <1>3. CASE k > 0
    <2>1. ~TickDue(micro, k)
      BY <1>1, <1>3, HartAssumption DEF TickDue, IdleAfter
    <2>2. Accounted(micro, k) = [micro EXCEPT !.step = micro.step + k, !.idle = IdleAfter(micro, k)]
      BY <2>1 DEF Accounted
    <2> QED BY <1>1, <1>3, <2>2 DEF Functionally, TicksOf, Core
  <1> QED BY <1>1, <1>2, <1>3

LEMMA RetireFunctional ==
  ASSUME Inv, RaceFree, Retire, UNCHANGED program
  PROVE  F!Step
  <1> DEFINE h == UpdateTimer(Retired(micro.hart.mem))
             k == call.instret
  <1>1. at = "cycle" /\ at' = at /\ k < call.n /\ call'.instret = k + 1
    BY DEF Retire, MayRetire, Inv, CallOK
  <1>2. /\ micro \in Core /\ micro.hart.run /\ k \in Nat /\ micro.step + k < Interleave
        /\ micro.step \in Nat
    BY <1>1, HartAssumption DEF Inv, SimulatorsOK, CallOK, Core
  <1>3. PICK loaded \in Loads : micro' = [micro EXCEPT !.hart = UpdateTimer(Retired(loaded))]
    BY DEF Retire
  <1>4. loaded = micro.hart.mem BY <1>1, <1>3 DEF RaceFree
  <1>5. micro' \in Core /\ micro'.hart = h /\ micro'.host = micro.host /\ micro'.step = micro.step
    BY <1>1, <1>3, <1>4, RetiredType
  <1>6. Functionally = [hart |-> micro.hart, host |-> micro.host, step |-> micro.step + k]
    BY <1>1, FunctionallyBefore
  <1>7. Functionally' = F!Interleaved(TicksOf(micro'), k + 1)
    <2>1. Functionally' = TicksOf(Accounted(micro', k + 1))
      BY <1>1, <1>2 DEF Functionally
    <2> QED BY <1>2, <1>5, <2>1, AccountedIsInterleaved
  <1>8. F!Stepped(Functionally) =
          F!Interleaved([hart |-> h, host |-> micro.host, step |-> micro.step + k], 1)
    BY <1>6, SameFetched, SameExecuted, SameUpdateTimer DEF F!Stepped, Retired, HeadInsn
  <1>9. F!Interleaved(TicksOf(micro'), k + 1) =
          F!Interleaved([hart |-> h, host |-> micro.host, step |-> micro.step + k], 1)
    <2>1. TicksOf(micro') = [hart |-> h, host |-> micro.host, step |-> micro.step]
      BY <1>5 DEF TicksOf
    <2> HIDE DEF h, k
    <2> QED BY <1>2, <2>1, InterleavedAgain
  <1>10. Functionally.hart.run BY <1>2, <1>6
  <1> QED BY <1>7, <1>8, <1>9, <1>10 DEF F!Step

LEMMA OthersStutter ==
  ASSUME Inv, MaxIdle < Interleave, UNCHANGED program,
         RunAhead \/ StepMicro \/ NextCycle \/ ReturnFromCall \/ Finished
  PROVE  UNCHANGED Functionally
  <1>1. micro \in Core /\ Stopped(micro) BY DEF Inv, SimulatorsOK
  <1>2. CASE RunAhead BY <1>2 DEF RunAhead, Functionally
  <1>3. CASE StepMicro
    <2>1. Functionally = TicksOf(micro) BY <1>3 DEF StepMicro, Functionally
    <2>2. CASE micro.hart.run
      BY <1>3, <2>1, <2>2 DEF StepMicro, Functionally
    <2>3. CASE ~micro.hart.run
      <3>1. micro' = Accounted(micro, 0) /\ at' # "cycle"
        BY <1>3, <2>3 DEF StepMicro
      <3>2. Functionally' = TicksOf(Accounted(micro, 0)) BY <3>1 DEF Functionally
      <3> QED BY <1>1, <2>1, <2>3, <3>2, AccountedIdle
    <2> QED BY <2>2, <2>3
  <1>4. CASE NextCycle
    <2>1. call'.instret = call.instret BY <1>4 DEF NextCycle, Inv, CallOK
    <2> QED BY <1>4, <2>1 DEF NextCycle, Functionally
  <1>5. CASE ReturnFromCall
    <2>1. at = "cycle" /\ at' = "step" /\ micro' = Accounted(micro, call.instret)
      BY <1>5 DEF ReturnFromCall
    <2>2. Functionally' = TicksOf(Accounted(micro, call.instret)) BY <2>1 DEF Functionally
    <2>3. CASE call.instret > 0 BY <2>1, <2>2, <2>3 DEF Functionally
    <2>4. CASE ~(call.instret > 0)
      <3>1. call.instret = 0 /\ call.n >= 1
        BY <2>1, <2>4, <1>1 DEF Inv, CallOK, Core
      <3>2. micro.idle < MaxIdle BY <1>5, <3>1 DEF ReturnFromCall, Inv, CallOK
      <3>3. IdleAfter(micro, 0) # Interleave
        BY <1>1, <3>2, HartAssumption, LockstepAssumption DEF IdleAfter, Core
      <3> QED BY <1>1, <2>2, <3>1, <3>3, AccountedIdle DEF Functionally
    <2> QED BY <2>3, <2>4
  <1>6. CASE Finished BY <1>6 DEF Finished, Functionally
  <1> QED BY <1>2, <1>3, <1>4, <1>5, <1>6

\* If no load races with the host and no stall of the core reaches the idle limit of
\* sim_t::step(), then the core, whatever its width and the bundles in which
\* it retires, executes the program as the functional machine does, with the
\* turns of the host after the same instructions.
THEOREM CoreImplementsFunctional ==
  ASSUME MaxIdle < Interleave
  PROVE  Spec /\ []RaceFree => ImplementsFunctional
  <1>1. Inv /\ RaceFree /\ [Next]_vars => [F!Step]_<<program, Functionally>>
    <2> SUFFICES ASSUME Inv, RaceFree, [Next]_vars
                 PROVE  [F!Step]_<<program, Functionally>>
      OBVIOUS
    <2>1. CASE UNCHANGED vars BY <2>1 DEF vars, Functionally
    <2>2. CASE Next
      <3>1. UNCHANGED program BY <2>2 DEF Next
      <3>2. CASE Retire BY <3>1, <3>2, RetireFunctional
      <3>3. CASE RunAhead \/ StepMicro \/ NextCycle \/ ReturnFromCall \/ Finished
        BY <3>1, <3>3, OthersStutter
      <3> QED BY <2>2, <3>2, <3>3 DEF Next, Step
    <2> QED BY <2>1, <2>2
  <1> QED BY <1>1, Invariant, InitFunctional, PTL DEF Spec, ImplementsFunctional, F!Spec
-----------------------------------------------------------------------------
(* The debug buffer holds what the core will do.                           *)

\* What the functional simulator pushes for machine m, and the machine after it.
EntryOf(p, m) ==
  LET insn == Fetched(p, m.hart.pc)
  IN Entry(m.hart, Executed(m.hart, insn, m.hart.mem), insn)
SteppedIn(p, m) ==
  LET hart == UpdateTimer(Executed(m.hart, Fetched(p, m.hart.pc), m.hart.mem))
  IN F!Interleaved([m EXCEPT !.hart = hart], 1)

\* The machines M[0], M[1] ... are consecutive, and entry k is what M[k-1] does.
Linked(p, M, d) ==
  \A k \in 1..Len(d) :
    /\ M[k-1].hart.run
    /\ M[k] = SteppedIn(p, M[k-1])
    /\ d[k] = EntryOf(p, M[k-1])
AheadBy(p, d, first, last, M) == Linked(p, M, d) /\ M[0] = first /\ M[Len(d)] = last
Ahead(p, d, first, last) == \E M : AheadBy(p, d, first, last, M)

LEMMA SteppedInIs == ASSUME NEW m PROVE F!Stepped(m) = SteppedIn(program, m)
  BY SameFetched, SameExecuted, SameUpdateTimer DEF F!Stepped, SteppedIn

\* run_ahead() and pop() push the entry of the machine at the tail.
LEMMA AheadPush ==
  ASSUME NEW p, NEW d \in Seq(Entries), NEW first, NEW last, Ahead(p, d, first, last),
         last.hart.run, EntryOf(p, last) \in Entries
  PROVE  Ahead(p, Append(d, EntryOf(p, last)), first, SteppedIn(p, last))
  <1>1. PICK M : AheadBy(p, d, first, last, M) BY DEF Ahead
  <1> DEFINE n == Len(d)
             e == EntryOf(p, last)
             d2 == Append(d, e)
             N == [k \in 0..n+1 |-> IF k = n + 1 THEN SteppedIn(p, last) ELSE M[k]]
  <1>2. n \in Nat /\ Len(d2) = n + 1 /\ d2[n+1] = e /\ \A k \in 1..n : d2[k] = d[k]
    OBVIOUS
  <1>3. \A k \in 0..n : N[k] = M[k] BY <1>2
  <1>4. N[n+1] = SteppedIn(p, last) BY <1>2
  <1>5. Linked(p, M, d) /\ M[0] = first /\ M[n] = last BY <1>1 DEF AheadBy
  <1> HIDE DEF N, d2
  <1>6. \A k \in 1..n : N[k-1].hart.run /\ N[k] = SteppedIn(p, N[k-1]) /\ d2[k] = EntryOf(p, N[k-1])
    <2> TAKE k \in 1..n
    <2>1. k - 1 \in 0..n /\ k \in 0..n BY <1>2
    <2>2. N[k-1] = M[k-1] /\ N[k] = M[k] BY <1>3, <2>1
    <2> QED BY <1>2, <1>5, <2>2 DEF Linked
  <1>7. N[n] = last /\ N[0] = first BY <1>2, <1>3, <1>5
  <1>8. N[(n+1)-1].hart.run /\ N[n+1] = SteppedIn(p, N[(n+1)-1]) /\ d2[n+1] = EntryOf(p, N[(n+1)-1])
    <2>1. (n + 1) - 1 = n BY <1>2
    <2> QED BY <1>2, <1>4, <1>7, <2>1
  <1>9. Linked(p, N, d2)
    <2> SUFFICES ASSUME NEW k \in 1..Len(d2)
                 PROVE N[k-1].hart.run /\ N[k] = SteppedIn(p, N[k-1]) /\ d2[k] = EntryOf(p, N[k-1])
      BY DEF Linked
    <2>1. k \in 1..n \/ k = n + 1 BY <1>2
    <2> QED BY <1>6, <1>8, <2>1
  <1>10. AheadBy(p, d2, first, SteppedIn(p, last), N) BY <1>2, <1>4, <1>7, <1>9 DEF AheadBy
  <1> QED BY <1>10 DEF Ahead, d2

\* pop() moves the head to the next machine.
LEMMA AheadPop ==
  ASSUME NEW p, NEW d \in Seq(Entries), d # <<>>, NEW first, NEW last,
         Ahead(p, d, first, last)
  PROVE  /\ Ahead(p, Tail(d), SteppedIn(p, first), last)
         /\ first.hart.run /\ d[1] = EntryOf(p, first)
  <1>1. PICK M : AheadBy(p, d, first, last, M) BY DEF Ahead
  <1> DEFINE n == Len(d)
             d2 == Tail(d)
             N == [k \in 0..n-1 |-> M[k+1]]
  <1>2. n \in Nat /\ n >= 1 /\ Len(d2) = n - 1 /\ \A k \in 1..n-1 : d2[k] = d[k+1]
    OBVIOUS
  <1>3. \A k \in 0..n-1 : N[k] = M[k+1] OBVIOUS
  <1>4. Linked(p, M, d) /\ M[0] = first /\ M[n] = last BY <1>1 DEF AheadBy
  <1> HIDE DEF N, d2
  <1>5. first.hart.run /\ M[1] = SteppedIn(p, first) /\ d[1] = EntryOf(p, first)
    <2>1. 1 \in 1..n /\ 1 - 1 = 0 BY <1>2
    <2> QED BY <1>4, <2>1 DEF Linked
  <1>6. Linked(p, N, d2)
    <2> SUFFICES ASSUME NEW k \in 1..Len(d2)
                 PROVE N[k-1].hart.run /\ N[k] = SteppedIn(p, N[k-1]) /\ d2[k] = EntryOf(p, N[k-1])
      BY DEF Linked
    <2>1. k \in 1..n-1 /\ k - 1 \in 0..n-1 /\ k \in 0..n-1 /\ k + 1 \in 1..n
          /\ (k + 1) - 1 = k /\ (k - 1) + 1 = k
      BY <1>2
    <2>2. N[k-1] = M[k] /\ N[k] = M[k+1] /\ d2[k] = d[k+1] BY <1>2, <1>3, <2>1
    <2>3. M[(k+1)-1].hart.run /\ M[k+1] = SteppedIn(p, M[(k+1)-1]) /\ d[k+1] = EntryOf(p, M[(k+1)-1])
      BY <1>4, <2>1 DEF Linked
    <2> QED BY <2>1, <2>2, <2>3
  <1>7. N[0] = M[1] /\ N[n-1] = M[n]
    <2>1. 0 \in 0..n-1 /\ n - 1 \in 0..n-1 /\ (n - 1) + 1 = n /\ 0 + 1 = 1 BY <1>2
    <2> QED BY <1>3, <2>1
  <1>8. AheadBy(p, d2, SteppedIn(p, first), last, N)
    BY <1>2, <1>4, <1>5, <1>6, <1>7 DEF AheadBy
  <1> QED BY <1>5, <1>8 DEF Ahead, d2

LEMMA AheadEmpty ==
  ASSUME NEW p, NEW first, NEW last
  PROVE  Ahead(p, <<>>, first, last) <=> first = last
  <1>1. ASSUME Ahead(p, <<>>, first, last) PROVE first = last
    <2>1. PICK M : AheadBy(p, <<>>, first, last, M) BY <1>1 DEF Ahead
    <2> QED BY <2>1 DEF AheadBy
  <1>2. ASSUME first = last PROVE Ahead(p, <<>>, first, last)
    <2> DEFINE M == [k \in {0} |-> first]
    <2>1. M[0] = first /\ Len(<<>>) = 0 OBVIOUS
    <2> HIDE DEF M
    <2>2. Linked(p, M, <<>>) BY <2>1 DEF Linked
    <2>3. AheadBy(p, <<>>, first, last, M) BY <1>2, <2>1, <2>2 DEF AheadBy
    <2> QED BY <2>3 DEF Ahead
  <1> QED BY <1>1, <1>2

\* One instruction of the functional simulator is a step of the functional machine.
LEMMA StepISAIsStepped ==
  ASSUME NEW s \in Core, s.hart.run, program \in Programs
  PROVE  LET insn == Fetched(program, s.hart.pc)
             hart == Executed(s.hart, insn, s.hart.mem)
         IN /\ TicksOf(Accounted([s EXCEPT !.hart = UpdateTimer(hart)], 1)) =
                 SteppedIn(program, TicksOf(s))
            /\ Entry(s.hart, hart, insn) = EntryOf(program, TicksOf(s))
            /\ EntryOf(program, TicksOf(s)) \in Entries
            /\ TicksOf(s).hart.run
  <1> DEFINE insn == Fetched(program, s.hart.pc)
             hart == Executed(s.hart, insn, s.hart.mem)
             s2 == [s EXCEPT !.hart = UpdateTimer(hart)]
  <1>1. s.hart.mem \in Values BY DEF Core, HartState
  <1>2. /\ Entry(s.hart, hart, insn) \in Entries
        /\ s2 \in Core /\ s2.hart = UpdateTimer(hart)
        /\ s2.host = s.host /\ s2.step = s.step
    BY <1>1, SteppedType
  <1>3. TicksOf(s) = [hart |-> s.hart, host |-> s.host, step |-> s.step] BY DEF TicksOf
  <1>4. Entry(s.hart, hart, insn) = EntryOf(program, TicksOf(s)) BY <1>3 DEF EntryOf
  <1>5. SteppedIn(program, TicksOf(s)) = F!Interleaved([TicksOf(s) EXCEPT !.hart = UpdateTimer(hart)], 1)
    BY <1>3 DEF SteppedIn
  <1> HIDE DEF s2, hart
  <1>6. TicksOf(s2) = [TicksOf(s) EXCEPT !.hart = UpdateTimer(hart)]
    BY <1>2, <1>3 DEF TicksOf
  <1>7. TicksOf(Accounted(s2, 1)) = F!Interleaved(TicksOf(s2), 1)
    BY <1>2, AccountedIsInterleaved
  <1> QED BY <1>2, <1>3, <1>4, <1>5, <1>6, <1>7 DEF s2, hart

\* The buffer leads from the machine the core has reached to the functional
\* simulator, and it is at most one short while that runs.
DebugBufferAhead == Ahead(program, db, Functionally, TicksOf(isa))
Full == at # "run_ahead" /\ isa.hart.run => Len(db) >= DebugSize - 1
BufferInv == DebugBufferAhead /\ Full

LEMMA InitBuffer == Init => BufferInv
  <1> SUFFICES ASSUME Init PROVE BufferInv OBVIOUS
  <1>1. Functionally = TicksOf(isa) /\ db = <<>> /\ at = "run_ahead"
    BY DEF Init, Functionally
  <1>2. DebugBufferAhead BY <1>1, AheadEmpty DEF DebugBufferAhead
  <1> QED BY <1>1, <1>2 DEF BufferInv, Full

LEMMA RunAheadBuffer ==
  ASSUME Inv, BufferInv, RunAhead, UNCHANGED program, UNCHANGED Functionally
  PROVE  BufferInv'
  <1>1. isa \in Core /\ Stopped(isa) /\ program \in Programs /\ db \in Seq(Entries)
    BY DEF Inv, SimulatorsOK, BufferOK
  <1>2. CASE isa.hart.run
    <2> DEFINE insn == Fetched(program, isa.hart.pc)
               hart == Executed(isa.hart, insn, isa.hart.mem)
    <2>1. isa' = Accounted([isa EXCEPT !.hart = UpdateTimer(hart)], 1)
          /\ db' = Append(db, Entry(isa.hart, hart, insn))
      BY <1>2 DEF RunAhead, StepISA
    <2>2. /\ TicksOf(Accounted([isa EXCEPT !.hart = UpdateTimer(hart)], 1)) =
               SteppedIn(program, TicksOf(isa))
          /\ Entry(isa.hart, hart, insn) = EntryOf(program, TicksOf(isa))
          /\ EntryOf(program, TicksOf(isa)) \in Entries /\ TicksOf(isa).hart.run
      BY <1>1, <1>2, StepISAIsStepped
    <2> HIDE DEF insn, hart
    <2>3. Ahead(program, Append(db, EntryOf(program, TicksOf(isa))), Functionally, SteppedIn(program, TicksOf(isa)))
      BY <1>1, <2>2, AheadPush DEF BufferInv, DebugBufferAhead
    <2>4. TicksOf(isa)' = SteppedIn(program, TicksOf(isa)) BY <2>1, <2>2 DEF TicksOf
    <2>5. DebugBufferAhead' BY <2>1, <2>2, <2>3, <2>4 DEF DebugBufferAhead
    <2>6. Full' BY LockstepAssumption DEF RunAhead, Full
    <2> QED BY <2>5, <2>6 DEF BufferInv
  <1>3. CASE ~isa.hart.run
    <2>1. isa' = Accounted(isa, 0) /\ db' = db BY <1>3 DEF RunAhead, StepISA
    <2>2. TicksOf(Accounted(isa, 0)) = TicksOf(isa) BY <1>1, <1>3, AccountedIdle
    <2>3. TicksOf(isa)' = TicksOf(isa) BY <2>1, <2>2 DEF TicksOf
    <2>4. DebugBufferAhead' BY <2>1, <2>3 DEF DebugBufferAhead, BufferInv
    <2>5. Full' BY LockstepAssumption DEF RunAhead, Full
    <2> QED BY <2>4, <2>5 DEF BufferInv
  <1> QED BY <1>2, <1>3

LEMMA RetireBuffer ==
  ASSUME Inv, BufferInv, RaceFree, Retire, UNCHANGED program
  PROVE  BufferInv'
  <1>1. isa \in Core /\ program \in Programs /\ db \in Seq(Entries) /\ db # <<>>
        /\ Len(db) \in Nat /\ Len(db) <= DebugSize /\ at = "cycle" /\ at' = at
    BY DEF Inv, SimulatorsOK, BufferOK, Retire
  <1>2. Functionally' = SteppedIn(program, Functionally)
    BY RetireFunctional, SteppedInIs DEF F!Step
  <1>3. Ahead(program, db, Functionally, TicksOf(isa)) BY DEF BufferInv, DebugBufferAhead
  <1>4. CASE Len(db) < DebugSize /\ isa.hart.run
    <2> DEFINE insn == Fetched(program, isa.hart.pc)
               hart == Executed(isa.hart, insn, isa.hart.mem)
               e == EntryOf(program, TicksOf(isa))
               d == Append(db, e)
    <2>1. isa' = Accounted([isa EXCEPT !.hart = UpdateTimer(hart)], 1)
          /\ db' = Tail(Append(db, Entry(isa.hart, hart, insn)))
      BY <1>4 DEF Retire, PopActual
    <2>2. /\ TicksOf(Accounted([isa EXCEPT !.hart = UpdateTimer(hart)], 1)) =
               SteppedIn(program, TicksOf(isa))
          /\ Entry(isa.hart, hart, insn) = e
          /\ e \in Entries /\ TicksOf(isa).hart.run
      BY <1>1, <1>4, StepISAIsStepped
    <2> HIDE DEF insn, hart
    <2>3. Ahead(program, d, Functionally, SteppedIn(program, TicksOf(isa)))
      BY <1>1, <1>3, <2>2, AheadPush
    <2> HIDE DEF e
    <2>4. d \in Seq(Entries) /\ d # <<>> /\ Len(d) = Len(db) + 1 BY <1>1, <2>2
    <2>5. db' = Tail(d) BY <2>1, <2>2
    <2> HIDE DEF d
    <2>6. Ahead(program, Tail(d), SteppedIn(program, Functionally), SteppedIn(program, TicksOf(isa)))
      BY <2>3, <2>4, AheadPop
    <2>7. TicksOf(isa)' = SteppedIn(program, TicksOf(isa)) BY <2>1, <2>2 DEF TicksOf
    <2>8. DebugBufferAhead' BY <1>2, <2>5, <2>6, <2>7 DEF DebugBufferAhead
    <2>9. Len(db') = Len(db) BY <1>1, <2>4, <2>5
    <2>10. Full' BY <1>1, <1>4, <2>9 DEF BufferInv, Full
    <2> QED BY <2>8, <2>10 DEF BufferInv
  <1>5. CASE ~(Len(db) < DebugSize /\ isa.hart.run)
    <2>1. isa' = isa /\ db' = Tail(db) BY <1>5 DEF Retire, PopActual
    <2>2. Ahead(program, Tail(db), SteppedIn(program, Functionally), TicksOf(isa))
      BY <1>1, <1>3, AheadPop
    <2>3. TicksOf(isa)' = TicksOf(isa) BY <2>1 DEF TicksOf
    <2>4. DebugBufferAhead' BY <1>2, <2>1, <2>2, <2>3 DEF DebugBufferAhead
    <2>5. Len(db') = Len(db) - 1 BY <1>1, <2>1
    <2>6. isa.hart.run => Len(db) >= DebugSize BY <1>1, <1>5, LockstepAssumption
    <2>7. Full' BY <1>1, <2>1, <2>5, <2>6, LockstepAssumption DEF Full
    <2> QED BY <2>4, <2>7 DEF BufferInv
  <1> QED BY <1>4, <1>5

LEMMA OthersBuffer ==
  ASSUME BufferInv, UNCHANGED <<program, db, isa>>, UNCHANGED Functionally,
         at = "run_ahead" => at' = "run_ahead"
  PROVE  BufferInv'
  <1>1. TicksOf(isa)' = TicksOf(isa) BY DEF TicksOf
  <1> QED BY <1>1 DEF BufferInv, DebugBufferAhead, Full

LEMMA NextBuffer ==
  ASSUME MaxIdle < Interleave, Inv, BufferInv, RaceFree, [Next]_vars
  PROVE  BufferInv'
  <1>1. CASE UNCHANGED vars
    <2>1. UNCHANGED Functionally BY <1>1 DEF vars, Functionally
    <2> QED BY <1>1, <2>1, OthersBuffer DEF vars
  <1>2. CASE Next
    <2>1. UNCHANGED program BY <1>2 DEF Next
    <2>2. CASE Retire BY <2>1, <2>2, RetireBuffer
    <2>3. CASE RunAhead
      <3>1. UNCHANGED Functionally BY <2>1, <2>3, OthersStutter
      <3> QED BY <2>1, <2>3, <3>1, RunAheadBuffer
    <2>4. CASE StepMicro \/ NextCycle \/ ReturnFromCall \/ Finished
      <3>1. UNCHANGED Functionally BY <2>1, <2>4, OthersStutter
      <3>2. UNCHANGED <<db, isa>> /\ at # "run_ahead"
        BY <2>4 DEF StepMicro, NextCycle, ReturnFromCall, Finished
      <3> QED BY <2>1, <3>1, <3>2, OthersBuffer
    <2> QED BY <1>2, <2>2, <2>3, <2>4 DEF Next, Step
  <1> QED BY <1>1, <1>2

\* With both, what the checker compares is equal.
LEMMA BufferAgrees ==
  ASSUME DebugSize > 1, Inv, BufferInv, RaceFree
  PROVE  at = "cycle" /\ MayRetire =>
           /\ db # <<>>
           /\ \A loaded \in Loads :
                db[1] = Entry(micro.hart, Retired(loaded), HeadInsn)
  <1> SUFFICES ASSUME at = "cycle", MayRetire
               PROVE  /\ db # <<>>
                      /\ \A loaded \in Loads :
                           db[1] = Entry(micro.hart, Retired(loaded), HeadInsn)
    OBVIOUS
  <1>1. Functionally = [hart |-> micro.hart, host |-> micro.host,
                        step |-> micro.step + call.instret]
    BY FunctionallyBefore DEF MayRetire
  <1>2. micro.hart.run /\ db \in Seq(Entries) BY DEF Inv, CallOK, BufferOK
  <1>3. db # <<>>
    <2> SUFFICES ASSUME db = <<>> PROVE FALSE OBVIOUS
    <2>1. Functionally = TicksOf(isa) BY AheadEmpty DEF BufferInv, DebugBufferAhead
    <2>2. isa.hart.run BY <1>1, <1>2, <2>1 DEF TicksOf
    <2>3. Len(db) >= DebugSize - 1 /\ Len(db) = 0 BY <2>2 DEF BufferInv, Full
    <2> QED BY <2>3, LockstepAssumption
  <1>4. db[1] = EntryOf(program, Functionally)
    BY <1>2, <1>3, AheadPop DEF BufferInv, DebugBufferAhead
  <1>5. EntryOf(program, Functionally) = Entry(micro.hart, Retired(micro.hart.mem), HeadInsn)
    BY <1>1 DEF EntryOf, Retired, HeadInsn
  <1>6. \A loaded \in Loads : loaded = micro.hart.mem BY DEF RaceFree
  <1> QED BY <1>3, <1>4, <1>5, <1>6

\* Whatever retires is at the head of the debug buffer, with its PC, its value,
\* its trap and the state it leaves: with the assumptions of CoreImplementsFunctional
\* the assertions of checker() and pop() hold, for every program and every width,
\* and for every debug buffer of more than one entry.
THEOREM RetirementChecked ==
  ASSUME MaxIdle < Interleave, DebugSize > 1
  PROVE  Spec /\ []RaceFree => []RetirementAgrees
  <1>1. Inv /\ BufferInv /\ RaceFree /\ [Next]_vars => BufferInv' BY NextBuffer
  <1>2. Inv /\ BufferInv /\ RaceFree /\ TypeOK => RetirementAgrees
    BY BufferAgrees DEF RetirementAgrees
  <1> QED BY <1>1, <1>2, InitBuffer, Invariant, Types, PTL DEF Spec
=============================================================================
