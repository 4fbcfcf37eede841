------------------------------ MODULE FrontEnd ------------------------------
(***************************************************************************)
(* The front end of the core with the two rings that follow every          *)
(* instruction: fetch(), decode(), the Fetch Queue and rename1(), the      *)
(* payload buffer PAY with map_to_actual(), and the debug buffer that the  *)
(* functional simulator fills and retire() checks against.                 *)
(*                                                                         *)
(* The back end is the Active List as a sequence: what an instruction      *)
(* computes is what the functional simulator computed while it is on the   *)
(* path of the program and depends on no load that ran too early (module   *)
(* Renamer: execution implements the in-order machine; module LSU: a load  *)
(* that ran too early is caught), and anything otherwise.                  *)
(***************************************************************************)
EXTENDS Integers, Sequences, FiniteSets

CONSTANTS
  FetchWidth, DispatchWidth,  (* bundles of fetch and of rename            *)
  FQSize,                     (* entries of the Fetch Queue                *)
  ActiveSize,                 (* entries of the Active List                *)
  PaySize,                    (* PAYLOAD_BUFFER_SIZE: two per instruction  *)
  DebugSize,                  (* entries of the debug buffer               *)
  Programs,                   (* each the kind of instruction at each PC   *)
  Target,                     (* the target of the direct jump at a PC     *)
  Landings,                   (* where an indirect jump or a return leads  *)
  Handler,                    (* state.evec                                *)
  LineSize                    (* instructions per line of the I-cache      *)

PCs == DOMAIN Target
Kinds == {"alu", "load", "branch", "jal", "jalr", "amo", "csr", "sret",
          "syscall", "fault"}
MaxInFlight == ActiveSize + DispatchWidth + FQSize + FetchWidth

ASSUME FrontEndAssumption ==
  /\ {FetchWidth, DispatchWidth, FQSize, ActiveSize, PaySize, DebugSize, LineSize}
       \subseteq Nat \ {0}
  /\ IsFiniteSet(PCs) /\ PCs = 0..Cardinality(PCs)-1
  /\ Programs \subseteq [PCs -> Kinds] /\ Target \in [PCs -> PCs]
  /\ Landings \subseteq PCs /\ Handler \in PCs
  /\ FQSize >= 2 * FetchWidth + DispatchWidth - 1
  /\ ActiveSize >= DispatchWidth
  /\ PaySize % 2 = 0 /\ PaySize > 2 * MaxInFlight
  /\ DebugSize > MaxInFlight
  /\ \A program \in Programs, p \in PCs : program[p] = "load" => (p + 1) % Cardinality(PCs) # Handler

VARIABLES
  code,      (* the program, which does not change                         *)
  pc,        (* the speculative program counter of fetch                   *)
  stalls,    (* which of fetch_exception, fetch_amo, fetch_csr are set     *)
  fetching,  (* fetch() is composing a bundle                              *)
  decode,    (* DECODE: PAY indices of the fetch bundle                    *)
  fq,        (* the Fetch Queue                                            *)
  rename2,   (* RENAME2: PAY indices of the rename bundle                  *)
  window,    (* the Active List from its head                              *)
  pay,       (* PAY                                                        *)
  db,        (* the debug buffer                                           *)
  isaPC      (* state.pc of the functional simulator                       *)

core == <<pc, stalls, fetching, decode, fq, rename2, window, pay, db, isaPC>>
vars == <<code, core>>
-----------------------------------------------------------------------------
(* The program.                                                            *)

IncrementPC(p) == (p + 1) % Cardinality(PCs)

\* Where the instruction at p may lead: by its operands, to the handler, to
\* epc, or to itself (a CSR access that serializes first).
ArchNext(p) ==
  CASE code[p] = "branch" -> {IncrementPC(p), Target[p]}
    [] code[p] = "jal" -> {Target[p]}
    [] code[p] \in {"jalr", "sret"} -> Landings
    [] code[p] = "csr" -> {p, IncrementPC(p)}
    [] code[p] = "load" -> {IncrementPC(p), Handler}
    [] code[p] \in {"syscall", "fault"} -> {Handler}
    [] OTHER -> {IncrementPC(p)}

\* What fetch() takes for the next PC.
Predictions(kind, p) ==
  CASE kind = "branch" -> {IncrementPC(p), Target[p]}
    [] kind = "jal" -> {Target[p]}
    [] kind = "jalr" -> PCs
    [] OTHER -> {IncrementPC(p)}
-----------------------------------------------------------------------------
(* The debug buffer.                                                       *)

Actual == [pc : PCs, next : PCs, exception : BOOLEAN]
NoActual == [pc |-> Handler, next |-> Handler, exception |-> FALSE]
NoIndex == DebugSize
EmptyDB == [buf |-> [i \in 0..DebugSize-1 |-> NoActual],
            head |-> 0, tail |-> DebugSize - 1, length |-> 0]

Hungry == db.length < DebugSize

IsActive(d, e) ==
  /\ d.length > 0
  /\ IF d.head <= d.tail THEN e >= d.head /\ e <= d.tail
                         ELSE e >= d.head \/ e <= d.tail

CheckNext(i, p) ==
  LET e == (i + 1) % DebugSize
  IN IF IsActive(db, e) /\ db.buf[e].pc = p THEN e ELSE NoIndex

\* Only a load tells its trap by where it leads.
Traps(p, n) == code[p] \in {"syscall", "fault"} \/ (code[p] = "load" /\ n # IncrementPC(p))

\* start() and the pushes of one instruction that leads to n.
PushActual(d, n) ==
  LET t == (d.tail + 1) % DebugSize
  IN [d EXCEPT !.buf[t] = [pc |-> isaPC, next |-> n,
                           exception |-> Traps(isaPC, n)],
               !.tail = t, !.length = @ + 1]

\* The functional simulator steps while the buffer is hungry (pop() lets it
\* do so before it takes the head away).
PopActual(d) ==
  [d EXCEPT !.buf[d.head] = NoActual,
            !.head = (@ + 1) % DebugSize, !.length = @ - 1]

StepAndPop ==
  IF Hungry
  THEN \E n \in ArchNext(isaPC) :
         /\ db' = PopActual(PushActual(db, n))
         /\ isaPC' = n
  ELSE /\ db' = PopActual(db)
       /\ UNCHANGED isaPC
-----------------------------------------------------------------------------
(* The payload buffer.                                                     *)

NopKind == "nop"
Insn == [kind : Kinds \cup {NopKind}, pc : PCs, next : PCs, c_next : PCs,
         fetch_exception : BOOLEAN, good : BOOLEAN, db_index : 0..DebugSize]
NoInsn == [kind |-> NopKind, pc |-> Handler, next |-> Handler,
           c_next |-> Handler, fetch_exception |-> FALSE,
           good |-> FALSE, db_index |-> NoIndex]
EmptyPay == [buf |-> [i \in 0..PaySize-1 |-> NoInsn],
             head |-> 0, tail |-> 0, length |-> 0]

\* map_to_actual() for an instruction fetched from p into slot i.
MapToActual(i, p) ==
  LET prev == pay.buf[(i + PaySize - 2) % PaySize]
  IN IF i = pay.head THEN db.head
     ELSE IF prev.good THEN CheckNext(prev.db_index, p)
     ELSE NoIndex

PayPush(insn) ==
  [pay EXCEPT !.buf[pay.tail] = insn,
              !.tail = (@ + 2) % PaySize, !.length = @ + 2]

\* Popped twice per instruction.
PayPop == [pay EXCEPT !.buf[pay.head] = NoInsn,
                      !.head = (@ + 2) % PaySize, !.length = @ - 2]

RolledBackTailEarly(i) == i                      \* mutant: the branch goes as well
RolledBackTail(i) == (i + 2) % PaySize

PayRollback(p, i) ==
  LET t == RolledBackTail(i)
      len == (PaySize + t - p.head) % PaySize
  IN [p EXCEPT !.tail = t, !.length = len,
               !.buf = [j \in 0..PaySize-1 |->
                          IF (PaySize + j - p.head) % PaySize < len
                          THEN p.buf[j] ELSE NoInsn]]
-----------------------------------------------------------------------------
(* The Fetch Queue.                                                        *)

EmptyFQ == [q |-> [i \in 0..FQSize-1 |-> 0], head |-> 0, tail |-> 0, length |-> 0]

EnoughSpace(n) == FQSize - fq.length >= n
BundleReady(n) == fq.length >= n

FQPlace(k) == (fq.tail + k - 1) % FQSize
\* push() of each instruction of a bundle.
FQPushBundle(bundle) ==
  [fq EXCEPT !.q = [i \in 0..FQSize-1 |->
                      IF \E k \in DOMAIN bundle : i = FQPlace(k)
                      THEN bundle[CHOOSE k \in DOMAIN bundle : i = FQPlace(k)] ELSE fq.q[i]],
             !.tail = (@ + Len(bundle)) % FQSize, !.length = @ + Len(bundle)]
FQSlot(k) == (fq.head + k - 1) % FQSize
FQHeadAfter(n) == (fq.head + n) % FQSize
FQPopBundle(n) ==
  [fq EXCEPT !.q = [i \in 0..FQSize-1 |->
                      IF \E k \in 1..n : i = FQSlot(k) THEN 0 ELSE fq.q[i]],
             !.head = FQHeadAfter(n), !.length = @ - n]
-----------------------------------------------------------------------------
Slot == [index : 0..PaySize-1, completed : BOOLEAN, exception : BOOLEAN,
         load_viol : BOOLEAN]

Init ==
  /\ code \in Programs /\ pc = 0 /\ stalls = {} /\ fetching = FALSE
  /\ decode = <<>> /\ fq = EmptyFQ /\ rename2 = <<>> /\ window = <<>>
  /\ pay = EmptyPay /\ db = EmptyDB /\ isaPC = 0

\* Before the first cycle the functional simulator fills the debug buffer.
Booting == pay = EmptyPay /\ db.head = 0 /\ Hungry

RunAhead ==
  /\ Booting
  /\ \E n \in ArchNext(isaPC) : db' = PushActual(db, n) /\ isaPC' = n
  /\ UNCHANGED <<pc, stalls, fetching, decode, fq, rename2, window, pay>>

\* No other stage runs while fetch() is in its loop.
Idle == ~fetching /\ ~Booting
-----------------------------------------------------------------------------
(* fetch()                                                                 *)

\* fetch() stalls while decode has not taken the last bundle.
MayFetchLiteral == decode = <<>> /\ stalls = {}   \* mutant: a literal stall
MayFetch == decode = <<>>

\* A stalled fetch injects NOPs.
FetchedKind == IF stalls # {} THEN NopKind ELSE code[pc]

StallOf(kind) ==
  CASE kind = "fault" -> {"exception"}
    [] kind = "amo" -> {"amo"}
    [] kind \in {"csr", "sret", "syscall"} -> {"csr"}
    [] OTHER -> {}

StopsBundle(kind, next) ==
  \/ kind \in {"jal", "jalr"}
  \/ kind = "branch" /\ next # IncrementPC(pc)
  \/ pc \div LineSize # next \div LineSize

FetchOne ==
  /\ fetching \/ (Idle /\ MayFetch)
  /\ stalls' = stalls \cup StallOf(FetchedKind)
  /\ \E next \in Predictions(FetchedKind, pc) :
       LET mapped == MapToActual(pay.tail, pc)
       IN /\ pay' = PayPush([kind |-> FetchedKind, pc |-> pc, next |-> next,
                             c_next |-> next,
                             fetch_exception |-> "exception" \in stalls',
                             good |-> mapped # NoIndex, db_index |-> mapped])
          /\ pc' = next
          /\ fetching' = (Len(decode) + 1 < FetchWidth /\ ~StopsBundle(FetchedKind, next))
  /\ decode' = Append(decode, pay.tail)
  /\ UNCHANGED <<fq, rename2, window, db, isaPC>>
-----------------------------------------------------------------------------
(* decode(), rename1() and the way to the Active List                      *)

\* decode() wants room for two micro-instructions per instruction.
Decode ==
  /\ Idle
  /\ decode # <<>>
  /\ EnoughSpace(2 * Len(decode))
  /\ fq' = FQPushBundle(decode)
  /\ decode' = <<>>
  /\ UNCHANGED <<pc, stalls, fetching, rename2, window, pay, db, isaPC>>

Rename1 ==
  /\ Idle
  /\ rename2 = <<>>
  /\ BundleReady(DispatchWidth)
  /\ rename2' = [k \in 1..DispatchWidth |-> fq.q[FQSlot(k)]]
  /\ fq' = FQPopBundle(DispatchWidth)
  /\ UNCHANGED <<pc, stalls, fetching, decode, window, pay, db, isaPC>>

\* rename2() and dispatch(): NOPs and system calls skip the Issue Queue.
Dispatched(i) ==
  LET insn == pay.buf[i]
  IN [index |-> i,
      completed |-> insn.kind \in {NopKind, "fault", "syscall"},
      exception |-> insn.kind = "syscall" \/ insn.fetch_exception,
      load_viol |-> FALSE]

Dispatch ==
  /\ Idle
  /\ rename2 # <<>>
  /\ Len(window) + DispatchWidth <= ActiveSize
  /\ window' = window \o [k \in 1..Len(rename2) |-> Dispatched(rename2[k])]
  /\ rename2' = <<>>
  /\ UNCHANGED <<pc, stalls, fetching, decode, fq, pay, db, isaPC>>
-----------------------------------------------------------------------------
(* Execution, as far as the front end depends on it.                       *)

InsnAt(i) == pay.buf[window[i].index]

\* The instruction reads what it reads in the program.
OperandsRight(i) == InsnAt(i).good /\ \A j \in 1..i-1 : ~window[j].load_viol

Outcomes(i) ==
  IF OperandsRight(i) THEN {db.buf[InsnAt(i).db_index].next} ELSE ArchNext(InsnAt(i).pc)

ExecuteOther(i) ==
  /\ InsnAt(i).kind \in {"alu", "amo", "csr", "sret"}
  /\ window' = [window EXCEPT ![i].completed = TRUE]
  /\ UNCHANGED <<pc, stalls, decode, fq, rename2, pay>>

\* A load may pass an older store whose address is not known: then the store
\* marks it.
ExecuteLoad(i) ==
  /\ InsnAt(i).kind = "load"
  /\ \E n \in Outcomes(i), early \in BOOLEAN :
       LET trap == Traps(InsnAt(i).pc, n)
       IN /\ early => i > 1 /\ ~trap
          /\ window' = [window EXCEPT ![i].completed = TRUE, ![i].exception = trap,
                                      ![i].load_viol = early]
  /\ UNCHANGED <<pc, stalls, decode, fq, rename2, pay>>

StallsKept == stalls                             \* mutant: the flags are not cleared
StallsRecovered == {}
FQKept == fq                                     \* mutant: FQ.flush() is left out
FQRecovered == EmptyFQ

BranchKinds == {"branch", "jal", "jalr"}

ResolveCorrect(i) ==
  /\ InsnAt(i).kind \in BranchKinds
  /\ InsnAt(i).next \in Outcomes(i)
  /\ window' = [window EXCEPT ![i].completed = TRUE]
  /\ UNCHANGED <<pc, stalls, decode, fq, rename2, pay>>

\* writeback() of a mispredicted branch, with resolve() and PAY.rollback().
ResolveMispredicted(i) ==
  /\ InsnAt(i).kind \in BranchKinds
  /\ \E c_next \in Outcomes(i) \ {InsnAt(i).next} :
       /\ pc' = c_next
       /\ pay' = PayRollback([pay EXCEPT !.buf[window[i].index].c_next = c_next],
                             window[i].index)
  /\ stalls' = StallsRecovered
  /\ decode' = <<>> /\ fq' = FQRecovered /\ rename2' = <<>>
  /\ window' = [SubSeq(window, 1, i) EXCEPT ![i].completed = TRUE]

Execute(i) ==
  /\ Idle
  /\ i <= Len(window) /\ ~window[i].completed
  /\ \/ ExecuteOther(i)
     \/ ExecuteLoad(i)
     \/ ResolveCorrect(i)
     \/ ResolveMispredicted(i)
  /\ UNCHANGED <<fetching, db, isaPC>>
-----------------------------------------------------------------------------
(* retire()                                                                *)

Oracle == db.buf[db.head]

\* squash_complete() and PAY.clear().
SquashComplete(jump_PC) ==
  /\ pc' = jump_PC
  /\ stalls' = {}
  /\ decode' = <<>> /\ fq' = EmptyFQ /\ rename2' = <<>> /\ window' = <<>>
  /\ pay' = EmptyPay

HeadReady == Idle /\ window # <<>> /\ window[1].completed

\* A CSR access that serializes is refetched.
Serializes == InsnAt(1).kind = "csr" /\ Oracle.next = InsnAt(1).pc

RetireCommit ==
  /\ HeadReady
  /\ ~window[1].exception /\ ~window[1].load_viol /\ ~Serializes
  /\ StepAndPop
  /\ CASE InsnAt(1).kind \in {"amo", "csr"} -> SquashComplete(IncrementPC(InsnAt(1).pc))
       [] InsnAt(1).kind = "sret" -> SquashComplete(Oracle.next)
       [] OTHER -> /\ window' = Tail(window)
                   /\ pay' = PayPop
                   /\ UNCHANGED <<pc, stalls, decode, fq, rename2>>
  /\ UNCHANGED fetching

RestartPCAfter == IncrementPC(InsnAt(1).pc)      \* mutant: the load is skipped
RestartPC == InsnAt(1).pc

RetireViolation ==
  /\ HeadReady
  /\ ~window[1].exception /\ window[1].load_viol
  /\ SquashComplete(RestartPC)
  /\ UNCHANGED <<fetching, db, isaPC>>

RetireException ==
  /\ HeadReady
  /\ window[1].exception \/ (Serializes /\ ~window[1].load_viol)
  /\ StepAndPop
  /\ SquashComplete(IF window[1].exception THEN Handler ELSE InsnAt(1).pc)
  /\ UNCHANGED fetching
-----------------------------------------------------------------------------
Step ==
  \/ RunAhead
  \/ FetchOne
  \/ Decode \/ Rename1 \/ Dispatch
  \/ \E i \in 1..ActiveSize : Execute(i)
  \/ RetireCommit \/ RetireViolation \/ RetireException

Next == Step /\ UNCHANGED code

\* step_micro() calls every stage in every cycle.
Fairness ==
  /\ WF_core(RunAhead)
  /\ WF_core(FetchOne)
  /\ WF_core(Decode) /\ WF_core(Rename1) /\ WF_core(Dispatch)
  /\ WF_core(Execute(1))
  /\ WF_core(RetireCommit \/ RetireViolation \/ RetireException)

Spec == Init /\ [][Next]_vars /\ Fairness
-----------------------------------------------------------------------------
(* Properties                                                              *)

IndexesOf(slots) == [k \in 1..Len(slots) |-> slots[k].index]

\* PAY indices of everything in flight, oldest first.
InFlight ==
  IndexesOf(window) \o rename2 \o [k \in 1..fq.length |-> fq.q[FQSlot(k)]] \o decode
Path == LET indexes == InFlight IN [k \in DOMAIN indexes |-> pay.buf[indexes[k]]]

\* Every variable stays in its domain.
TypeOK ==
  /\ pc \in PCs /\ isaPC \in PCs
  /\ stalls \subseteq {"exception", "amo", "csr"} /\ Cardinality(stalls) <= 1
  /\ fetching \in BOOLEAN
  /\ Len(decode) <= FetchWidth /\ Len(rename2) \in {0, DispatchWidth}
  /\ Len(window) <= ActiveSize
  /\ \A k \in DOMAIN window : window[k] \in Slot
  /\ fq.length \in 0..FQSize /\ fq.head \in 0..FQSize-1 /\ fq.tail \in 0..FQSize-1
  /\ pay.length \in 0..PaySize
  /\ \A i \in 0..PaySize-1 : pay.buf[i] \in Insn
  /\ db.length \in 0..DebugSize /\ \A i \in 0..DebugSize-1 : db.buf[i] \in Actual

\* Types; the live part of PAY is what is in flight, in program order, whatever was
\* rolled back, popped or cleared before (payload.cc: push, pop, rollback).
PayExact ==
  /\ TypeOK
  /\ pay.tail = (pay.head + pay.length) % PaySize
  /\ InFlight = [k \in 1..pay.length \div 2 |-> (pay.head + 2 * (k - 1)) % PaySize]

\* What is in flight is one path: each instruction is where its predecessor
\* leads, by its outcome once that is known and by its prediction before, and
\* fetch continues where the last one leads (a recovery of writeback() or
\* retire() never leaves younger instructions of the other path behind).
InFlightIsPath ==
  LET path == Path
      n == Len(path)
  IN /\ \A k \in 1..n-1 : path[k+1].pc = path[k].c_next
     /\ n > 0 => pc = path[n].c_next
     /\ n = 0 /\ db.length > 0 => pc = Oracle.pc

\* map_to_actual() links exactly the instructions up to the first that is not
\* on the path of the program, each to its own entry of the debug buffer.
GoodExact ==
  LET path == Path
      Entry(k) == (db.head + k - 1) % DebugSize
      OnPath(k) == \A j \in 1..k : j <= db.length /\ path[j].pc = db.buf[Entry(j)].pc
  IN \A k \in DOMAIN path :
       /\ path[k].good <=> OnPath(k)
       /\ path[k].good => path[k].db_index = Entry(k)

\* What retires is the next instruction of the program, never a NOP, with its
\* outcome and its trap.
RetiresOracle ==
  HeadReady /\ (window[1].exception \/ ~window[1].load_viol) =>
    /\ InsnAt(1).kind # NopKind
    /\ InsnAt(1).good /\ InsnAt(1).db_index = db.head /\ db.length > 0
    /\ InsnAt(1).pc = Oracle.pc
    /\ window[1].exception <=> Oracle.exception
    /\ InsnAt(1).kind \in BranchKinds => InsnAt(1).c_next = Oracle.next

\* The debug buffer is matched exactly while instructions are in flight, through
\* wrong paths and squashes, and the assertions of checker() and of
\* debug_buffer_t::pop() hold at retirement.
CheckerAgrees == GoodExact /\ RetiresOracle

\* A flag of fetch is set exactly while the instruction that set it is in
\* flight, and only NOPs follow it (writeback() infers that a misprediction
\* is older than the instruction that set the flag).
StallFlagsExact ==
  LET path == Path
      serializing == {k \in DOMAIN path : StallOf(path[k].kind) # {}}
  IN /\ Cardinality(serializing) <= 1
     /\ stalls = UNION {StallOf(path[k].kind) : k \in serializing}
     /\ \A k \in DOMAIN path : path[k].kind = NopKind <=> \E s \in serializing : s < k

\* The core retires for ever: fetch injects NOPs where it could stall, so that
\* rename1() gets full bundles (the comment at fetch.cc:86-89).
RetiresForever == []<><<RetireCommit \/ RetireException>>_vars
=============================================================================
