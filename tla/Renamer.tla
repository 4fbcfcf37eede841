------------------------------ MODULE Renamer ------------------------------
(***************************************************************************)
(* Register renaming of the core (renamer.h, renamer.cc) under the         *)
(* protocol the pipeline drives it with (rename.cc, dispatch.cc,           *)
(* execute.cc, writeback.cc, retire.cc, squash.cc).                        *)
(*                                                                         *)
(* The renamer keeps a Rename Map Table and an Architectural Map Table, a  *)
(* circular Free List of physical registers, a circular Active List of     *)
(* in-flight instructions, a checkpoint per unresolved branch, the Global  *)
(* Branch Mask and a physical register file with ready bits.               *)
(*                                                                         *)
(* The pipeline stages are abstracted to the calls they make.  The loop of *)
(* rename2() and the loop of dispatch() are one action per instruction;    *)
(* "phase" gives such a loop the machine until it is finished, as in the   *)
(* code, where a stage runs to its end before another stage starts.        *)
(***************************************************************************)
EXTENDS Integers, Sequences, FiniteSets

CONSTANTS
  NumLog,            (* logical registers                                   *)
  NumPhys,           (* physical registers                                  *)
  NumBranches,       (* branch checkpoints                                  *)
  DispatchWidth,     (* instructions in a rename or dispatch bundle         *)
  IntWidth,          (* bits of the int in which 1 << ID is computed (32)   *)
  WordWidth,         (* bits of the Global Branch Mask (64)                 *)
  Kinds,             (* kinds of instruction the program holds              *)
  NumValues,         (* values of a register                                *)
  KeepOneFree,       (* workload bound: no bundle takes the last register   *)
  PerfectBranchPred  (* PERFECT_BRANCH_PRED: branches are never mispredicted *)

AllKinds == {"alu", "illegal", "fp", "load", "load_x0", "store", "branch", "jump", "csr",
             "nop", "trap"}

ASSUME SizesAssumption ==
  /\ NumLog \in Nat \ {0}
  /\ NumPhys \in Nat /\ NumPhys > NumLog
  /\ NumBranches \in Nat \ {0}
  /\ DispatchWidth \in Nat \ {0}
  /\ IntWidth \in Nat \ {0} /\ WordWidth \in Nat
  /\ NumBranches <= WordWidth /\ IntWidth <= WordWidth
  /\ NumValues \in Nat \ {0}
  /\ KeepOneFree \in BOOLEAN
  /\ Kinds \subseteq AllKinds
  /\ PerfectBranchPred \in BOOLEAN

ListSize == NumPhys - NumLog      (* entries of the Free List and of the Active List *)
Log      == 0 .. NumLog - 1
Phys     == 0 .. NumPhys - 1
Slot     == 0 .. ListSize - 1
BranchID == 0 .. NumBranches - 1
Bits     == 0 .. WordWidth - 1
Val      == 0 .. NumValues - 1

NextSlot(i) == IF i = ListSize - 1 THEN 0 ELSE i + 1

-----------------------------------------------------------------------------
(* Instructions.  One source register stands for the three (A, B, D) the   *)
(* code handles alike.  A kind says what the decoder found: "load_x0" is a *)
(* load whose destination is x0, "csr" a system or atomic instruction,     *)
(* executed at retirement; "illegal" raises an exception in the ALU, "fp"  *)
(* at dispatch; "nop" and "trap" skip the issue queue; "jump" is a JAL or  *)
(* JALR, a branch that also writes a link register.                        *)

HasDest(i)   == i.kind \in {"alu", "illegal", "fp", "load", "jump", "csr"}
NeedsChk(i)  == i.kind \in {"branch", "jump"}
SkipsIQ(i)   == i.kind \in {"nop", "trap"}
IsLoad(i)    == i.kind \in {"load", "load_x0"}
IsSystem(i)  == i.kind = "csr"
ExceptsAtDispatch(i) == i.kind \in {"fp", "trap"}
ExceptsAtRetire(i)   == IsLoad(i) \/ IsSystem(i) \/ i.kind = "store"

Insn ==
  { i \in [kind : Kinds, src : Log, dst : Log] :
      /\ HasDest(i) \/ i.dst = 0
      /\ SkipsIQ(i) => i.src = 0 }

Writing   == {i \in Insn : HasDest(i)}
Branching == {i \in Insn : NeedsChk(i)}

(* Every operation is one injective function of its source.               *)
Op(v) == (v + 1) % NumValues

VARIABLES
  RMT,        (* Rename Map Table                                           *)
  AMT,        (* Architectural Map Table                                    *)
  free,       (* Free List: ring of registers, head, tail; -1,-1 is empty   *)
  al,         (* Active List entries                                        *)
  alHead,     (* index of the oldest entry, -1 if the list is empty         *)
  alTail,     (* index of the youngest entry                                *)
  ready,      (* ready bit of each physical register                        *)
  value,      (* contents of each physical register                         *)
  GBM,        (* Global Branch Mask, as the set of the bits that are 1      *)
  chk,        (* branch checkpoints                                         *)
  phase,      (* the stage loop in progress: idle, rename or dispatch       *)
  rename2,    (* the rest of the rename bundle: pipeline register RENAME2   *)
  dispatch,   (* renamed instructions: pipeline register DISPATCH           *)
  backend     (* issue queue, execution lanes and stalled loads             *)

lists == <<free, al, alHead, alTail>>
maps  == <<RMT, AMT, GBM, chk>>
front == <<phase, rename2, dispatch>>
vars  == <<RMT, AMT, free, al, alHead, alTail, ready, value, GBM, chk,
           phase, rename2, dispatch, backend>>

NoInsn == [kind |-> "nop", src |-> 0, dst |-> 0]

Entry == [insn : [kind : AllKinds, src : Log, dst : Log], pdst : Phys,
          completed : BOOLEAN, exception : BOOLEAN, load_violation : BOOLEAN,
          a_value : Val]
FreeList == [list : [Slot -> Phys], head : {-1} \cup Slot, tail : {-1} \cup Slot]
Checkpoint == [MT : [Log -> Phys], head : {-1} \cup Slot, recover : SUBSET Bits]
Renamed == [insn : Insn, psrc : Phys, pdst : Phys, mask : SUBSET Bits, id : BranchID]
Flying == [al : Slot, psrc : Phys, mask : SUBSET Bits, id : BranchID,
           stage : {"queued", "missed", "done"}]

(* Every structure keeps the shape its declaration in renamer.h gives it,  *)
(* the indices of the two rings staying within the rings.                  *)
TypeOK ==
  /\ RMT \in [Log -> Phys]
  /\ AMT \in [Log -> Phys]
  /\ free \in FreeList
  /\ al \in [Slot -> Entry]
  /\ alHead \in {-1} \cup Slot
  /\ alTail \in {-1} \cup Slot
  /\ ready \in [Phys -> BOOLEAN]
  /\ value \in [Phys -> Val]
  /\ GBM \subseteq Bits
  /\ chk \in [BranchID -> Checkpoint]
  /\ phase \in {"idle", "rename", "dispatch"}
  /\ rename2 \in Seq(Insn)
  /\ dispatch \in Seq(Renamed)
  /\ backend \subseteq Flying

Init ==
  /\ RMT = [l \in Log |-> l]
  /\ AMT = [l \in Log |-> l]
  /\ free = [list |-> [s \in Slot |-> NumLog + s], head |-> 0, tail |-> ListSize - 1]
  /\ al = [s \in Slot |-> [insn |-> NoInsn, pdst |-> 0, completed |-> FALSE,
                           exception |-> FALSE, load_violation |-> FALSE, a_value |-> 0]]
  /\ alHead = -1 /\ alTail = -1
  /\ ready = [p \in Phys |-> TRUE]
  /\ value \in {f \in [Phys -> Val] : \A l \in Log : f[l] = 0}
  /\ GBM = {}
  /\ chk = [b \in BranchID |-> [MT |-> [l \in Log |-> 0], head |-> 0, recover |-> {}]]
  /\ phase = "idle" /\ rename2 = <<>> /\ dispatch = <<>>
  /\ backend = {}

-----------------------------------------------------------------------------
(* The circular Free List.                                                 *)

(* stall_reg() takes head = tail, which is one register, for a full list.  *)
FreeSize ==
  IF free.head = -1 THEN 0
  ELSE IF free.head < free.tail THEN free.tail - free.head + 1
  ELSE ListSize - (free.head - free.tail - 1)

StallReg(n) == FreeSize < n

(* How many registers there really are.                                    *)
NumFree ==
  IF free.head = -1 THEN 0
  ELSE IF free.head <= free.tail THEN free.tail - free.head + 1
  ELSE ListSize - (free.head - free.tail - 1)

PopFreeNoWrap(f) ==                              \* mutant: the head never wraps
  IF f.head = f.tail THEN [f EXCEPT !.head = -1, !.tail = -1]
  ELSE [f EXCEPT !.head = @ + 1]

(* rename_rdst(): take the register at the head.                           *)
PopFree(f) ==
  IF f.head = f.tail THEN [f EXCEPT !.head = -1, !.tail = -1]
  ELSE [f EXCEPT !.head = NextSlot(f.head)]

(* commit(): put a register behind the tail; an empty list starts over at  *)
(* slot 0, wherever its head was.                                          *)
PushFree(f, p) ==
  IF f.tail = -1 THEN [list |-> [f.list EXCEPT ![0] = p], head |-> 0, tail |-> 0]
  ELSE [f EXCEPT !.tail = NextSlot(f.tail), !.list[NextSlot(f.tail)] = p]

(* squash(): every slot of the ring is free again, starting at the head.   *)
SquashFree(f) ==
  [f EXCEPT !.tail = IF f.head - 1 = -1 THEN ListSize - 1 ELSE f.head - 1]
-----------------------------------------------------------------------------
(* Branch IDs.  The bit of a branch is computed as 1 << ID in an int: the  *)
(* sign bit of the int is extended over the rest of the word.              *)

BitOf(id) ==
  LET b == id % IntWidth IN IF b = IntWidth - 1 THEN b .. WordWidth - 1 ELSE {b}

FreeIDs == BranchID \ GBM

StallBranchLate(n) == n > Cardinality(FreeIDs) + 1   \* mutant: off by one
StallBranch(n) == n > Cardinality(FreeIDs)

-----------------------------------------------------------------------------
(* The Active List.                                                        *)

(* stall_dispatch() takes one entry for a full list, and ListSize minus    *)
(* its size wraps in unsigned arithmetic, so that it never stalls then.    *)
ActiveSize ==
  IF alHead = -1 THEN 0
  ELSE IF alHead < alTail THEN alTail - alHead + 1
  ELSE ListSize - (alHead - alTail - 1)

StallDispatchOne(n) == ActiveSize >= ListSize    \* mutant: room for one is enough
StallDispatch(n) == ActiveSize <= ListSize /\ ListSize - ActiveSize < n

InFlight ==
  IF alHead = -1 THEN {}
  ELSE IF alHead <= alTail THEN alHead .. alTail
  ELSE {s \in Slot : s >= alHead \/ s <= alTail}

(* The age of an entry: how many older entries there are.                  *)
Age(s) == IF s >= alHead THEN s - alHead ELSE s - alHead + ListSize

HeadOf == al[alHead]

(* Taking the head out of the Active List.                                 *)
AdvanceHead ==
  IF alHead = alTail THEN alHead' = -1 /\ alTail' = -1
  ELSE alHead' = NextSlot(alHead) /\ alTail' = alTail

-----------------------------------------------------------------------------
(* rename2()                                                               *)

(* How many instructions of a bundle belong to the set I.                  *)
Count(b, I) == Cardinality({k \in DOMAIN b : b[k] \in I})

(* A system or atomic instruction makes the fetch unit send NOPs until it  *)
(* has retired and the pipeline is squashed.                               *)
SystemInFlight ==
  \/ \E s \in InFlight : IsSystem(al[s].insn)
  \/ \E k \in DOMAIN dispatch : IsSystem(dispatch[k].insn)

Bundle ==
  { b \in [1 .. DispatchWidth -> Insn] :
      \A k \in DOMAIN b :
        (SystemInFlight \/ \E j \in 1 .. k - 1 : IsSystem(b[j])) => b[k].kind = "nop" }

(* The stall conditions of rename2(), which passes a whole bundle or none. *)
Rename2Begin(b) ==
  /\ phase = "idle"
  /\ dispatch = <<>>
  /\ ~StallReg(Count(b, Writing))
  /\ ~StallBranch(Count(b, Branching))
  /\ KeepOneFree => Count(b, Writing) < NumFree
  /\ phase' = "rename"
  /\ rename2' = b
  /\ UNCHANGED <<lists, maps, ready, value, dispatch, backend>>

NewCheckpointEarly(map, fl) ==                   \* mutant: before its own destination
  [MT |-> map, head |-> free.head, recover |-> GBM]

(* checkpoint(): the map and the free list as the branch leaves them.      *)
NewCheckpoint(map, fl) == [MT |-> map, head |-> fl.head, recover |-> GBM]

(* One instruction of the bundle: its sources are looked up, then its      *)
(* destination is renamed, then it takes the branch mask, and at last a    *)
(* branch takes a checkpoint.  The asserts of rename_rdst() and of         *)
(* checkpoint() stop the program when there is no register or no ID.       *)
RenameOne ==
  /\ phase = "rename"
  /\ LET i   == Head(rename2)
         p   == IF HasDest(i) THEN free.list[free.head] ELSE 0
         map == IF HasDest(i) THEN [RMT EXCEPT ![i.dst] = p] ELSE RMT
         fl  == IF HasDest(i) THEN PopFree(free) ELSE free
         id  == IF NeedsChk(i) THEN CHOOSE b \in FreeIDs : \A c \in FreeIDs : b <= c ELSE 0
     IN  /\ HasDest(i) => free.head # -1
         /\ NeedsChk(i) => FreeIDs # {}
         /\ RMT' = map
         /\ free' = fl
         /\ chk' = IF NeedsChk(i)
                     THEN [chk EXCEPT ![id] = NewCheckpoint(map, fl)]
                     ELSE chk
         /\ GBM' = IF NeedsChk(i) THEN GBM \cup BitOf(id) ELSE GBM
         /\ dispatch' = Append(dispatch, [insn |-> i, psrc |-> RMT[i.src], pdst |-> p,
                                          mask |-> GBM, id |-> id])
         /\ rename2' = Tail(rename2)
         /\ phase' = IF Tail(rename2) = <<>> THEN "idle" ELSE "rename"
  /\ UNCHANGED <<AMT, al, alHead, alTail, ready, value, backend>>

-----------------------------------------------------------------------------
(* dispatch()                                                              *)

(* The stall conditions; the issue queue and the load and store queues may *)
(* stall it too, at any time.                                              *)
DispatchBegin ==
  /\ phase = "idle"
  /\ dispatch # <<>>
  /\ ~StallDispatch(DispatchWidth)
  /\ phase' = "dispatch"
  /\ UNCHANGED <<lists, maps, ready, value, rename2, dispatch, backend>>

DispatchSlot == IF alTail = -1 THEN 0 ELSE NextSlot(alTail)

ReadyAtDispatchKept(d) == ready                  \* mutant: clear_ready() is left out

(* clear_ready() of the destination, so that its consumers wait for it.    *)
ReadyAtDispatch(d) ==
  IF HasDest(d.insn) THEN [ready EXCEPT ![d.pdst] = FALSE] ELSE ready

(* One instruction of the bundle enters the Active List; the ready bit of  *)
(* its destination is cleared; it enters the issue queue, or is complete.  *)
(* The assert of dispatch_inst() notices a full list when it is unwrapped. *)
DispatchOne ==
  /\ phase = "dispatch"
  /\ ~(alHead = 0 /\ alTail = ListSize - 1) \/ alHead = alTail + 1
  /\ LET d == Head(dispatch)
         s == DispatchSlot
     IN  /\ al' = [al EXCEPT ![s] =
                     [insn |-> d.insn,
                      pdst |-> IF HasDest(d.insn) THEN d.pdst ELSE @.pdst,
                      completed |-> SkipsIQ(d.insn),
                      exception |-> ExceptsAtDispatch(d.insn),
                      load_violation |-> FALSE, a_value |-> 0]]
         /\ alHead' = IF alTail = -1 THEN 0 ELSE alHead
         /\ alTail' = s
         /\ ready' = ReadyAtDispatch(d)
         /\ backend' = IF SkipsIQ(d.insn) THEN backend
                       ELSE backend \cup {[al |-> s, psrc |-> d.psrc, mask |-> d.mask,
                                           id |-> d.id, stage |-> "queued"]}
         /\ dispatch' = Tail(dispatch)
         /\ phase' = IF Tail(dispatch) = <<>> THEN "idle" ELSE "dispatch"
  /\ UNCHANGED <<free, maps, value, rename2>>

-----------------------------------------------------------------------------
(* register_read(), execute() and load_replay().  An instruction leaves    *)
(* the issue queue when its source is ready, reads it and computes; the    *)
(* ready bit and the value of its destination are written together (the    *)
(* code spreads the two over the stages so that no consumer can notice).   *)

InsnOf(x) == al[x.al].insn
DestOf(x) == al[x.al].pdst

Issues(x) == phase = "idle" /\ x.stage = "queued" /\ ready[x.psrc]

MoveTo(x, stage) == (backend \ {x}) \cup {[x EXCEPT !.stage = stage]}

WriteRegisterNoWakeup(p, v) ==                   \* mutant: no consumer is woken
  UNCHANGED ready /\ value' = [value EXCEPT ![p] = v]

WriteRegister(p, v) ==
  /\ ready' = [ready EXCEPT ![p] = TRUE]
  /\ value' = [value EXCEPT ![p] = v]

(* The ALU computes; it raises an exception for an illegal instruction.    *)
ExecuteAlu(x) ==
  /\ Issues(x)
  /\ InsnOf(x).kind \in {"alu", "illegal", "fp", "jump", "branch"}
  /\ IF HasDest(InsnOf(x)) THEN WriteRegister(DestOf(x), Op(value[x.psrc]))
     ELSE UNCHANGED <<ready, value>>
  /\ al' = IF InsnOf(x).kind = "illegal" THEN [al EXCEPT ![x.al].exception = TRUE] ELSE al
  /\ backend' = MoveTo(x, "done")
  /\ UNCHANGED <<free, alHead, alTail, maps, front>>

(* A system or atomic instruction only reads its source; what the ALU      *)
(* leaves in the destination is whatever the payload held.                 *)
ExecuteSystem(x) ==
  /\ Issues(x)
  /\ IsSystem(InsnOf(x))
  /\ \E junk \in Val : WriteRegister(DestOf(x), junk)
  /\ al' = [al EXCEPT ![x.al].a_value = value[x.psrc]]
  /\ backend' = MoveTo(x, "done")
  /\ UNCHANGED <<free, alHead, alTail, maps, front>>

(* The register a load writes: a load to x0 has no destination, and        *)
(* execute() does not look: it uses what the payload entry was left with.  *)
LoadTarget(x) == IF HasDest(InsnOf(x)) THEN {DestOf(x)} ELSE Phys

ExecuteLoadHit(x) ==
  /\ Issues(x)
  /\ IsLoad(InsnOf(x))
  /\ \E p \in LoadTarget(x) : WriteRegister(p, Op(value[x.psrc]))
  /\ backend' = MoveTo(x, "done")
  /\ UNCHANGED <<lists, maps, front>>

ExecuteLoadMiss(x) ==
  /\ Issues(x)
  /\ IsLoad(InsnOf(x))
  /\ backend' = MoveTo(x, "missed")
  /\ UNCHANGED <<lists, maps, front, ready, value>>

(* load_replay(): a stalled load gets its value and completes at once; the *)
(* assert of load_replay() stops the program when it has no destination.   *)
LoadReplay(x) ==
  /\ phase = "idle"
  /\ x.stage = "missed"
  /\ HasDest(InsnOf(x))
  /\ WriteRegister(DestOf(x), Op(value[x.psrc]))
  /\ al' = [al EXCEPT ![x.al].completed = TRUE]
  /\ backend' = backend \ {x}
  /\ UNCHANGED <<free, alHead, alTail, maps, front>>

(* The younger loads that have their value, among which a store may find   *)
(* one that read its address too early.                                    *)
ExecutedLoads(x) ==
  { s \in InFlight : /\ Age(s) > Age(x.al)
                     /\ IsLoad(al[s].insn)
                     /\ \A y \in backend : y.al = s => y.stage = "done" }

ExecuteStore(x) ==
  /\ Issues(x)
  /\ InsnOf(x).kind = "store"
  /\ \/ UNCHANGED al
     \/ \E s \in ExecutedLoads(x) : al' = [al EXCEPT ![s].load_violation = TRUE]
  /\ backend' = MoveTo(x, "done")
  /\ UNCHANGED <<free, alHead, alTail, maps, front, ready, value>>

Execute(x) ==
  \/ ExecuteAlu(x)
  \/ ExecuteSystem(x)
  \/ ExecuteLoadHit(x)
  \/ ExecuteLoadMiss(x)
  \/ ExecuteStore(x)

-----------------------------------------------------------------------------
(* writeback()                                                             *)

Complete(x) == al' = [al EXCEPT ![x.al].completed = TRUE]

Writeback(x) ==
  /\ phase = "idle"
  /\ x.stage = "done"
  /\ ~NeedsChk(InsnOf(x))
  /\ Complete(x)
  /\ backend' = backend \ {x}
  /\ UNCHANGED <<free, alHead, alTail, maps, front, ready, value>>

UnmaskNot(y, id) == y                            \* mutant: CLEAR_BIT is left out

(* Clearing a resolved branch's bit in the masks of the pipeline, which is *)
(* left out under perfect branch prediction: no mask is ever used then.    *)
Unmask(y, id) == IF PerfectBranchPred THEN y ELSE [y EXCEPT !.mask = @ \ {id}]

ResolveCorrect(x) ==
  /\ phase = "idle"
  /\ x.stage = "done"
  /\ NeedsChk(InsnOf(x))
  /\ GBM' = GBM \ BitOf(x.id)
  /\ chk' = [b \in BranchID |-> [chk[b] EXCEPT !.recover = @ \ BitOf(x.id)]]
  /\ backend' = {Unmask(y, x.id) : y \in backend \ {x}}
  /\ dispatch' = [k \in DOMAIN dispatch |-> Unmask(dispatch[k], x.id)]
  /\ Complete(x)
  /\ UNCHANGED <<RMT, AMT, free, alHead, alTail, ready, value, phase, rename2>>

SurvivorsAll(x) == backend \ {x}                 \* mutant: nothing is squashed

(* What the pipeline keeps of the issue queue and the lanes when the       *)
(* branch x was mispredicted.                                              *)
Survivors(x) == {y \in backend \ {x} : x.id \notin y.mask}

ResolveMispredict(x) ==
  /\ phase = "idle"
  /\ x.stage = "done"
  /\ NeedsChk(InsnOf(x))
  /\ ~PerfectBranchPred
  /\ alTail' = x.al
  /\ free' = [free EXCEPT !.head = chk[x.id].head]
  /\ GBM' = chk[x.id].recover
  /\ RMT' = chk[x.id].MT
  /\ backend' = Survivors(x)
  /\ dispatch' = <<>>
  /\ Complete(x)
  /\ UNCHANGED <<AMT, chk, alHead, ready, value, phase, rename2>>

-----------------------------------------------------------------------------
(* retire()                                                                *)

HeadCompleted == phase = "idle" /\ alHead # -1 /\ HeadOf.completed

CommittedAMTStale == AMT                         \* mutant: the map is not updated
CommittedFreeNew ==                              \* mutant: the new register is freed
  IF HasDest(HeadOf.insn) THEN PushFree(free, HeadOf.pdst) ELSE free

(* renamer::commit() of the head, as far as the tables go.                 *)
CommittedAMT ==
  IF HasDest(HeadOf.insn) THEN [AMT EXCEPT ![HeadOf.insn.dst] = HeadOf.pdst] ELSE AMT
CommittedFree ==
  IF HasDest(HeadOf.insn) THEN PushFree(free, AMT[HeadOf.insn.dst]) ELSE free

SquashCompleteKeepMap(map, fl) ==                \* mutant: the map is not restored
  /\ alHead' = -1 /\ alTail' = -1
  /\ free' = SquashFree(fl)
  /\ RMT' = RMT
  /\ GBM' = {}
  /\ ready' = [p \in Phys |-> TRUE]
  /\ dispatch' = <<>>
  /\ backend' = {}
  /\ UNCHANGED <<chk, phase, rename2>>

(* squash_complete(): the renamer and every stage go back to the committed *)
(* state, given as the map and the free list at that moment.               *)
SquashComplete(map, fl) ==
  /\ alHead' = -1 /\ alTail' = -1
  /\ free' = SquashFree(fl)
  /\ RMT' = map
  /\ GBM' = {}
  /\ ready' = [p \in Phys |-> TRUE]
  /\ dispatch' = <<>>
  /\ backend' = {}
  /\ UNCHANGED <<chk, phase, rename2>>

RetireCommit ==
  /\ HeadCompleted
  /\ ~HeadOf.exception /\ ~HeadOf.load_violation
  /\ ~IsSystem(HeadOf.insn)
  /\ AMT' = CommittedAMT
  /\ free' = CommittedFree
  /\ AdvanceHead
  /\ UNCHANGED <<al, RMT, GBM, chk, front, ready, value, backend>>

(* execute_amo() or execute_csr() writes the destination, the instruction  *)
(* is committed, and everything after it is squashed.                      *)
RetireSystem ==
  /\ HeadCompleted
  /\ ~HeadOf.exception /\ ~HeadOf.load_violation
  /\ IsSystem(HeadOf.insn)
  /\ value' = [value EXCEPT ![HeadOf.pdst] = Op(HeadOf.a_value)]
  /\ AMT' = CommittedAMT
  /\ SquashComplete(CommittedAMT, CommittedFree)
  /\ UNCHANGED al

(* A load that ran too early is squashed and fetched again.                *)
RetireViolation ==
  /\ HeadCompleted
  /\ ~HeadOf.exception /\ HeadOf.load_violation
  /\ SquashComplete(AMT, free)
  /\ UNCHANGED <<al, AMT, value>>

(* An exception posted earlier, or raised by the head as it retires.       *)
RetireException ==
  /\ HeadCompleted
  /\ HeadOf.exception \/ ExceptsAtRetire(HeadOf.insn)
  /\ al' = [al EXCEPT ![alHead].exception = TRUE]
  /\ SquashComplete(AMT, free)
  /\ UNCHANGED <<AMT, value>>

Next ==
  \/ \E b \in Bundle : Rename2Begin(b)
  \/ RenameOne
  \/ DispatchBegin
  \/ DispatchOne
  \/ \E x \in backend :
       \/ Execute(x)
       \/ LoadReplay(x)
       \/ Writeback(x)
       \/ ResolveCorrect(x)
       \/ ResolveMispredict(x)
  \/ RetireCommit
  \/ RetireSystem
  \/ RetireViolation
  \/ RetireException

Spec == Init /\ [][Next]_vars

(* The pipeline calls every stage in every cycle: a stage that has work    *)
(* and is not stalled does it: for an instruction in the back end there is *)
(* one at a time.  A stalled load is answered in the end.                  *)
Fairness ==
  /\ WF_vars(RenameOne)
  /\ WF_vars(DispatchOne)
  /\ \A s \in Slot :
       WF_vars(\E x \in backend :
                 /\ x.al = s
                 /\ \/ Execute(x)
                    \/ LoadReplay(x)
                    \/ Writeback(x)
                    \/ ResolveCorrect(x)
                    \/ ResolveMispredict(x))
  /\ WF_vars(RetireCommit \/ RetireSystem \/ RetireViolation \/ RetireException)

FairSpec == Spec /\ Fairness

-----------------------------------------------------------------------------
(* What the pipeline holds, in program order: the Active List from its     *)
(* head, then the renamed bundle.                                          *)
SlotOfAge(k) == (alHead + k) % ListSize
Program ==
  [k \in 1 .. Cardinality(InFlight) |->
     [insn |-> al[SlotOfAge(k - 1)].insn, pdst |-> al[SlotOfAge(k - 1)].pdst]]
  \o [k \in DOMAIN dispatch |-> [insn |-> dispatch[k].insn, pdst |-> dispatch[k].pdst]]

Writers(P, k, l) == {j \in 1 .. k : HasDest(P[j].insn) /\ P[j].insn.dst = l}

(* The map as it stood after the first k instructions of the pipeline.     *)
MapAfter(P, k) ==
  [l \in Log |-> LET W == Writers(P, k, l)
                 IN  IF W = {} THEN AMT[l]
                     ELSE P[CHOOSE j \in W : \A i \in W : i <= j].pdst]

(* The branches that are not resolved yet, with their place in the program.*)
Unresolved ==
  { [at |-> Age(x.al) + 1, id |-> x.id] : x \in {y \in backend : NeedsChk(InsnOf(y))} }
  \cup { [at |-> Cardinality(InFlight) + k, id |-> dispatch[k].id] :
           k \in {j \in DOMAIN dispatch : NeedsChk(dispatch[j].insn)} }

OlderIDs(k) == {b.id : b \in {c \in Unresolved : c.at < k}}

FreeSlots ==
  IF free.head = -1 THEN {}
  ELSE IF free.head <= free.tail THEN free.head .. free.tail
  ELSE {s \in Slot : s >= free.head \/ s <= free.tail}

CommittedRegs == [l \in Log |-> value[AMT[l]]]

-----------------------------------------------------------------------------
(* Properties.                                                             *)

(* A register is on the Free List, in the committed map, or the            *)
(* destination of an instruction in flight, and in one place only: none    *)
(* leaks and none is handed out twice, through any sequence of renames,    *)
(* commits, mispredictions and squashes.                                   *)
FreeListExact ==
  LET P == Program
      Holders(p) == {<<"free", s>> : s \in {t \in FreeSlots : free.list[t] = p}}
                    \cup {<<"map", l>> : l \in {m \in Log : AMT[m] = p}}
                    \cup {<<"pipe", k>> : k \in {j \in DOMAIN P : HasDest(P[j].insn) /\ P[j].pdst = p}}
  IN  \A p \in Phys : Cardinality(Holders(p)) = 1

(* The Rename Map Table is the committed map overlaid, in program order,   *)
(* by the destinations of everything in flight, also right after recovery. *)
MapIsProgramOrder ==
  LET P == Program IN RMT = MapAfter(P, Len(P))

(* What recovery from an unresolved branch would restore is what was true  *)
(* just after it: the map, the head of the Free List (which then returns   *)
(* exactly the registers taken since) and the IDs of older branches.       *)
CheckpointsExact ==
  LET P == Program
  IN  \A b \in Unresolved :
        LET taken == Cardinality({j \in b.at + 1 .. Len(P) : HasDest(P[j].insn)})
        IN  /\ chk[b.id].MT = MapAfter(P, b.at)
            /\ free.head = (chk[b.id].head + taken) % ListSize
            /\ chk[b.id].recover \cap BranchID = OlderIDs(b.at)

(* The Global Branch Mask holds the IDs of the unresolved branches, no two *)
(* of which share one, and the mask of an instruction those of the older   *)
(* branches it depends on.                                                 *)
BranchMasksExact ==
  /\ GBM \cap BranchID = {b.id : b \in Unresolved}
  /\ \A b, c \in Unresolved : b.id = c.id => b = c
  /\ \A x \in backend : x.mask \cap BranchID = OlderIDs(Age(x.al) + 1)
  /\ \A k \in DOMAIN dispatch :
       dispatch[k].mask \cap BranchID = OlderIDs(Cardinality(InFlight) + k)

(* The issue queue, the lanes and the stalled loads hold the uncompleted   *)
(* entries of the Active List, each once: squashing by branch mask and     *)
(* squashing by Active List index kill the same instructions.              *)
BackendIsActiveList ==
  /\ {x.al : x \in backend} = {s \in InFlight : ~al[s].completed}
  /\ \A x, y \in backend : x.al = y.al => x = y

(* A committed register is ready, and that of an instruction in flight is  *)
(* ready when the instruction has produced it, whoever held it before.     *)
ReadyBitsExact ==
  /\ \A l \in Log : ready[AMT[l]]
  /\ \A s \in InFlight :
       HasDest(al[s].insn) =>
         (ready[al[s].pdst] <=> ~\E x \in backend : x.al = s /\ x.stage # "done")

(* A rename bundle that passed stall_reg() finds a register for each of    *)
(* its destinations (the assert of rename_rdst()).                         *)
BundleHasRegisters ==
  phase = "rename" => Count(rename2, Writing) <= NumFree

(* One that passed stall_branch() finds a checkpoint for each branch (the  *)
(* assert of checkpoint()).                                                *)
BundleHasCheckpoints ==
  phase = "rename" => Count(rename2, Branching) <= Cardinality(FreeIDs)

(* A dispatch bundle that passed stall_dispatch() overwrites no entry of   *)
(* an instruction in flight.                                               *)
BundleHasEntries ==
  phase = "dispatch" => Cardinality(InFlight) + Len(dispatch) <= ListSize

(* With nothing in flight every register but the committed ones is free:   *)
(* what renamer.h asks of squash().                                        *)
EmptyPipelineConsistent ==
  (phase = "idle" /\ alHead = -1 /\ dispatch = <<>>) =>
    /\ {free.list[s] : s \in FreeSlots} = Phys \ {AMT[l] : l \in Log}
    /\ RMT = AMT

(* The core executes its program in order, as far as committed registers   *)
(* and the window of instructions can tell.                                *)
Abstract ==
  INSTANCE InOrder WITH
    Regs <- Log, MayRedirect <- NeedsChk, Serializes <- IsSystem,
    regs <- CommittedRegs, window <- [k \in DOMAIN Program |-> Program[k].insn]
ImplementsInOrder == Abstract!Spec

(* The head of the Active List always leaves it, unless nothing is fetched *)
(* any more: no instruction waits for a register that is never produced or *)
(* for an event that was lost.                                             *)
HeadLeaves == <>[](alHead = -1) \/ []<><<alHead' # alHead>>_alHead
=============================================================================
