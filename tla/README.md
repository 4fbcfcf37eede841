# A verification of the 721sim out-of-order core

This directory holds TLA+ models of `uarchsim/`, the cycle-level simulator of an
out-of-order RISC-V core, and of the part of `riscv-base/` it runs in step with, the
TLC runs that check them and the TLAPS proofs about them. Paths are relative to
`src/uarchsim/` of the repository unless they begin with `riscv-base/`.

## 1. The system

`pipeline_t::step_micro()` (`pipeline.cc`) simulates one cycle by calling the stages
from the last to the first: `retire` (once per retire slot), `writeback` of every
lane, `load_replay`, `execute` and `register_read` of every lane, `schedule`,
`dispatch`, `rename2`, `rename1`, `decode`, `fetch`. There is one thread; the
concurrency is that of the instructions in flight, which complete out of order, are
squashed, replayed and fetched again. Next to the core runs the functional simulator
of `riscv-base`: it executes the same program ahead of the core, into the debug
buffer, and `checker()` compares every instruction that retires with its entry. Each
of the two has a processor state and a host interface (HTIF) of its own. There are
no tests in the repository; what the code promises is said in comments (most of all
in `renamer.h`) and in asserts, which are on in every build.

| Component | State | Operations | Talks to |
|---|---|---|---|
| Renamer (`renamer.h/cc`) | RMT, AMT, Free List, Active List, physical registers and ready bits, GBM, branch checkpoints | `stall_reg`, `stall_branch`, `rename_rsrc/rdst`, `checkpoint`, `stall_dispatch`, `dispatch_inst`, `set_complete`, `resolve`, `precommit`, `commit`, `squash` | called by every stage from rename2 to retire |
| Stages (`rename.cc` ... `retire.cc`, `squash.cc`) | pipeline registers RENAME2, DISPATCH, execution lanes | one function per stage; `resolve` and `squash_complete` for recovery | renamer, issue queue, LSU, predictor, PAY |
| Load/store unit (`lsu.h/cc`) | load and store queue: rings with phase bits | `dispatch`, `store_addr`, `store_value`, `load_addr`, `load_unstall`, `commit`, `restore`, `flush` | marks load violations in the renamer; D-cache; memory |
| Front end (`fetch.cc`, `decode.cc`, `fetch_queue.cc`, rename1) | pc, `fetch_exception/amo/csr`, DECODE, FQ | bundles move or stall | PAY, predictor, I-cache |
| Issue queue, lanes (`issue_queue.cc`, `lane.cc`) | entries with ready bits, free list, age list | `dispatch`, `wakeup`, `select_and_issue`, `squash`, `flush` | register read |
| Cache (`CacheClass.cc`, `cache.h`) | lines, miss registers (MHSRs), miss ports | `Access` | next level |
| Branch predictor (`bpred_interface.cc`) | queue of control transfers in flight, tables, RAS | `get_pred`, `fix_pred`, `verify_pred`, `flush` | fetch, writeback, retire |
| Payload (`payload.cc`) | ring of instructions in the machine | `push`, `pop`, `rollback`, `clear`, `map_to_actual` | all stages |
| Debug buffer, checker (`debug.cc`, `checker.cc`) | ring of what the functional simulator did | `run_ahead`, `start`/`push_*`, `pop`, `check_next`, `check` | functional simulator, retire |
| ALU (`alu.cc`) | none | `alu`, `agen` | execute |
| AMOs and CSRs (`retire.cc`) | none of their own | `execute_amo`, `execute_csr` | memory, privileged registers |
| Instructions of the functional simulator (`riscv-base/insns`, `riscv-base/mulhi.h`, `riscv-base/softfloat`) | none of their own | one file each | registers, MMU, privileged registers |
| Functional simulator (`riscv-base/processor.cc`) | pc, registers, privileged registers, counter, timer | `step`, `take_trap`, `get_pcr`, `set_pcr`, `serialize` | MMU, debug buffer, HTIF |
| Host interface (`riscv-base/htif.cc`, `riscv-base/fesvr/`) | the packet that waits for an answer, replies not yet delivered | one packet per `tick` | `tohost`, `fromhost`, memory |
| Top level (`sim.cc`, `main.cc`, `pipeline.cc`) | instructions and idle cycles since the last tick, for each simulator | `step_micro`, `sim_t::step`, `run` | all |

What is hard here: instructions resolve and complete in any order; recovery comes in
two forms (selective, by branch mask, at writeback; complete, at retirement) that
must agree across seven structures; rings whose head and tail use -1 for empty or a
phase bit; limits (registers, checkpoints, entries, miss registers) that are tested
once for a bundle and consumed one by one; values that are announced (ready bit,
wakeup) a cycle before they are written; two simulators that count instructions and
idle cycles apart and must give their hosts a turn at the same place. The hazards,
at their lines, are in `PROJECT.json`.

What makes each component correct:

* Renamer: registers are conserved; the map is the program-order overlay of the
  committed map, also after recovery; checkpoints restore what was true; the masks
  name the older unresolved branches; stalls are sufficient for a bundle; execution
  is that of an in-order machine.
* LSU: every committed load returns what a sequential memory would; a load that ran
  too early is always caught; the queues' rings survive recovery.
* Front end: what is in flight is one path of the program; PAY and the links to the
  debug buffer describe exactly that path; fetch never loses a stall and the machine
  never stops for want of a full bundle.
* Issue queue: an instruction issues once, after its sources are announced, and
  reads them after they are written; none waits for ever.
* Cache: a miss register is handed on only when its fill is over; the next level
  never refuses.
* Predictor: queue, history and return addresses are those of the path; tables are
  trained where they were read.
* ALU, AMOs, CSRs: products and quotients are those of the mathematics, also in words
  of half width, at zero and at overflow; what the core computes is what the
  functional simulator computes; softfloat rounds the exact result, once, in every mode.
* Decoding: five switches in four stages and one search in a table take an instruction
  word for the same instruction with the same registers.
* Lockstep: what retires agrees with the functional simulator, ticks included.

## 2. Modules

| Module | What it is |
|---|---|
| `InOrder` | the abstract machine: a window of fetched instructions, each executed in one step and in order as it leaves |
| `Renamer` | the renamer and the calls of the stages rename2 to retire; implements `InOrder` |
| `LSU` | the load and store queues, memory, and the calls of the stages dispatch to retire |
| `FrontEnd` | fetch to rename1 with PAY and the debug buffer |
| `IssueQueue` | issue queue and lanes, one step per cycle |
| `BranchPredictor` | the predictor with its queue of predictions |
| `Cache` | two L1 caches before one L2 |
| `Words` | machine words of any even width and C++ arithmetic on them, with `mulhi.h` |
| `IEEE` | floating-point formats of any size, and what an operation must return, told from the exact result |
| `ALU` | `alu()` and `agen()` as functions, integer and floating point |
| `Instructions` | the integer, memory, atomic and system instructions of the functional simulator |
| `SoftFloat`, `FloatInstructions` | softfloat and the floating-point instructions on it |
| `AtRetirement` | `execute_amo()` and `execute_csr()` |
| `Arithmetic` | one operation executed by the core beside the functional simulator |
| `Encoding` | instruction words by their fields, and the table of the functional simulator |
| `Decode` | one instruction word through decode, dispatch, execute and retire |
| `Hart` | a processor with its host, as a value |
| `Functional` | the abstract machine: one instruction at a time, a tick after every `Interleave` |
| `Lockstep` | functional simulator, debug buffer and core side by side; implements `Functional` |
| `MC...` | instances of the above for TLC, with their views |
| `RenamerProofs` | theorems: types, checkpoints and entries suffice; lemmas: rings, program order, and what each action of `Renamer` does to it |
| `RenamerTableProofs` | theorems: registers, maps, checkpoints, masks, ready bits; `Renamer` implements `InOrder` |
| `FrontEndProofs` | theorems: PAY, the path in flight, the checker, the stall flags |
| `CacheProofs` | theorems: lines and miss registers, the next level accepts |
| `BranchPredictorProofs` | theorems: the queue, histories, the return address stack, training, the asserts of `verify_pred()` |
| `IssueQueueProofs` | theorems: the two lists, one place for each instruction, wakeup, values in time |
| `LSUProofs`, `LockstepProofs` | theorems about `LSU` and `Lockstep` |

`Lockstep` composes two instances of `Hart` through the debug buffer. The others
meet in the assumptions they make of each other: `FrontEnd` takes from `Renamer`
that the back end executes in order and from `LSU` that a load that ran too early is
caught; `IssueQueue` shows why `Renamer` may write the ready bit and the value in
one step, and takes from `Renamer` that a tag is free only when nothing in flight
names it; `BranchPredictor` and `Cache` are called with any sequence of calls the
stages can make; `Lockstep` takes from `Renamer.HeadLeaves` that a head retires in
the end.

### Renamer

State: `RMT`, `AMT`, `free` (`list`, `head`, `tail`), `al`/`alHead`/`alTail`,
`ready`, `value`, `GBM` (as the set of bits that are 1) and `chk` are the fields of
class `renamer`. `rename2` and `dispatch` are the pipeline registers RENAME2 (what
is left of the bundle while `rename2()` runs) and DISPATCH. `backend` stands for the
issue queue, the execution lanes and the stalled loads: what is there between
dispatch and writeback. `phase` gives the machine to a stage loop until it ends, as
a stage function runs to its end in the code; the loops of `rename2()` and
`dispatch()` are one action per instruction, so that limits and asserts are met at
the instruction where the code meets them.

| Action | Code |
|---|---|
| `Rename2Begin`, `RenameOne` | `rename2()` with `stall_reg`, `stall_branch`; `rename_rsrc`, `rename_rdst`, `get_branch_mask`, `checkpoint` |
| `DispatchBegin`, `DispatchOne` | `dispatch()` with `stall_dispatch`; `dispatch_inst`, `clear_ready`, issue-queue entry or early completion |
| `ExecuteAlu`, `ExecuteSystem`, `ExecuteLoadHit`, `ExecuteLoadMiss`, `ExecuteStore` | `schedule`, `register_read()`, `execute()` |
| `LoadReplay` | `load_replay()` |
| `Writeback`, `ResolveCorrect`, `ResolveMispredict` | `writeback()`, `renamer::resolve`, `pipeline_t::resolve` |
| `RetireCommit`, `RetireSystem`, `RetireViolation`, `RetireException` | `retire()`, `renamer::commit`, `squash_complete()`, `renamer::squash` |

Abstractions. One source register stands for three. All functions an instruction may
compute are one injective function. Whether a branch was mispredicted, a load hits,
a store finds a violation, or a retiring memory or system instruction traps is a
choice. The stages before rename2 are a choice of bundle, with NOPs behind a
serializing instruction as `fetch()` sends them. The LSU drops the stalled loads
younger than a mispredicted branch by its own queue; here they go by their branch
mask. The ready bit and the value of a register are written in one step (the code
announces a value one stage early, to instructions that read one stage later).
`active_list`, the values of free registers and the maps of unused checkpoints are
uninitialized memory in the code; nothing reads them before they are written, and
the model gives the entries and checkpoints one fixed content and the registers any.

### LSU

State: `LQ` and `SQ` are the two rings of class `lsu` (`buf`, `head`, `tail`, their
phases, `length`); `mem` is the memory behind the MMU; `window` is what the Active
List and the payload buffer hold of the loads, stores and branches in flight: the
queue indices and phases taken at dispatch (for a branch, those of `checkpoint()`),
how far the instruction has come, its exception and load-violation bits.

| Action | Code |
|---|---|
| `DispatchLoad`, `DispatchStore`, `DispatchBranch` | LSU part of `dispatch()`: `lsu::stall`, `lsu::dispatch`, the oracle address, `lsu::checkpoint` |
| `ExecuteLoad` | `load_addr`, `execute_load`, `disambiguate` |
| `LoadReplay` | `load_unstall`, `execute_load`, `disambiguate` |
| `ExecuteStore` | `store_addr`, `ld_violation`, `store_value` |
| `ResolveCorrect`, `ResolveMispredict` | a branch in `writeback()`; `lsu::restore` |
| `RetireLoad`, `RetireStore`, `RetireBranch` | `retire()`, `lsu::commit` |
| `RetireBadLoad`, `RetireBadStore`, `Squash` | `retire()`, `squash_complete()`, `lsu::flush` |

`disambiguate()` and `ld_violation()` are loops that end at the first entry that
decides; the model takes the least distance among the deciding entries. `Distance`
is how far an index with its phase is from another, as the loops count it and as
`restore()` computes it.

Abstractions. A store writes one byte value to all its places; sign extension is
left out. The base address registers are a choice: any address may be computed by
any load or store, which covers wrong paths and wrongly speculated registers. That a
cache line is still on its way is a choice when the load executes, and a stalled
load that missed may be answered at any replay. Writeback is merged with execution.
A full squash may also come from an instruction that is not modelled, at any time. A
page is never unmapped: an access faults when it is misaligned or leaves memory
(`mmu.h`). Load reservations, AMOs and split stores (decode produces none) are left
out.

### FrontEnd

State: `pc`, `stalls` (`fetch_exception`, `fetch_amo`, `fetch_csr`), `decode`, `fq`,
`rename2`: the pipeline registers and the Fetch Queue with its indices; `pay`: the
ring of `payload.cc` (two places per instruction); `db`: the debug buffer; `isaPC`;
`window`: the Active List, with what an instruction has become so far. `code` is the
program.

| Action | Code |
|---|---|
| `RunAhead` | `run_ahead()`, `push_instr_actual` and the rest of an entry |
| `FetchOne` | the loop of `fetch()`: kind or NOP, prediction, `push`, `map_to_actual`, end of the bundle |
| `Decode`, `Rename1`, `Dispatch` | `decode()`, `rename1()`, `rename2()`/`dispatch()` as a move of a full bundle |
| `ExecuteOther`, `ExecuteLoad`, `ResolveCorrect`, `ResolveMispredicted` | execution and `writeback()`: `rollback`, flush of the front end, release of the stall flags |
| `RetireCommit`, `RetireViolation`, `RetireException` | `retire()` with `checker()`, `debug_buffer_t::pop`, `squash_complete()`, `clear` |

Abstractions. A program gives the kind of instruction at each PC; outcomes are what
the functional simulator found while an instruction is on the program's path and no
older load is wrong, and any possible outcome otherwise. A prediction is any target
that the predictor may name for the kind. The wait for an I-cache miss is left out:
it delays `FetchOne`, which may be delayed anyhow. The handler of the traps is not
where a load's successor is, as the ordinary layout has it.

### IssueQueue

State: `iq` (entries with the age list's links, free list, ages, the partition whose
turn it is), `rr`, `ex`, `wb` (the pipeline registers of each lane, with the
sub-stages of execution), `ready`, `written`, `stalled` (loads that wait in the Load
Queue), `al` (the Active List), `fu_lane_ptr` (steering).

`Cycle` is one cycle: `Writeback` of each lane, `LoadReplay`, `Execute` and
`RegisterRead` of each lane, `Schedule`, and a dispatch or none, in the order of
`step_micro()`. `Retire` and `SquashComplete` come between two cycles. Which
branches were mispredicted, which loads hit and which stalled load is answered are
choices. A dispatch bundle is one instruction; two sources are enough for every
ready bit to matter. A physical register is called by the tag of its producer.

### BranchPredictor

State: `cti_Q` with `cti_head` and `cti_tail`, `RAS`, `pred_table`, `BTB` as in
`bpred_interface.h`; `flight` is what the pipeline keeps of each prediction (PC,
tag, next PC, outcome), `history` the outcomes that have committed, for the
properties. `GetPred`, `ResolveCorrect`/`FixPred`, `VerifyPred` and `Flush` are the
calls of `fetch()`, `writeback()`, `retire()` and `squash_complete()`. The
confidence tables are not read by anything and are left out; the RAS is a list with
a bound on its depth (in the code a linked list). The index of the direction table is
summed up bit by bit, so that nothing of the module is out of the prover's reach: an
exclusive or sets the bits in which the history (under `HIST_MASK`, from `HistoryLow`
up) and the PC (under `PC_MASK`, below `PCSpan`) differ.

### Cache

State: for each cache its sets (a set is the sequence of its ways, the most recently
used first, which is what the `lru` counters of `cache.h` encode), its MHSRs and the
cycles from which its miss ports are free; `cycle`. `DCLoad`, `DCStore` and
`ICFetch` are one `Access()` each, L2 accesses included; `Tick` is the clock. An
access that is refused in L1 changes nothing and is tried again. After L2 has
refused an access the run ends (`rejected`): the code goes on with the time -1.

### ALU, AtRetirement and the functional simulator's instructions

`Result` and `NextPC` of `ALU` are `alu()`; `execute_amo` and `execute_csr` those of
`retire.cc`. `Instructions` and `FloatInstructions` have one definition per file of
`riscv-base/insns`: it takes a context (the operands its macros read, the state it may
change) and returns it changed. `mulhi.h` is modelled as it computes, with half-word
products and their carries, and softfloat as it computes, with guard and sticky bits.
The quotients of double and all roots begin with an estimate there
(`softfloat_estimateDiv128To64`, `softfloat_estimateSqrt32` with its two tables), which
is corrected by the sign of the remainder only where it lies near a tie or a number
(`Near`); so they do here, on words of the width of the format, to which the shifts and
the entries of the tables are scaled. Arithmetic on two words is that of whole numbers.
`Execute` of `Arithmetic` runs one operation at one first operand with every second
operand, in the core; the properties run it in the functional simulator. Widths are
parameters: a word has two halves of `H` bits, a float and a double the formats `S`
and `D`, and what begins with an estimate is also taken in the wider formats `WideS` and
`WideD`. Of a CSR it counts who may read and write it and whether it is one of floating
point (`require_fp`), one that is read with a call of `serialize()`, or another; which
bits `set_pcr()` keeps of each register is left out, one function that both simulators
share.

`alu()` computes floating point with the host's `float` and `double`: the model gives
them the meaning of `IEEE`, rounded to nearest; a NaN's sign and payload, and the
conversions the C++ standard leaves undefined, are `NotTold`.

### Encoding, Decode

State: the word, the stage it has reached, and the fields of its payload slot: flags
(which keep what the slot's last instruction left in them, until they are assigned),
issue-queue selection, operands, operation, trap. `decode`, `dispatch`, `execute` and
`retire` are the switches of these stages. `decode_insn` searches the table of
`riscv-base/encoding.h` as `processor.cc` does, and `Accesses` is what the file it
finds reads and writes through the macros of `riscv-base/decode.h`.

### Hart, Functional, Lockstep

`Hart` is the value a processor and its host have: pc, one register `x`, one word
`mem` of memory, the status register, `tohost`/`fromhost`, `epc`, counter, timer,
the `serialized` flag and whether it runs; the host's phase, argument and waiting
replies. What a host that ends stops is also reset, but for memory and that flag. `Executed` is one instruction or its trap, `UpdateTimer` the count that
follows it, `Tick` one turn of HTIF.

| Action of `Lockstep` | Code |
|---|---|
| `RunAhead` | `run_ahead()`: the functional simulator fills the debug buffer before the core starts |
| `StepMicro` | `sim_t::step()` calling `step_micro()`: the limit of the call, from the tick due and the timer |
| `Retire` | a retire slot: the instruction, `update_timer`, `pop` (which steps the functional simulator), the squash behind serializing instructions |
| `NextCycle`, `ReturnFromCall` | the loop of `step_micro()` and its return; `sim_t::step()` counting instructions and idle cycles, and the tick |
| `Finished` | `sim_t::run()` when HTIF is done |

Abstractions. The order in which the core executes is not here but in `Renamer`,
`LSU` and `FrontEnd`; what they do not cover is that memory changes between
execution and retirement when the host ticks, and so a load returns any value memory
had since the pipeline was last squashed (`seen`). `processor_t::step()` executes
instructions in groups bounded by the timer; here it is called for one at a time, as
`pop()` and `run_ahead()` call it. Interrupts stay disabled, as at boot.

## 3. Runs

Twelve runs, ten that pass. The smallest interesting ring has three slots (head and
tail differ, touch and cross); two checkpoints make nested and out-of-order
resolution; bundles of two make stalls for a whole bundle differ from stalls for one
instruction. `IntWidth` 4 and `WordWidth` 8 stand for 32 and 64 bits.

| Run | Question | Sizes |
|---|---|---|
| `branches` | registers conserved; map, ready bits, checkpoints, masks, stalls per bundle exact with two unresolved branches and link-writing jumps | branches and jumps; 2 logical, 3 spare, 2 checkpoints, bundles of 2 |
| `retire` | all kinds of retirement: the tables after a squash, in-order semantics, the head always leaves | loads, stores, branches, system instructions; 1 logical, 3 spare, 3 in flight and 2 of them writers, 1 checkpoint, 2 values |
| `lsu` | queues exact; no load escapes that differs from a sequential memory | 2 loads, 2 stores, 3 in flight, 1 and 2 bytes, 2 bytes of memory and one beyond, all speculation modes on |
| `frontend` | one path in flight, PAY and debug buffer exact, stall flags, retirement for ever | 3 programs of 4 PCs with all kinds of instruction, bundles of 2, a Fetch Queue of the least size (5), Active List of 2 |
| `issueq` | lists exact, one place each, wakeup and value in time, the head completes | loads, branches, jumps with a link register; 3 entries and partitions, 2 lanes of one and two sub-stages, 3 in flight, age order without steering and partitions with it |
| `bpred` | queue, history, RAS and training | 4 control transfers, 3 in flight, 4 queue entries, 2 bits of history |
| `cache` | miss registers | 3 lines; D-cache of 2 ways, I-cache and L2 of 1; MHSRs 1, 1 and 2 |
| `alu` | products and division; core and functional simulator compute the same; softfloat rounds the exact result | all operations but MULHSU; words of 8 bits, doubles of 1+4+3, floats of 1+3+2 (estimates also 1+5+6 and 1+5+8); all first operands, the second ones around zero, the signs and the extremes, all rounding modes |
| `decode` | core and functional simulator decode alike; no legal instruction stops the core | all words, told apart by the values that some mask or switch tells apart |
| `lockstep` | agreement at retirement, one tick every `Interleave` instructions, a program that exits ends the run | `Interleave` 3, retire width 2, debug buffer 4; 732 programs |
| `stall_reg`, `mulhsu` | violations, section 4 | |

Between them `branches` and `retire` take every action of `Renamer`; every other
module has a run that takes all of its actions. Deadlock is checked except in `alu`,
`mulhsu` and `decode`, where one operation or word is taken to its end.

Bounds, by name:

* `KeepOneFree` (`Renamer`): no bundle takes the last free register. It is the
  assumption under which the Free List works: section 4 shows what the code does
  without it.
* `Kinds` (`Renamer`). In `retire` three spare registers leave two for instructions in
  flight, so that one that commits may have waited for the value of another, or have
  been given a register that a committed one has just freed: a ready bit that is not
  cleared at dispatch is found as a wrong value (the mutant of `ImplementsInOrder`). No
  run has the kinds that trap at dispatch or in execution (in `retire` it is loads, stores
  and system instructions that trap), that write a floating-point register or that do
  nothing; the theorems have all of them.
* In `lsu` three instructions make the smallest races that matter (store, store,
  load; store, load, load; load, branch, store), queues of two are full and wrap
  within such a window, two sizes give partial overlaps, and one byte beyond memory
  gives faults. `LoadsAreSequential` judges a load when all older stores have
  addresses and none of them will trap; `RetiringLoadIsRight` is what `checker()`
  asserts at retirement. Addresses fit 32 bits and are aligned.
* `PaySize` and `DebugSize` of `frontend` exceed what can be in flight, as in the
  code (`PAYLOAD_BUFFER_SIZE`, `PIPE_QUEUE_SIZE`); they are small enough to wrap
  within a run. Nothing else of `FrontEnd` is bounded.
* `MaxSources` (`IssueQueue`): two sources; three lanes' worth of instructions is
  all that three tags in flight can occupy.
* `MaxInFlight` and `MaxDepth` (`BranchPredictor`): transfers in flight, fewer than
  the entries of the queue, and nested calls.
* Widths of `alu`: a half word of 4 bits has a carry from each of the four partial
  products of `mulhi.h`; a format of 3 and 2 bits has subnormals, ties in both
  directions, overflow to infinity and to the greatest number. With so few bits nearly
  every estimate lies near a tie and is corrected. `WideS` and `WideD` (eight and six
  bits of fraction) have both, estimates that are corrected and estimates that are left,
  for the roots of all numbers and the quotients of all pairs of fractions. That the
  thresholds and tables are no larger than they must be is not shown, nor how good the
  estimates are at 32 and 64 bits: the tables have slack in small words. The module's
  formulas take any width in which a word has halves, and that of double quarters.
* `MaxPending` (`Hart`): replies that wait in the host; more are not counted, and no
  program of the run takes more than two.
* `MaxIdle` (`Lockstep`): cycles in a row without retirement. It is below
  `Interleave`: section 4 says what happens when a stall reaches it. `Width` is the
  width of values, PCs and of the counter, which wraps.

Views. A ring's contents are compared from its head, and a register or tag by what
names it: two states that differ only in names have the same futures up to names. A
view also contains the invariant that makes it sound (a state in which an entry is
out of place has a view of its own: `PayExact` in `RingView`, `QueueExact` in
`StageView`, `MHSRsExact` in `RelativeView`), so that no violation hides behind a
state seen before. TLC finds the same number of states in whatever order it
explores. The view of `retire` also takes two states for one that differ by a turn of the
Free List (which is never empty under `KeepOneFree`, and so only goes round) or by a
number that is added to every value: the function an instruction computes commutes with
that. `retire` asks about order, values and what is waited for; where the indices of the
Free List lie is the question of `branches`, whose view does not turn it.
The liveness properties of `retire`, `frontend` and `issueq` and their
fairness name places (slots of the Active List, stages), never registers, so the
quotient has the same answers.

Refinements. `Renamer` implements `InOrder`: committed registers are
`value[AMT[l]]`, the window is the Active List from its head followed by the
DISPATCH register. `RenameOne` is `Fetch`, a commit is `Commit` (serializing: the
window empties), a misprediction is `Redirect`, a trap or a replayed load is
`Flush`, everything else stutters. That an instruction reads what its predecessors
in program order produced, however they were executed, is what the refinement says.
`Lockstep` implements `Functional`: the abstract machine is the core with the
instructions of the call in progress accounted for; an instruction that retires is a
step, everything else stutters.

Fairness, and why the code justifies it:

* `retire` (`HeadLeaves`: the head of the Active List changes again and again, or
  nothing more is fetched): weak fairness of the two stage loops, of what is in each Active List
  slot (it executes, is answered or is written back) and of retirement.
  The cycle loop calls each of these stages in every cycle, `schedule` issues what
  is ready, and a miss is answered after a finite latency. Nothing is assumed of
  rename, of fetch or of the outcome of choices; that retirement does not replay for
  ever is not claimed, only that the head leaves.
* `frontend` (`RetiresForever`): each stage is called in every cycle; the head of
  the Active List executes. A load violation does not count as retiring, and the
  head of a squashed machine can have none (there is no older store).
* `issueq` (`HeadCompletes`): cycles go on; a stalled load at the head is answered
  (no older store is left, and its miss ends); a completed head retires. Nothing is
  assumed of who is selected.
* `lockstep` (`ExitStops`): the simulators' loops go on.

## 4. Where code and comments disagree

Two are runs, each with one property, found violated:

* `stall_reg`: a list with one free register counts as `size_list + 1`
  (`renamer.cc:63`), so a bundle with two destinations passes and meets the assert
  of `rename_rdst`. `renamer.h` asks for a stall.
* `mulhsu`: MULHSU falls through to MULHU for want of a `break` (`alu.cc:238`), and
  the core computes another product than the functional simulator it is checked
  against.

Met while modelling, with no run of their own; the models stay on the side where the
code works, and say so:

* L1 caches that share a level can have more miss registers than it, as they do by
  default (32 + 64 before 64). The comment at `CacheClass.cc:310` excludes one cache
  with more; together they are refused, and the time -1 passes an assert on an
  unsigned number.
* Words that are no instruction meet asserts in the core (`decode.cc:382`,
  `decode.cc:460`, `dispatch.cc:290`) where the functional simulator traps, also on a
  mispredicted path that fetches data. An unknown opcode leaves the flags of the
  slot's last instruction (`decode.cc:156`).
* Square roots have the code 0x07 in the core's decoder (`decode.cc:304`) and 0x0b in
  `riscv-base/encoding.h:202`: they reach no case of `alu()`. FMIN and FMAX meet an
  assert there, FCLASS leaves an old `C_value`, and multiply-adds are copied from the
  debug buffer.
* `alu()` ignores the rounding mode: to nearest, and towards zero to an integer. The
  bits of a NaN are the host's. FCVT_WU does not sign-extend results of 2^31 and more,
  FSGNJX_S drops the upper half of the register.
* A trap of the load of an AMO meets an assert (`retire.cc:207`), as does an AMO that
  writes x0.
* The emptied Free List forgets its place (`renamer.cc:110`, `renamer.cc:307`), and
  `squash()` then restores a wrong set of registers.
* `1 << ID` is an int (`renamer.cc:150`); the constructor admits 63 branches and the
  mask has 64 bits, but above 31 IDs mark each other.
* The mask of `disambiguate()` and `ld_violation()` is an `unsigned int`
  (`lsu.cc:20`, `lsu.cc:41`), so the upper half of an address does not count.
* A misaligned load that overlaps an aligned store of its size is forwarded the
  whole store (`lsu.cc:53`) and never meets the alignment trap of the MMU.
* A load to x0 that hits writes a register (`execute.cc:76`) although decode removed
  its destination.
* A write-back passes the address of the new line down, not that of the victim
  (`CacheClass.cc:291`). L2 is asked at times that are not monotone
  (`CacheClass.cc:127`), and may forget a register early. When `Access()` answers
  -1, `hit` is left uninitialized for `fetch.cc:56` and `lsu.cc:302`.
* `--ras` sets a parameter nothing reads (`main.cc:38`), the statement `exit;` does
  nothing (`pipeline.cc:216`), and the confidence of the predictor is trained with
  pc + 8 (`bpred_interface.cc:223`).
* An interrupt is thrown before the debug buffer's entry is started
  (`riscv-base/processor.cc:281`) and overwrites the entry of the instruction
  before; the core's own `take_interrupt` uses the speculative PC of fetch.
* Idle cycles give the host a turn too (`sim.cc:177`): a miss to memory of 110
  cycles, more than the 64 of `Interleave`, makes the host of the core run ahead of
  the other one. With `MaxIdle = Interleave` `RetirementAgrees` fails.
* A load in flight while its host ticks keeps what it read: a program that polls
  memory for the host's answer, rather than `fromhost`, retires a stale value.
* `run_ahead()` does not ask whether the program still runs (`debug.cc:60`): one
  that ends within `PIPE_QUEUE_SIZE` instructions hangs it.
* `dispatch()` hands the PC on as an `unsigned int` (`dispatch.cc:130`), and the predictor
  keeps PCs and targets in 32 bits (`bpred_interface.h:126`, `bpred_interface.h:262`):
  after a trap or a replay of an instruction above 4 GB fetch restarts elsewhere.
  `FrontEnd` and `BranchPredictor` have PCs that fit.
* The square root of double adds `2 * sigZ` to the remainder at each correction, where
  that of float adds one more (`riscv-base/softfloat/f64_sqrt.c:61`). The model does the
  same; in the formats tried the result is rounded right.
* An unimplemented CSR meets the assert of `execute_csr()` (`retire.cc:402`) where
  the functional simulator traps. `csrrs` with x0 writes, and so clears the timer's
  interrupt; both simulators do it.
* Two hosts perform each system call twice.

## 5. Proofs

`RenamerProofs` proves, for all sizes, widths, kinds of instruction and programs,
under `KeepOneFree`:

* `RenamerTypeOK`: `Spec => []TypeOK`. `TypeOK` is not inductive: `squash()` with
  the head at -1 leaves the tail at -2, and a misprediction may put a -1 back from a
  checkpoint. The strengthening `TypeInv` adds that neither the head of the list nor
  that of any checkpoint is -1 and, for the rename loop, that the rest of the bundle
  needs fewer registers than there are. The key lemma is `CountTail` (taking an
  instruction off a bundle takes one off its count), proved with a bijection and the
  library's theorems on cardinalities.
* `RenamerCheckpoints`: `Spec => []BundleHasCheckpoints` if `NumBranches <=
  IntWidth`: then marking an ID marks no other ID (`BitOfOneID`) and each branch of
  the bundle takes exactly one. Above that width IDs do mark each other (section 4).
* `RenamerEntries`: `Spec => []BundleHasEntries` if `DispatchWidth < ListSize`: a
  list with one entry never stalls (the size wraps in unsigned arithmetic) and then
  has room for a bundle only if it is larger than one. `UsedIsInFlight` relates the
  arithmetic on the indices to the set of entries.

`RenamerTableProofs` proves what the tables hold, under `Sound`: `KeepOneFree`,
`NumBranches <= IntWidth` and `DispatchWidth < ListSize`, that is, the three bounds
within which the theorems above show that the code meets none of its asserts. The
code needs each of them (section 4), and ordinary configurations satisfy the last two.

The invariant, `TablesInv`, measures everything from the tail of the Free List:

* `FreeInv`. The list's slots and the committed map together hold every register once
  (`Partition`), the free ones and those lent alike. The registers lent to the
  instructions in flight lie behind the tail in program order (`Lent`: the writer
  with `c` older writers and itself has the slot `c` behind the tail), and the head
  lies one behind the last of them. So taking a register moves the head by one, a
  commit swaps one slot of the list with one place of the map (`SwapPartition`) and
  moves the tail by one, and neither a misprediction nor a squash moves anything but
  one end.
* `MapInv`: RMT is the committed map overlaid by the program's destinations.
* `CheckInv` and `IDInv`: each unresolved branch's checkpoint holds the map, the head
  and the older IDs that belong to the program up to it; the Global Branch Mask holds
  the unresolved IDs, each once. `MaskInv` says the same of each instruction's mask,
  unless predictions are perfect.
* `Shapes`: types, and that the back end is the uncompleted part of the Active List.

The second half of `RenamerProofs` has the lemmas this rests on: places of a ring counted from one of
them (`Behind`), how `Program` is made of the Active List and the bundle
(`ProgramShape`), how many destinations a prefix of it has (`Dests...`) and which map
(`MapStep`, `MapTail`), and for each action which instructions stay where they were
(`Follows`). TLC checked `TablesInv` on the instances of `retire` and `branches`, with
and without perfect prediction, before it was proved. The theorems:

* `RenamerFreeList`, `RenamerMap`, `RenamerCheckpointContents`, `RenamerBackend` and
  `RenamerEmptyPipeline`: `FreeListExact`, `MapIsProgramOrder`, `CheckpointsExact`,
  `BackendIsActiveList` and `EmptyPipelineConsistent` are invariants.
* `RenamerBranchMasks`: `BranchMasksExact` is, unless predictions are perfect (the code
  clears no mask then, and reads none).
* `RenamerReadyBits`: `ReadyBitsExact` is, for programs without loads to x0, which
  write a register that is not theirs (section 4). `OwnRegister` says that no two
  instructions in flight, and none and the committed map, have a register in common;
  each ready bit is then written by its owner only.

The last part of `RenamerTableProofs` proves `CoreExecutesInOrder`: `Spec => ImplementsInOrder` under the
same assumptions. Beyond `TablesInv` and `ReadyBitsExact` it needs `ValuesInv`:

* `SourceInv`: the source register of each instruction that has been renamed and not
  completed is the one the program order up to it gives (`Source(j)`), whatever was
  renamed, committed or recovered since;
* `ResultInv`: an instruction that has left the issue queue had a source that was
  ready, and is still; one that has produced its result has the right one, computed
  from what its source register holds now.

It is inductive because a register is not written while it is ready (`KeepsReady`): a
source is the destination of an older instruction or a committed register
(`SourceIsOlder`), and the only register that a ready bit is taken from, at dispatch,
is that of the youngest instruction. At the head, where the program up to the source
is empty, `ResultInv` says that what commits is the function of the committed
registers (`HeadComputed`). `RenameOne` is shown to be `Fetch`, `ResolveMispredict`
`Redirect`, `RetireCommit` and `RetireSystem` `Commit`, the other retirements `Flush`,
and all else a stutter.

`FrontEndProofs` proves, for every width, every size of the rings that
`FrontEndAssumption` allows and every program, all safety invariants of the run
`frontend`:

* `FrontEndPay` and `FrontEndPath`: `PayExact` and `InFlightIsPath`;
* `FrontEndChecker`: `CheckerAgrees`, so that no assert of `checker()` or of
  `debug_buffer_t::pop()` fails and what retires is the program's next instruction
  with its outcome and its trap;
* `FrontEndStalls`: `StallFlagsExact`.

None is inductive. That what retires is right needs the link made at fetch to be
right, which needs the debug buffer to have been far enough ahead then, and that a
load took the wrong outcome only if its violation is flagged on itself or an older
load. `FrontEndInv` has two layers:

* `RingsInv` says where things lie: the instruction with `k` in flight before it at
  `2k` places behind PAY's head, whether the Active List, RENAME2, the Fetch Queue or
  DECODE holds its index; and that the debug buffer is full but for one entry unless
  nothing has been fetched. `PayPushOK`, `PayPopOK`, `PayRollbackOK`, `FQPushOK`,
  `FQPopOK`, `DBPush` and `DBPop` carry it over the operations of the three rings,
  and `MapToActualOK` says what `map_to_actual()` finds.
* `PathInv` is about two sequences without a modulus, the instructions in flight and
  the entries of the buffer. The entries are a run of the program (`Program`); the
  instructions are a path (`Linked`) that starts with it (`Starts`) and ends at the
  PC of fetch; an instruction is linked to an entry exactly as long as the two
  sequences have agreed so far (`Matched`); kinds and flags are those of the code
  (`KindsOK`, `StallsOK`); and what has executed has the outcome of its entry unless
  it is off the path or an older load is wrong (`WindowOK`). `AppendPath`,
  `CompletePath`, `DispatchPath`, `RollbackPath`, `PopPath` and `EmptyPath` say what
  fetching, executing, recovering, retiring and squashing do to it.

TLC checked `FrontEndInv` on the instance of `frontend` before it was proved.

`CacheProofs` proves, for all numbers of lines, sets, ways, registers and ports and for
all latencies:

* `CacheMHSRs`: `Spec => []MHSRsExact`. The invariant, `CachesInv`, is `MHSRsExact` said
  of each way of each set, with the types of lines, registers and ports. What makes it
  long is that one access of an L1 changes two caches up to four times: a finished
  register is freed and its line moved to the front, the victim's fill is waited for,
  L2 is asked for the write-back and again for the fill. `ToFrontIs` and `ReplacedIs`
  say what a set holds after a line has moved to its front or has replaced the last,
  `FreedIs`, `HitIs` and `FilledIs` what each part of `Access()` does to one cache,
  `L2Is` what `Access()` of L2 does to both and `L1Misses` what a whole miss does.
* `CacheNextLevel`: `Spec => []NextLevelAccepts` if L2 has at least as many registers as
  both L1 caches together. `NextLevelInv` adds to `CachesInv` an injection (`Covers`)
  from the registers of L2 that are still pending into those of the L1 caches, each to a
  busy one whose fill comes later. A miss takes at most one register of L2,
  because after a write-back the fill finds the line there (`L2Misses`), and the
  register of L1 that it takes was free or finished, so it stands for none. One register
  less is too few: with 2 and 1 before 2, TLC finds a refusal. The run `cache` meets the
  condition (1 and 1 before 2); the default sizes, 64 and 32 before 64, do not
  (section 4).

TLC checked `CachesInv` and that some `f` has `Covers(f)` on the instance of `cache`
before they were proved.

`LSUProofs` proves, for all sizes of queues, window, memory and addresses:

* `LSUTypeCorrect`: `Spec => []LSUTypeOK`, and `LSURings`: `Spec => []RingsExact`.
  Neither is inductive alone: that a length does not fall below zero needs the load
  at the head of the window to be in the queue, and that a recovery finds the right
  length needs indices inside the ring. `LSUInv` is both. `Rank` counts the loads
  (or stores) before a place of the window; the lemmas `RankStep`, `RankAppend` and
  `RankTail` say how it moves, `DistanceIsRank` that index and phase determine it
  whether the ring is empty, full or in between, and one lemma for each of push,
  pop, restore, flush and of steps that only fill in entries carries `RingExact`
  over, for any ring; the actions of both queues are instances.
* `LSULoadsAreSequential` and `LSURetiringLoadIsRight`: `LoadsAreSequential` and
  `RetiringLoadIsRight` are invariants if programs compute aligned addresses
  (`~Misaligned`) and the mask that the code compares them with drops no bit of them
  (`AddrSpace <= MaskSpace`). Both are needed: section 4 says what the code does
  without them. Neither property is inductive. `ValuesInv` says of each load that has
  a value, unless it or an older load is marked with a violation, where the value came
  from and that nothing has come between since: from an older store in flight that
  overlaps it, has its size and its value, with no overlapping store between the two
  (`ForwardedBy`), or from memory, with no overlapping older store in flight
  (`FromMemory`: memory still has the value, or the access faults). It is inductive
  because a store that learns its address marks the oldest of the younger loads that
  overlap it and have a value (`ld_violation()`), and all younger ones go with it; and
  because a store that commits puts its value in memory where its bytes are and
  changes nothing else (`ReadOwnWrite`, `ReadPastWrite`). `ConflictIsOverlap` says that
  the masks of `disambiguate()` and `ld_violation()` miss no overlap of aligned
  accesses, and `RankWithin` that the entry counted in the queue is the store counted
  in the window. TLC checked `ValuesInv` on the instance of `lsu` before it was proved.

`IssueQueueProofs` proves the four safety properties of the run `issueq`, for all sizes
of the queue and of the Active List, all numbers of lanes and of sub-stages (up to 16 in
a lane), all operations and programs and both options, from `IssueQueueAssumption`
alone, which leaves out one operation, a load without a destination (a load to x0,
section 4). Jumps that write a link register are producers, consumers and checkpointed
branches at once. The theorems are `IssueQueueQueueExact`, `IssueQueueOnePlaceEach`, `IssueQueueWakeupExact` and
`IssueQueueValueInTime`. A step of the model is a whole cycle, so the invariant is one of
the state of the core as a record, `CoreOK(s)`, and each stage is shown to keep it at
each lane, entry or instruction it treats:

* `FreeListOK` and `AgeListOK`: the free list as a ring, and the age list by its links:
  the successor of a valid entry is a younger valid one with none in between, the
  oldest and the youngest have no neighbour on their side. The order is that of the
  places of the tags in the Active List (`Place`), so that a commit, which moves all
  places by one, keeps it. `FreeListHasRoom` is the pigeonhole argument that `remove()`
  never overruns the free list.
* `OnePlace` says of each tag that it is in flight exactly if it waits, is in a lane,
  is stalled or has completed, and in only one of these. A pipeline register has one
  name whatever it is in the code (`At(s, l, d)`: `d = 1` is register read, the
  sub-stages follow, the last is writeback), so that `AdvancePlaces` covers the shift
  of a lane.
* `Wakes` relates the ready bit of a producer to its place (`Asleep`) and gives what a
  consumer needs (`InTime`); `Consumers` says that an entry waits for its sources that
  are not ready, and that the sources of what has issued are. `ActiveListOK` says that a
  source is an older producer in flight or a register written for good.

A cycle takes more than the invariant: `execute()` of a lane needs the writeback
register empty, which `writeback()` of all lanes has left so (`WrittenBack`), and
`register_read()` the first sub-stage (`ReadFrom`). A loop over lanes, entries or the
age list is a function on the numbers of its turns: `RunExists` gives it as the values
that each turn makes of the one before, `UpTo` is the induction. `AgeOrderIs` and
`ChainIs` show that the walk along the links from the oldest is the valid entries in
program order and ends. TLC checked `CoreOK` on the instance of `issueq` before it was
proved.

`BranchPredictorProofs` proves all five properties of the run `bpred`, for all sizes of
queue and tables, every width of the history, every program and all landings of its
indirect transfers, from `BranchPredictorAssumption` alone: sizes are powers of two, as
the masks need (up to 2^16, the default size of the direction table), and
`MaxInFlight < CTIQ_SIZE`, since the queue has no test for being full.

* `BranchPredictorQueue`, `BranchPredictorHistory` and `BranchPredictorTraining`:
  `QueueExact`, `HistoryExact` and `TrainsWhatPredicted` are invariants. `QueueInv` says
  of each entry in flight (`Matches`) where it lies, whose it is, where it leads, that a
  conditional branch is marked taken exactly if that is not the next instruction, that
  the table entry which its history and its PC give is the one that was read, and
  that the history behind it follows from its own. The history is the delicate part: it
  lies in the entry after the one it belongs to, so a prediction and a repair write two
  entries, and retiring clears one and keeps its history. `EnterInv` is the step that
  `get_pred()` and `fix_pred()` share: a queue cut off behind an entry, and that entry
  replaced.
* `BranchPredictorLookup` and `BranchPredictorVerify`: `LookupIsTopOfStack` and
  `VerifyAssertions` are. `RASInv` adds that there are stacks `S[0]`, `S[1]`, ..., the
  committed one and one after each prediction in flight, each what its entry makes of
  the one before (`UpdatedRAS`), and that an entry pops only a stack whose top is the
  address it predicted (`PopFits`). `GoBack` relates the walk of `RAS_lookup()` to them,
  by induction on how far it has gone: with a balance of pushes and pops of `b`
  over the youngest entries and no stop so far, the top of the youngest stack is
  element `1 - b` of the stack the walk has come to. `LookupFindsTop` follows, where the
  walk stops in the queue and where it ends in the committed stack. The stacks need not
  be computed for this; `StacksIs` shows that those of the property, a recursive
  function, are the ones the invariant speaks of.

TLC checked `QueueInv`, and `StacksAre` of the stacks of the property, on the instance of
`bpred` before they were proved.

`LockstepProofs` proves, for every width, handler, `Interleave`, host, retire width,
size of the debug buffer and set of programs:

* `Types`: `Spec => []TypeOK`, from `Inv` (theorem `Invariant`). `TypeOK` is not
  inductive: that the steps since the last tick stay below `Interleave` needs the
  limit of the call in progress (`CallOK`: a call ends no later than its tick), that
  the host's waiting replies do not fall below zero needs `ReadyHost` (it replies
  only when it has a reply), and that the buffer does not overflow needs the room it
  has while `RunAhead` fills it. One lemma per operator of `Hart` says that it keeps
  the types (`PerformedType`, `TickType`, ...) and that only the host stops a
  processor.
* `CoreImplementsFunctional`: `Spec /\ []RaceFree => ImplementsFunctional` if
  `MaxIdle < Interleave`. The two assumptions are the two ways in which the code
  leaves the functional machine (section 4): a load that reads before a tick that
  writes, and a stall as long as `Interleave`. `AccountedIsInterleaved` says that
  `sim_t::step()` of the core accounts for a call as the machine does,
  `InterleavedAgain` that instructions may be accounted together or one by one,
  `AccountedIdle` that idle cycles are no step; `RetireFunctional` is the step,
  `OthersStutter` the rest. The lemmas `Same...` identify the operators of the
  instance of `Functional` with those of `Hart`.
* `RetirementChecked`: `Spec /\ []RaceFree => []RetirementAgrees`, under the same
  assumption and for a debug buffer of more than one entry (`PIPE_QUEUE_SIZE` is 4096):
  with one, `pop()` leaves it empty and the next instruction of the bundle has nothing to be
  compared with. The entry at the head was pushed many steps earlier, by the other
  simulator; what makes the property inductive is `BufferInv`: there are machines,
  the first the functional machine that the core implements (`Functionally`), the last
  the functional simulator itself (`TicksOf(isa)`), each the step of the one before, and
  entry `k` of the buffer is what the `k`th of them does (`Linked`). Pushing adds a
  machine at the end (`AheadPush`), retirement drops the first (`AheadPop`, with
  `RetireFunctional`), everything else leaves both ends alone (`OthersBuffer`); and
  the buffer is at most one short while the functional simulator runs (`Full`), so it
  is empty only when the core is the stopped machine too. TLC checked the two parts, with the
  machines computed from the first, and `RaceFree` on the instance of `lockstep`.

Only model-checked: `BundleHasRegisters` is the violated property.
`Arithmetic` and `Decode` are functions on finite words: their state space is their
domain, and they use bitwise operators, which the prover has no theory of. Liveness
(`HeadLeaves`, `RetiresForever`, `HeadCompletes`, `ExitStops`) is out of its reach.

## 6. Plan

Done: the modules of section 2 and the theorems of section 5; the safety
invariants of the renamer, of the load/store unit, of the front end, of the issue queue,
of the caches and of the branch predictor, the agreement of the core with the functional
simulator and the two refinements are proved for every size.

Left, in this order:

1. `LSU`: load reservations; that a stalled load is answered (liveness).
2. `Lockstep`: interrupts enabled.

## 7. Not modelled

* `checkpoint.cc`: every function is commented out; statistics and histograms:
  counters and output that nothing depends on; option parsing and printing.
* Of floating point, the routines that no instruction calls, and square roots and
  multiply-adds in `alu()`, which no word reaches or whose result is not used.
* Address translation, the devices and the system calls behind HTIF, the loading of
  a program: third-party code of `riscv-base`.
* The hazards without a property in `PROJECT.json` say, each in its note, why: the
  code breaks any property there, or the part (load reservations, interrupts) is
  left out.
