-------------------------------- MODULE LSU --------------------------------
(***************************************************************************)
(* The load/store unit (lsu.h, lsu.cc) under the protocol the pipeline     *)
(* drives it with (dispatch.cc, execute.cc, writeback.cc, retire.cc,       *)
(* squash.cc).                                                             *)
(*                                                                         *)
(* Loads and stores sit in two rings between dispatch and retirement, in   *)
(* program order.  A phase bit, toggled on each wrap, tells a full ring    *)
(* from an empty one.  A load looks for the youngest older store to its    *)
(* address and may run ahead of older stores whose address is not known    *)
(* yet; such a store, when it executes, marks the first younger load that  *)
(* was wrong.  Memory is written by stores as they retire.                 *)
(*                                                                         *)
(* "window" is the part of the Active List this unit sees: the loads, the  *)
(* stores and the branches with a checkpoint, in program order, with what  *)
(* the payload buffer records of them.                                     *)
(***************************************************************************)
EXTENDS Integers, Sequences, FiniteSets

CONSTANTS
  LQSize,          (* entries of the load queue                             *)
  SQSize,          (* entries of the store queue                            *)
  WindowSize,      (* bound: memory instructions and branches in flight     *)
  Sizes,           (* sizes of an access in bytes, powers of two            *)
  AddrSpace,       (* byte addresses a program may compute (2^64)           *)
  MaskSpace,       (* addresses are compared modulo this (2^32)             *)
  MemSize,         (* bytes of memory behind the first addresses            *)
  NumBytes,        (* values of a byte                                      *)
  Misaligned,      (* may a program compute a misaligned address?           *)
  SpecDisambig,    (* SPEC_DISAMBIG: loads may pass stores                  *)
  OracleDisambig,  (* ORACLE_DISAMBIG: store addresses known at dispatch    *)
  PerfectDcache    (* PERFECT_DCACHE: no load misses                        *)

ASSUME LSUAssumption ==
  /\ LQSize \in Nat \ {0} /\ SQSize \in Nat \ {0}
  /\ WindowSize \in Nat \ {0}
  /\ Sizes \subseteq {1, 2, 4, 8} /\ Sizes # {}
  /\ AddrSpace \in Nat \ {0} /\ MemSize \in Nat /\ MemSize <= AddrSpace
  /\ MaskSpace \in Nat \ {0} /\ \A n \in Sizes : MaskSpace % n = 0
  /\ NumBytes \in Nat \ {0}
  /\ Misaligned \in BOOLEAN /\ SpecDisambig \in BOOLEAN
  /\ OracleDisambig \in BOOLEAN /\ PerfectDcache \in BOOLEAN

Phase   == {0, 1}
LQSlot  == 0 .. LQSize - 1
SQSlot  == 0 .. SQSize - 1
Addr    == 0 .. AddrSpace - 1
Byte    == 0 .. NumBytes - 1
Datum   == UNION {[1 .. n -> Byte] : n \in Sizes}

(* A store writes the same byte to all of its places.                      *)
DatumOf(n) == {[i \in 1 .. n |-> b] : b \in Byte}

(* The addresses an access of n bytes may compute.                         *)
AddrOf(n) == {a \in Addr : Misaligned \/ a % n = 0}

VARIABLES
  LQ,        (* load queue: ring of entries, head, tail, phases, length     *)
  SQ,        (* store queue                                                 *)
  window,    (* instructions in flight, in program order                    *)
  mem        (* committed memory, by byte                                   *)

vars == <<LQ, SQ, window, mem>>

Load  == [valid : BOOLEAN, size : Sizes, addr_avail : BOOLEAN, addr : Addr,
          value_avail : BOOLEAN, value : Datum \cup {<<>>}, missed : BOOLEAN,
          sq_index : SQSlot, sq_index_phase : Phase, mdp_stall : BOOLEAN]
Store == [valid : BOOLEAN, size : Sizes, addr_avail : BOOLEAN, addr : Addr,
          value_avail : BOOLEAN, value : Datum \cup {<<>>}]
Ring(Slots, E, n) ==
  [buf : [Slots -> E], head : Slots, head_phase : Phase,
   tail : Slots, tail_phase : Phase, length : 0 .. n]

(* stage: waiting in the issue queue, executed without a value, completed. *)
Flying == [kind : {"load", "store", "branch"},
           LQ_index : LQSlot, LQ_phase : Phase, SQ_index : SQSlot, SQ_phase : Phase,
           stage : {"queued", "stalled", "done"},
           exception : BOOLEAN, load_violation : BOOLEAN]

(* The rings keep the shape of lsu.h: indices inside, lengths within size. *)
LSUTypeOK ==
  /\ LQ \in Ring(LQSlot, Load, LQSize)
  /\ SQ \in Ring(SQSlot, Store, SQSize)
  /\ window \in Seq(Flying) /\ Len(window) <= WindowSize
  /\ mem \in [0 .. MemSize - 1 -> Byte]

EmptyRing(b) ==
  [buf |-> b, head |-> 0, head_phase |-> 0, tail |-> 0, tail_phase |-> 0, length |-> 0]

NoSize == CHOOSE n \in Sizes : TRUE

Init ==
  /\ LQ = EmptyRing([i \in LQSlot |->
            [valid |-> FALSE, size |-> NoSize, addr_avail |-> FALSE, addr |-> 0,
             value_avail |-> FALSE, value |-> <<>>, missed |-> FALSE,
             sq_index |-> 0, sq_index_phase |-> 0, mdp_stall |-> FALSE]])
  /\ SQ = EmptyRing([i \in SQSlot |->
            [valid |-> FALSE, size |-> NoSize, addr_avail |-> FALSE, addr |-> 0,
             value_avail |-> FALSE, value |-> <<>>]])
  /\ window = <<>>
  /\ mem = [b \in 0 .. MemSize - 1 |-> 0]

-----------------------------------------------------------------------------
(* Memory, as the MMU gives access to it.                                  *)

Faults(a, n) == a % n # 0 \/ a + n > MemSize
Read(m, a, n) == [i \in 1 .. n |-> m[a + i - 1]]
Write(m, a, v) ==
  [b \in DOMAIN m |-> IF b \in a .. a + Len(v) - 1 THEN v[b - a + 1] ELSE m[b]]

-----------------------------------------------------------------------------
(* The two rings.                                                          *)

MOD_S(a, n) == IF a >= n THEN a - n ELSE a

PushNoPhase(q, n, e) ==                          \* mutant: the phase stays
  [q EXCEPT !.buf[q.tail] = e, !.tail = MOD_S(@ + 1, n), !.length = @ + 1]

(* dispatch(): the entry goes to the tail.                                 *)
Push(q, n, e) ==
  LET t == MOD_S(q.tail + 1, n)
  IN  [q EXCEPT !.buf[q.tail] = e, !.tail = t, !.length = @ + 1,
                !.tail_phase = IF t = 0 THEN 1 - @ ELSE @]

(* commit(): the head leaves.                                              *)
Pop(q, n) ==
  LET h == MOD_S(q.head + 1, n)
  IN  [q EXCEPT !.buf[q.head].valid = FALSE, !.head = h, !.length = @ - 1,
                !.head_phase = IF h = 0 THEN 1 - @ ELSE @]

(* How many entries there are from one place in program order to a later   *)
(* one, the two given by index and phase.                                  *)
Distance(i, iphase, j, jphase, n) ==
  IF i = j THEN IF iphase = jphase THEN 0 ELSE n
  ELSE MOD_S(n + j - i, n)


(* restore(): the tail goes back to a branch; the length and the valid     *)
(* bits are computed again.                                                *)
Restore(q, n, t, tphase) ==
  LET len == Distance(q.head, q.head_phase, t, tphase, n)
  IN  [q EXCEPT !.tail = t, !.tail_phase = tphase, !.length = len,
                !.buf = [i \in DOMAIN @ |->
                           [@[i] EXCEPT !.valid = MOD_S(n + i - q.head, n) < len]]]

(* flush(): both rings start over.                                         *)
Flush(q) == EmptyRing([i \in DOMAIN q.buf |-> [q.buf[i] EXCEPT !.valid = FALSE]])

-----------------------------------------------------------------------------
(* Two accesses conflict when their addresses agree in all but the bits    *)
(* below the larger of the two sizes.  The mask is an unsigned int.        *)
Conflict(s, l) ==
  LET n == IF s.size > l.size THEN s.size ELSE l.size
  IN  (s.addr % MaskSpace) \div n = (l.addr % MaskSpace) \div n

PriorStoresNoPhase(l) ==                         \* mutant: full is taken for empty
  MOD_S(SQSize + l.sq_index - SQ.head, SQSize)

(* How many stores in the queue are older than the load.                   *)
PriorStores(l) ==
  Distance(SQ.head, SQ.head_phase, l.sq_index, l.sq_index_phase, SQSize)

StoreBefore(l, j) == SQ.buf[MOD_S(l.sq_index + SQSize - j, SQSize)]

(* disambiguate(): going back from the load, the first store that it       *)
(* conflicts with, or has to wait for, decides.                            *)
Disambiguate(l) ==
  LET deciding == {j \in 1 .. PriorStores(l) :
                     LET s == StoreBefore(l, j)
                     IN  IF s.addr_avail THEN Conflict(s, l) ELSE l.mdp_stall}
  IN  IF deciding = {} THEN [how |-> "memory"]
      ELSE LET s == StoreBefore(l, CHOOSE j \in deciding : \A i \in deciding : j <= i)
           IN  IF s.addr_avail /\ s.size = l.size /\ s.value_avail
               THEN [how |-> "forward", value |-> s.value]
               ELSE [how |-> "stall"]

(* execute_load(): what becomes of the load, given whether its cache line  *)
(* is still on its way.  A fault counts as a value and is posted.          *)
Executed(l, waits) ==
  LET d == Disambiguate(l)
  IN  IF d.how = "stall" \/ (d.how = "memory" /\ waits) THEN l
      ELSE [l EXCEPT !.value_avail = TRUE,
                     !.value = IF d.how = "forward" THEN d.value
                               ELSE IF Faults(l.addr, l.size) THEN @
                               ELSE Read(mem, l.addr, l.size)]

PostsException(l) == Disambiguate(l).how = "memory" /\ Faults(l.addr, l.size)

LoadsFromNext(f) ==                              \* mutant: the first load is skipped
  2 .. Distance(f.LQ_index, f.LQ_phase, LQ.tail, LQ.tail_phase, LQSize)

(* The loads younger than the store f, counted from the oldest.            *)
LoadsFrom(f) ==
  1 .. Distance(f.LQ_index, f.LQ_phase, LQ.tail, LQ.tail_phase, LQSize)

LoadAfter(f, j) == MOD_S(f.LQ_index + j - 1, LQSize)

(* ld_violation(): the younger loads that have a value and conflict.       *)
Violated(f, s) ==
  {j \in LoadsFrom(f) : /\ LQ.buf[LoadAfter(f, j)].value_avail
                        /\ Conflict(s, LQ.buf[LoadAfter(f, j)])}

-----------------------------------------------------------------------------
(* dispatch()                                                              *)

NewInsn(kind) ==
  [kind |-> kind, LQ_index |-> LQ.tail, LQ_phase |-> LQ.tail_phase,
   SQ_index |-> SQ.tail, SQ_phase |-> SQ.tail_phase,
   stage |-> "queued", exception |-> FALSE, load_violation |-> FALSE]

(* A load is told to wait for unknown store addresses when there is no     *)
(* speculation, or when the dependence predictor has it.                   *)
DispatchLoad ==
  /\ Len(window) < WindowSize
  /\ LQ.length + 1 <= LQSize
  /\ \E n \in Sizes, mdp \in IF SpecDisambig THEN BOOLEAN ELSE {TRUE} :
       LQ' = Push(LQ, LQSize,
               [valid |-> TRUE, size |-> n, addr_avail |-> FALSE, addr |-> 0,
                value_avail |-> FALSE, value |-> <<>>, missed |-> FALSE,
                sq_index |-> SQ.tail, sq_index_phase |-> SQ.tail_phase, mdp_stall |-> mdp])
  /\ window' = Append(window, NewInsn("load"))
  /\ UNCHANGED <<SQ, mem>>

(* With oracle disambiguation a store that the functional simulator also   *)
(* executes gets its address here; no younger load is in the queue yet.    *)
DispatchStore ==
  /\ Len(window) < WindowSize
  /\ SQ.length + 1 <= SQSize
  /\ \E n \in Sizes, known \in IF OracleDisambig THEN BOOLEAN ELSE {FALSE} :
     \E a \in IF known THEN AddrOf(n) ELSE {0} :
       SQ' = Push(SQ, SQSize,
               [valid |-> TRUE, size |-> n, addr_avail |-> known, addr |-> a,
                value_avail |-> FALSE, value |-> <<>>])
  /\ window' = Append(window, NewInsn("store"))
  /\ UNCHANGED <<LQ, mem>>

(* checkpoint(): the branch remembers both tails.                          *)
DispatchBranch ==
  /\ Len(window) < WindowSize
  /\ window' = Append(window, NewInsn("branch"))
  /\ UNCHANGED <<LQ, SQ, mem>>

-----------------------------------------------------------------------------
(* execute() and load_replay()                                             *)

LoadOf(k) == LQ.buf[window[k].LQ_index]

(* load_addr(): the load gets its address, and its value if it can.        *)
ExecuteLoad(k) ==
  /\ window[k].kind = "load" /\ window[k].stage = "queued"
  /\ \E a \in AddrOf(LoadOf(k).size), miss \in IF PerfectDcache THEN {FALSE} ELSE BOOLEAN :
       LET l == [LoadOf(k) EXCEPT !.addr_avail = TRUE, !.addr = a, !.missed = miss]
           r == Executed(l, miss)
       IN  /\ LQ' = [LQ EXCEPT !.buf[window[k].LQ_index] = r]
           /\ window' = [window EXCEPT
                ![k].stage = IF r.value_avail THEN "done" ELSE "stalled",
                ![k].exception = @ \/ (r.value_avail /\ PostsException(l))]
  /\ UNCHANGED <<SQ, mem>>

(* A stalled load that stays stalled: it conflicts, or its line is still   *)
(* on its way.                                                             *)
MayStayStalled(l) == Disambiguate(l).how = "stall" \/ (l.missed /\ Disambiguate(l).how = "memory")

(* load_unstall() goes through the stalled loads from the oldest and ends  *)
(* with the first that gets a value, which load_replay() completes.        *)
LoadReplay(k) ==
  /\ window[k].kind = "load" /\ window[k].stage = "stalled"
  /\ \A j \in 1 .. k - 1 :
       (window[j].kind = "load" /\ window[j].stage = "stalled") => MayStayStalled(LoadOf(j))
  /\ LET r == Executed(LoadOf(k), FALSE)
     IN  /\ r.value_avail
         /\ LQ' = [LQ EXCEPT !.buf[window[k].LQ_index] = r]
  /\ window' = [window EXCEPT ![k].stage = "done",
                              ![k].exception = @ \/ PostsException(LoadOf(k))]
  /\ UNCHANGED <<SQ, mem>>

(* store_addr() and store_value(): an address known from dispatch stays;   *)
(* otherwise loads that ran too early are looked for and the first marked. *)
ExecuteStore(k) ==
  /\ window[k].kind = "store" /\ window[k].stage = "queued"
  /\ LET f   == window[k]
         old == SQ.buf[f.SQ_index]
     IN  \E a \in IF old.addr_avail THEN {old.addr} ELSE AddrOf(old.size), v \in DatumOf(old.size) :
           LET s == [old EXCEPT !.addr_avail = TRUE, !.addr = a,
                                !.value_avail = TRUE, !.value = v]
               bad == IF SpecDisambig /\ ~old.addr_avail THEN Violated(f, s) ELSE {}
               first == LoadAfter(f, CHOOSE j \in bad : \A i \in bad : j <= i)
           IN  /\ SQ' = [SQ EXCEPT !.buf[f.SQ_index] = s]
               /\ window' = [j \in DOMAIN window |->
                    IF j = k THEN [window[j] EXCEPT !.stage = "done"]
                    ELSE IF bad # {} /\ window[j].kind = "load" /\ window[j].LQ_index = first
                    THEN [window[j] EXCEPT !.load_violation = TRUE]
                    ELSE window[j]]
  /\ UNCHANGED <<LQ, mem>>

-----------------------------------------------------------------------------
(* writeback() of a branch                                                 *)

ResolveCorrect(k) ==
  /\ window[k].kind = "branch" /\ window[k].stage = "queued"
  /\ window' = [window EXCEPT ![k].stage = "done"]
  /\ UNCHANGED <<LQ, SQ, mem>>

ResolveMispredict(k) ==
  /\ window[k].kind = "branch" /\ window[k].stage = "queued"
  /\ window' = [SubSeq(window, 1, k) EXCEPT ![k].stage = "done"]
  /\ LQ' = Restore(LQ, LQSize, window[k].LQ_index, window[k].LQ_phase)
  /\ SQ' = Restore(SQ, SQSize, window[k].SQ_index, window[k].SQ_phase)
  /\ UNCHANGED mem

-----------------------------------------------------------------------------
(* retire()                                                                *)

Retiring(kind) == window # <<>> /\ Head(window).kind = kind /\ Head(window).stage = "done"

(* squash_complete(), also on account of an instruction that is not        *)
(* modelled here.                                                          *)
Squash ==
  /\ LQ' = Flush(LQ)
  /\ SQ' = Flush(SQ)
  /\ window' = <<>>

RetireLoad ==
  /\ Retiring("load")
  /\ ~Head(window).exception /\ ~Head(window).load_violation
  /\ LQ' = Pop(LQ, LQSize)
  /\ window' = Tail(window)
  /\ UNCHANGED <<SQ, mem>>

RetireBadLoad ==
  /\ Retiring("load")
  /\ Head(window).exception \/ Head(window).load_violation
  /\ Squash
  /\ UNCHANGED mem

(* commit() of a store: memory is written now, or the store traps.         *)
HeadStore == SQ.buf[SQ.head]

RetireStore ==
  /\ Retiring("store")
  /\ ~Faults(HeadStore.addr, HeadStore.size)
  /\ mem' = Write(mem, HeadStore.addr, HeadStore.value)
  /\ SQ' = Pop(SQ, SQSize)
  /\ window' = Tail(window)
  /\ UNCHANGED LQ

RetireBadStore ==
  /\ Retiring("store")
  /\ Faults(HeadStore.addr, HeadStore.size)
  /\ Squash
  /\ UNCHANGED mem

RetireBranch ==
  /\ Retiring("branch")
  /\ window' = Tail(window)
  /\ UNCHANGED <<LQ, SQ, mem>>

Next ==
  \/ DispatchLoad
  \/ DispatchStore
  \/ DispatchBranch
  \/ \E k \in DOMAIN window :
       \/ ExecuteLoad(k)
       \/ LoadReplay(k)
       \/ ExecuteStore(k)
       \/ ResolveCorrect(k)
       \/ ResolveMispredict(k)
  \/ RetireLoad
  \/ RetireBadLoad
  \/ RetireStore
  \/ RetireBadStore
  \/ RetireBranch
  \/ Squash /\ UNCHANGED mem

Spec == Init /\ [][Next]_vars

-----------------------------------------------------------------------------
(* Properties.                                                             *)

Earlier(w, k, kind) == {j \in 1 .. k - 1 : w[j].kind = kind}
Rank(w, k, kind)    == Cardinality(Earlier(w, k, kind))

(* The index and the phase name the place of the r-th entry after the head.*)
Names(index, phase, q, n, r) ==
  /\ index = MOD_S(q.head + r, n)
  /\ phase = IF q.head + r >= n THEN 1 - q.head_phase ELSE q.head_phase

Holds(q, n, i) == MOD_S(n + i - q.head, n) < q.length

(* The queue holds the instructions of a kind that are in the window: its  *)
(* length, its tail, the place each instruction remembers, its valid bits. *)
RingExact(q, n, w, kind, places) ==
  /\ q.length = Rank(w, Len(w) + 1, kind)
  /\ Names(q.tail, q.tail_phase, q, n, q.length)
  /\ \A k \in DOMAIN w : Names(places[k][1], places[k][2], q, n, Rank(w, k, kind))
  /\ \A i \in 0 .. n - 1 : q.buf[i].valid <=> Holds(q, n, i)

LQPlaces(w) == [k \in DOMAIN w |-> <<w[k].LQ_index, w[k].LQ_phase>>]
SQPlaces(w) == [k \in DOMAIN w |-> <<w[k].SQ_index, w[k].SQ_phase>>]

LQExact == RingExact(LQ, LQSize, window, "load", LQPlaces(window))
SQExact == RingExact(SQ, SQSize, window, "store", SQPlaces(window))

(* The two rings hold exactly the loads and the stores in flight, in       *)
(* program order: what each instruction recorded at dispatch (its own      *)
(* entry, its place among the entries of the other queue, a branch's       *)
(* restore point) still names the same place after any commits,            *)
(* recoveries and wraps of the rings, and valid bits and lengths agree.    *)
RingsExact == LQExact /\ SQExact

StoreOf(k) == SQ.buf[window[k].SQ_index]

(* A byte as a sequential memory would hold it before the instruction k:   *)
(* as the youngest older store to it leaves it.                            *)
ByteBefore(k, b) ==
  LET S == {j \in Earlier(window, k, "store") :
              b \in StoreOf(j).addr .. StoreOf(j).addr + StoreOf(j).size - 1}
  IN  IF S = {} THEN mem[b]
      ELSE LET s == StoreOf(CHOOSE j \in S : \A i \in S : i <= j)
           IN  s.value[b - s.addr + 1]

Sequential(k) ==
  LET l == LoadOf(k) IN [i \in 1 .. l.size |-> ByteBefore(k, l.addr + i - 1)]

(* Once the addresses of all older stores are known, a load that has a     *)
(* value has that of a sequential memory, or a load marked as a violation  *)
(* (itself or an older one, which takes it along) will have it fetched     *)
(* again: no order of executing loads and stores, no miss, no replay and   *)
(* no recovery lets a wrong load escape.                                   *)
LoadsAreSequential ==
  \A k \in DOMAIN window :
    ( /\ window[k].kind = "load" /\ LoadOf(k).value_avail
      /\ \A j \in 1 .. k : ~window[j].load_violation
      /\ \A j \in Earlier(window, k, "store") :
           StoreOf(j).addr_avail /\ ~Faults(StoreOf(j).addr, StoreOf(j).size) )
    => IF Faults(LoadOf(k).addr, LoadOf(k).size) THEN window[k].exception
       ELSE LoadOf(k).value = Sequential(k)

(* What checker() asserts of a load as it retires: it traps exactly when   *)
(* its access does, and otherwise has the value that is in memory.         *)
RetiringLoadIsRight ==
  (Retiring("load") /\ ~Head(window).load_violation) =>
    LET l == LoadOf(1)
    IN  /\ Head(window).exception <=> Faults(l.addr, l.size)
        /\ ~Head(window).exception => l.value = Read(mem, l.addr, l.size)
=============================================================================
