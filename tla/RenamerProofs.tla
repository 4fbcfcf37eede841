--------------------------- MODULE RenamerProofs ---------------------------
(***************************************************************************)
(* Theorems about Renamer.tla, for every size of its tables and every      *)
(* program, under the workload assumption that KeepOneFree names.          *)
(***************************************************************************)
EXTENDS Renamer, FiniteSetTheorems, SequenceTheorems, TLAPS

-----------------------------------------------------------------------------
(* Arithmetic of the tables.                                               *)

LEMMA Sizes ==
  /\ ListSize \in Nat \ {0}
  /\ -1 \notin Slot
  /\ 0 \in Slot /\ ListSize - 1 \in Slot
  /\ 0 \in Log /\ 0 \in Phys /\ 0 \in Val /\ 0 \in BranchID
  /\ Log \subseteq Phys
BY SizesAssumption DEF ListSize, Slot, Log, Phys, Val, BranchID

LEMMA NextSlotType == \A i \in Slot : NextSlot(i) \in Slot
BY Sizes DEF NextSlot, Slot

LEMMA ModRange == \A a \in Nat, n \in Nat \ {0} : a % n \in 0 .. n - 1
OBVIOUS

LEMMA OpType == \A v \in Val : Op(v) \in Val
BY ModRange, SizesAssumption DEF Op, Val

LEMMA BitOfType == \A id \in BranchID : BitOf(id) \subseteq Bits
<1> TAKE id \in BranchID
<1>1. id % IntWidth \in 0 .. IntWidth - 1
  BY ModRange, SizesAssumption DEF BranchID
<1> QED
  BY <1>1, SizesAssumption DEF BitOf, Bits

LEMMA PopFreeType ==
  ASSUME NEW f \in FreeList, f.head \in Slot
  PROVE  PopFree(f) \in FreeList /\ f.list[f.head] \in Phys
BY NextSlotType DEF PopFree, FreeList

LEMMA PushFreeType ==
  ASSUME NEW f \in FreeList, NEW p \in Phys
  PROVE  PushFree(f, p) \in FreeList
BY NextSlotType, Sizes DEF PushFree, FreeList

LEMMA SquashFreeType ==
  ASSUME NEW f \in FreeList, f.head \in Slot
  PROVE  SquashFree(f) \in FreeList
BY Sizes DEF SquashFree, FreeList, Slot

LEMMA LeastElement ==
  ASSUME NEW T, T \subseteq Nat, T # {}
  PROVE  \E x \in T : \A y \in T : x <= y
<1>1. \E x \in T : \A y \in T : ~(<<y, x>> \in OpToRel(<, Nat))
  BY NatLessThanWellFounded, WFMin
<1>2. PICK x \in T : \A y \in T : ~(<<y, x>> \in OpToRel(<, Nat))
  BY <1>1
<1>3. ASSUME NEW y \in T PROVE x <= y
  <2>1. ~(<<y, x>> \in OpToRel(<, Nat)) /\ <<y, x>> \in Nat \X Nat
    BY <1>2
  <2>2. ~(y < x)
    BY <2>1 DEF OpToRel
  <2> QED
    BY <2>2
<1> QED
  BY <1>3

-----------------------------------------------------------------------------
(* Bundles.                                                                *)

LEMMA FunctionIsSeq ==
  ASSUME NEW S, NEW n \in Nat, NEW f \in [1 .. n -> S]
  PROVE  f \in Seq(S)
OBVIOUS

(* Counting is finite, and taking the first instruction off a bundle takes *)
(* one off its count if it was counted.                                    *)
LEMMA CountType ==
  ASSUME NEW S, NEW b \in Seq(S), NEW I
  PROVE  Count(b, I) \in Nat
<1>1. IsFiniteSet(1 .. Len(b))
  BY FS_Interval, LenProperties
<1>2. {k \in DOMAIN b : b[k] \in I} \subseteq 1 .. Len(b)
  BY LenProperties
<1> QED
  BY <1>1, <1>2, FS_Subset, FS_CardinalityType DEF Count

LEMMA CountTail ==
  ASSUME NEW S, NEW b \in Seq(S), b # <<>>, NEW I
  PROVE  Count(b, I) = Count(Tail(b), I) + (IF Head(b) \in I THEN 1 ELSE 0)
<1> DEFINE A == {k \in DOMAIN b : b[k] \in I}
           B == {k \in DOMAIN Tail(b) : Tail(b)[k] \in I}
           f == [k \in B |-> k + 1]
<1>1. /\ Len(b) \in Nat \ {0} /\ DOMAIN b = 1 .. Len(b)
      /\ Tail(b) \in Seq(S) /\ DOMAIN Tail(b) = 1 .. Len(b) - 1
      /\ \A k \in 1 .. Len(b) - 1 : Tail(b)[k] = b[k + 1]
      /\ Head(b) = b[1]
  BY HeadTailProperties, LenProperties, EmptySeq
<1>2. IsFiniteSet(A) /\ IsFiniteSet(B)
  <2>1. IsFiniteSet(1 .. Len(b))
    BY <1>1, FS_Interval
  <2>2. A \in SUBSET (1 .. Len(b))
    BY <1>1
  <2>3. 1 .. Len(b) - 1 \subseteq 1 .. Len(b)
    BY <1>1
  <2>4. B \in SUBSET (1 .. Len(b))
    BY <1>1, <2>3
  <2> QED
    BY <2>1, <2>2, <2>4, FS_Subset
<1>3. f \in Bijection(B, A \ {1})
  <2>1. f \in [B -> A \ {1}]
    BY <1>1
  <2>2. \A x, y \in B : f[x] = f[y] => x = y
    BY <1>1
  <2>3. \A y \in A \ {1} : \E x \in B : f[x] = y
    <3> TAKE y \in A \ {1}
    <3>1. y - 1 \in B
      BY <1>1
    <3> QED
      BY <3>1, <1>1
  <2> QED
    BY <2>1, <2>2, <2>3 DEF Bijection, Injection, Surjection, IsInjective
<1>4. Cardinality(A \ {1}) = Cardinality(B)
  BY <1>2, <1>3, FS_Bijection DEF ExistsBijection
<1>5. Cardinality(A \ {1}) = IF 1 \in A THEN Cardinality(A) - 1 ELSE Cardinality(A)
  BY <1>2, FS_RemoveElement
<1>6. Cardinality(A) \in Nat /\ Cardinality(B) \in Nat
  BY <1>2, FS_CardinalityType
<1>7. 1 \in A <=> Head(b) \in I
  BY <1>1
<1>8. Count(b, I) = Cardinality(A) /\ Count(Tail(b), I) = Cardinality(B)
  BY DEF Count
<1> HIDE DEF A, B
<1> QED
  BY <1>4, <1>5, <1>6, <1>7, <1>8
-----------------------------------------------------------------------------
(* Type correctness.  It is not inductive: squash() and resolve() put the  *)
(* head of the Free List, or the one in a checkpoint, back to work, and    *)
(* squash() with an empty list leaves its tail at -2.  What makes it       *)
(* inductive is that neither head is ever -1, and that holds while the     *)
(* rename loop leaves a register.                                          *)

FreeListUsable ==
  /\ free.head # -1
  /\ free.tail # -1
  /\ \A b \in BranchID : chk[b].head # -1
  /\ phase = "rename" => Count(rename2, Writing) < NumFree

LoopsHaveWork ==
  /\ phase = "rename" => rename2 # <<>>
  /\ phase = "dispatch" => dispatch # <<>>

TypeInv == TypeOK /\ FreeListUsable /\ LoopsHaveWork

LEMMA InitTypeInv == Init => TypeInv
<1> SUFFICES ASSUME Init PROVE TypeInv
  OBVIOUS
<1> USE Sizes DEF Init
<1>1. free \in FreeList
  BY SizesAssumption DEF FreeList, Slot, Phys, ListSize
<1>2. al \in [Slot -> Entry]
  BY DEF Entry, NoInsn, AllKinds
<1>3. chk \in [BranchID -> Checkpoint]
  BY DEF Checkpoint
<1>4. RMT \in [Log -> Phys] /\ AMT \in [Log -> Phys]
  BY DEF Log, Phys
<1>5. rename2 \in Seq(Insn) /\ dispatch \in Seq(Renamed)
  OBVIOUS
<1>6. TypeOK
  BY <1>1, <1>2, <1>3, <1>4, <1>5 DEF TypeOK
<1>7. FreeListUsable
  BY DEF FreeListUsable, Slot
<1>8. LoopsHaveWork
  BY DEF LoopsHaveWork
<1> QED
  BY <1>6, <1>7, <1>8 DEF TypeInv

LEMMA Rename2BeginTypeInv ==
  ASSUME KeepOneFree, TypeInv, NEW b \in Bundle, Rename2Begin(b)
  PROVE  TypeInv'
<1> USE DEF TypeInv, Rename2Begin, lists, maps
<1>1. b \in Seq(Insn) /\ b # <<>>
  BY FunctionIsSeq, SizesAssumption DEF Bundle
<1>2. TypeOK'
  BY <1>1 DEF TypeOK
<1>3. FreeListUsable'
  BY DEF FreeListUsable, NumFree
<1>4. LoopsHaveWork'
  BY <1>1 DEF LoopsHaveWork
<1> QED
  BY <1>2, <1>3, <1>4

LEMMA RenameOneTypeInv ==
  ASSUME TypeInv, RenameOne
  PROVE  TypeInv'
<1> DEFINE i   == Head(rename2)
           p   == IF HasDest(i) THEN free.list[free.head] ELSE 0
           map == IF HasDest(i) THEN [RMT EXCEPT ![i.dst] = p] ELSE RMT
           fl  == IF HasDest(i) THEN PopFree(free) ELSE free
           id  == IF NeedsChk(i) THEN CHOOSE b \in FreeIDs : \A c \in FreeIDs : b <= c ELSE 0
<1> USE DEF TypeInv
<1>1. rename2 \in Seq(Insn) /\ rename2 # <<>> /\ phase = "rename"
  BY DEF RenameOne, TypeOK, LoopsHaveWork
<1>2. i \in Insn /\ Tail(rename2) \in Seq(Insn)
  BY <1>1, HeadTailProperties
<1>3. i.src \in Log /\ i.dst \in Log
  BY <1>2 DEF Insn
<1>4. free \in FreeList /\ free.head \in Slot /\ free.tail \in Slot
  BY DEF TypeOK, FreeListUsable, FreeList
<1>5. fl \in FreeList /\ p \in Phys
  BY <1>4, PopFreeType, Sizes
<1>6. map \in [Log -> Phys]
  BY <1>3, <1>5 DEF TypeOK
<1>7. id \in BranchID
  <2>1. CASE ~NeedsChk(i)
    BY <2>1, Sizes
  <2>2. CASE NeedsChk(i)
    <3>1. FreeIDs # {} /\ FreeIDs \subseteq BranchID /\ BranchID \subseteq Nat
      BY <2>2 DEF RenameOne, FreeIDs, BranchID
    <3>2. \E b \in FreeIDs : \A c \in FreeIDs : b <= c
      BY <3>1, LeastElement
    <3> QED
      BY <2>2, <3>1, <3>2
  <2> QED
    BY <2>1, <2>2
<1>8. NewCheckpoint(map, fl) \in Checkpoint
  BY <1>5, <1>6 DEF NewCheckpoint, Checkpoint, FreeList, TypeOK
<1>9. /\ RMT' = map /\ free' = fl
      /\ chk' = IF NeedsChk(i) THEN [chk EXCEPT ![id] = NewCheckpoint(map, fl)] ELSE chk
      /\ GBM' = IF NeedsChk(i) THEN GBM \cup BitOf(id) ELSE GBM
      /\ dispatch' = Append(dispatch, [insn |-> i, psrc |-> RMT[i.src], pdst |-> p,
                                       mask |-> GBM, id |-> id])
      /\ rename2' = Tail(rename2)
      /\ phase' = IF Tail(rename2) = <<>> THEN "idle" ELSE "rename"
      /\ UNCHANGED <<AMT, al, alHead, alTail, ready, value, backend>>
  BY DEF RenameOne
<1> HIDE DEF i, p, map, fl, id
<1>10. TypeOK'
  <2>1. chk' \in [BranchID -> Checkpoint]
    BY <1>7, <1>8, <1>9 DEF TypeOK
  <2>2. GBM' \subseteq Bits
    BY <1>7, <1>9, BitOfType DEF TypeOK
  <2>3. dispatch' \in Seq(Renamed)
    <3>1. [insn |-> i, psrc |-> RMT[i.src], pdst |-> p, mask |-> GBM, id |-> id] \in Renamed
      BY <1>2, <1>3, <1>5, <1>7 DEF TypeOK, Renamed
    <3> QED
      BY <1>9, <3>1, AppendProperties DEF TypeOK
  <2> QED
    BY <1>2, <1>5, <1>6, <1>9, <2>1, <2>2, <2>3 DEF TypeOK
<1>11. FreeListUsable'
  <2>1. /\ Count(Tail(rename2), Writing) \in Nat
        /\ Count(rename2, Writing) =
             Count(Tail(rename2), Writing) + (IF HasDest(i) THEN 1 ELSE 0)
    BY <1>1, <1>2, CountTail, CountType DEF Writing, i
  <2>2. Count(rename2, Writing) < NumFree
    BY <1>1 DEF FreeListUsable
  <2>3. /\ free'.head \in Slot /\ free'.tail \in Slot
        /\ NumFree' = NumFree - (IF HasDest(i) THEN 1 ELSE 0)
    <3>1. CASE ~HasDest(i)
      BY <1>4, <1>9, <3>1, Sizes DEF fl, NumFree, Slot
    <3>2. CASE HasDest(i)
      <4>1. NumFree > 1
        BY <2>1, <2>2, <3>2, Sizes, <1>4 DEF NumFree, Slot
      <4>2. free.head # free.tail
        BY <4>1, <1>4 DEF NumFree, Slot
      <4>3. free' = [free EXCEPT !.head = NextSlot(free.head)]
        BY <1>9, <3>2, <4>2 DEF fl, PopFree
      <4>4. free'.head = NextSlot(free.head) /\ free'.tail = free.tail
        BY <4>3, <1>4 DEF FreeList
      <4> QED
        BY <4>2, <4>4, <1>4, <3>2, Sizes DEF NumFree, NextSlot, Slot
    <3> QED
      BY <3>1, <3>2
  <2>4. \A b \in BranchID : chk'[b].head # -1
    <3>1. NewCheckpoint(map, fl).head \in Slot
      BY <2>3, <1>9 DEF NewCheckpoint
    <3> QED
      BY <1>9, <3>1, Sizes DEF FreeListUsable, TypeOK
  <2>5. Count(rename2', Writing) < NumFree'
    <3>1. Count(rename2', Writing) = Count(Tail(rename2), Writing)
      BY <1>9
    <3>2. NumFree \in Int
      BY <1>4, Sizes DEF NumFree, Slot
    <3>3. Count(Tail(rename2), Writing) < NumFree - (IF HasDest(i) THEN 1 ELSE 0)
      BY <2>1, <2>2, <3>2
    <3> QED
      BY <2>3, <3>1, <3>3
  <2> QED
    BY <2>3, <2>4, <2>5, Sizes DEF FreeListUsable
<1>12. LoopsHaveWork'
  BY <1>9 DEF LoopsHaveWork
<1> QED
  BY <1>10, <1>11, <1>12

LEMMA DispatchTypeInv ==
  ASSUME TypeInv, DispatchBegin \/ DispatchOne
  PROVE  TypeInv'
<1> USE DEF TypeInv, lists, maps
<1>1. CASE DispatchBegin
  <2>1. TypeOK'
    BY <1>1 DEF DispatchBegin, TypeOK
  <2>2. FreeListUsable' /\ LoopsHaveWork'
    BY <1>1 DEF DispatchBegin, FreeListUsable, LoopsHaveWork, NumFree
  <2> QED
    BY <2>1, <2>2
<1>2. CASE DispatchOne
  <2> DEFINE d == Head(dispatch)
             s == DispatchSlot
  <2>1. d \in Renamed /\ Tail(dispatch) \in Seq(Renamed)
    BY <1>2, HeadTailProperties DEF DispatchOne, LoopsHaveWork, TypeOK
  <2>2. s \in Slot
    BY Sizes, NextSlotType DEF DispatchSlot, TypeOK
  <2>3. al' \in [Slot -> Entry]
    <3>1. al[s] \in Entry
      BY <2>2 DEF TypeOK
    <3>2. d.insn \in [kind : AllKinds, src : Log, dst : Log]
      BY <2>1, SizesAssumption DEF Renamed, Insn
    <3>3. [insn |-> d.insn,
           pdst |-> IF HasDest(d.insn) THEN d.pdst ELSE al[s].pdst,
           completed |-> SkipsIQ(d.insn), exception |-> ExceptsAtDispatch(d.insn),
           load_violation |-> FALSE, a_value |-> 0] \in Entry
      BY <3>1, <3>2, <2>1, Sizes DEF Entry, Renamed, SkipsIQ, ExceptsAtDispatch
    <3> QED
      BY <1>2, <2>2, <3>3 DEF DispatchOne, TypeOK
  <2>4. ready' \in [Phys -> BOOLEAN]
    BY <1>2, <2>1 DEF DispatchOne, ReadyAtDispatch, TypeOK, Renamed
  <2>5. backend' \subseteq Flying
    BY <1>2, <2>1, <2>2 DEF DispatchOne, TypeOK, Renamed, Flying
  <2>6. TypeOK'
    BY <1>2, <2>1, <2>2, <2>3, <2>4, <2>5, Sizes DEF DispatchOne, TypeOK
  <2>7. FreeListUsable' /\ LoopsHaveWork'
    BY <1>2 DEF DispatchOne, FreeListUsable, LoopsHaveWork, NumFree
  <2> QED
    BY <2>6, <2>7
<1> QED
  BY <1>1, <1>2

(* What the rest of the pipeline leaves alone.                             *)
LEMMA BackendTypeInv ==
  ASSUME TypeInv,
         UNCHANGED <<free, alHead, alTail, front, maps>>,
         ready' \in [Phys -> BOOLEAN], value' \in [Phys -> Val],
         al' \in [Slot -> Entry], backend' \subseteq Flying
  PROVE  TypeInv'
<1> USE DEF TypeInv, front, maps
<1>1. TypeOK'
  BY DEF TypeOK
<1>2. FreeListUsable' /\ LoopsHaveWork'
  BY DEF FreeListUsable, LoopsHaveWork, NumFree
<1> QED
  BY <1>1, <1>2

LEMMA MoveToType ==
  ASSUME TypeOK, NEW x \in backend, NEW st \in {"queued", "missed", "done"}
  PROVE  MoveTo(x, st) \subseteq Flying
BY DEF MoveTo, TypeOK, Flying

LEMMA WriteRegisterType ==
  ASSUME TypeOK, NEW p \in Phys, NEW v \in Val, WriteRegister(p, v)
  PROVE  ready' \in [Phys -> BOOLEAN] /\ value' \in [Phys -> Val]
BY DEF WriteRegister, TypeOK

(* Fields of an entry: completed, exception, load_violation, a_value.      *)
LEMMA EntryType ==
  ASSUME TypeOK, NEW s \in Slot
  PROVE  /\ [al EXCEPT ![s].completed = TRUE] \in [Slot -> Entry]
         /\ [al EXCEPT ![s].exception = TRUE] \in [Slot -> Entry]
         /\ [al EXCEPT ![s].load_violation = TRUE] \in [Slot -> Entry]
         /\ \A v \in Val : [al EXCEPT ![s].a_value = v] \in [Slot -> Entry]
         /\ al[s].insn \in [kind : AllKinds, src : Log, dst : Log]
         /\ al[s].pdst \in Phys
<1>1. al \in [Slot -> Entry] /\ al[s] \in Entry
  BY DEF TypeOK
<1>2. /\ [al EXCEPT ![s].completed = TRUE] \in [Slot -> Entry]
      /\ [al EXCEPT ![s].exception = TRUE] \in [Slot -> Entry]
  BY <1>1 DEF Entry
<1>3. [al EXCEPT ![s].load_violation = TRUE] \in [Slot -> Entry]
  BY <1>1 DEF Entry
<1>4. \A v \in Val : [al EXCEPT ![s].a_value = v] \in [Slot -> Entry]
  BY <1>1 DEF Entry
<1>5. al[s].insn \in [kind : AllKinds, src : Log, dst : Log] /\ al[s].pdst \in Phys
  BY <1>1 DEF Entry
<1> QED
  BY <1>2, <1>3, <1>4, <1>5

LEMMA ExecuteTypeInv ==
  ASSUME TypeInv, NEW x \in backend, Execute(x)
  PROVE  TypeInv'
<1>1. TypeOK /\ x \in Flying /\ x.al \in Slot /\ x.psrc \in Phys
  BY DEF TypeInv, TypeOK, Flying
<1>2. DestOf(x) \in Phys
  BY <1>1, EntryType DEF DestOf
<1>3. value[x.psrc] \in Val /\ Op(value[x.psrc]) \in Val
  BY <1>1, OpType DEF TypeOK
<1>4. MoveTo(x, "done") \subseteq Flying /\ MoveTo(x, "missed") \subseteq Flying
  BY <1>1, MoveToType
<1>5. value \in [Phys -> Val] /\ ready \in [Phys -> BOOLEAN] /\ al \in [Slot -> Entry]
  BY <1>1 DEF TypeOK
<1> USE DEF lists, maps, front
<1>6. CASE ExecuteAlu(x)
  <2>1. ready' \in [Phys -> BOOLEAN] /\ value' \in [Phys -> Val]
    BY <1>1, <1>2, <1>3, <1>5, <1>6, WriteRegisterType DEF ExecuteAlu
  <2>2. al' \in [Slot -> Entry]
    BY <1>1, <1>5, <1>6, EntryType DEF ExecuteAlu
  <2> QED
    BY <1>4, <1>6, <2>1, <2>2, BackendTypeInv DEF ExecuteAlu
<1>7. CASE ExecuteSystem(x)
  <2>1. ready' \in [Phys -> BOOLEAN] /\ value' \in [Phys -> Val]
    BY <1>1, <1>2, <1>7, WriteRegisterType DEF ExecuteSystem
  <2>2. al' \in [Slot -> Entry]
    BY <1>1, <1>3, <1>7, EntryType DEF ExecuteSystem
  <2> QED
    BY <1>4, <1>7, <2>1, <2>2, BackendTypeInv DEF ExecuteSystem
<1>8. CASE ExecuteLoadHit(x)
  <2>1. LoadTarget(x) \subseteq Phys
    BY <1>2 DEF LoadTarget
  <2>2. ready' \in [Phys -> BOOLEAN] /\ value' \in [Phys -> Val]
    BY <1>1, <1>3, <1>8, <2>1, WriteRegisterType DEF ExecuteLoadHit
  <2> QED
    BY <1>4, <1>5, <1>8, <2>2, BackendTypeInv DEF ExecuteLoadHit
<1>9. CASE ExecuteLoadMiss(x)
  BY <1>4, <1>5, <1>9, BackendTypeInv DEF ExecuteLoadMiss
<1>10. CASE ExecuteStore(x)
  <2>1. InFlight \subseteq Slot
    BY <1>1, Sizes DEF InFlight, TypeOK, Slot
  <2>2. al' \in [Slot -> Entry]
    <3>1. CASE UNCHANGED al
      BY <1>5, <3>1
    <3>2. CASE \E s \in ExecutedLoads(x) : al' = [al EXCEPT ![s].load_violation = TRUE]
      <4>1. ExecutedLoads(x) \subseteq Slot
        BY <2>1 DEF ExecutedLoads
      <4>2. PICK s \in Slot : al' = [al EXCEPT ![s].load_violation = TRUE]
        BY <3>2, <4>1
      <4> QED
        BY <1>1, <4>2, EntryType
    <3> QED
      BY <1>10, <3>1, <3>2 DEF ExecuteStore
  <2> QED
    BY <1>4, <1>5, <1>10, <2>2, BackendTypeInv DEF ExecuteStore
<1> QED
  BY <1>6, <1>7, <1>8, <1>9, <1>10 DEF Execute

LEMMA LoadReplayTypeInv ==
  ASSUME TypeInv, NEW x \in backend, LoadReplay(x)
  PROVE  TypeInv'
<1> USE DEF maps, front
<1>1. TypeOK /\ x.al \in Slot /\ x.psrc \in Phys
  BY DEF TypeInv, TypeOK, Flying
<1>2. DestOf(x) \in Phys /\ Op(value[x.psrc]) \in Val
  BY <1>1, EntryType, OpType DEF DestOf, TypeOK
<1>3. ready' \in [Phys -> BOOLEAN] /\ value' \in [Phys -> Val]
  BY <1>1, <1>2, WriteRegisterType DEF LoadReplay
<1>4. al' \in [Slot -> Entry]
  BY <1>1, EntryType DEF LoadReplay
<1>5. backend' \subseteq Flying
  BY <1>1 DEF LoadReplay, TypeOK
<1> QED
  BY <1>3, <1>4, <1>5, BackendTypeInv DEF LoadReplay

LEMMA WritebackTypeInv ==
  ASSUME TypeInv, NEW x \in backend, Writeback(x)
  PROVE  TypeInv'
<1> USE DEF maps, front
<1>1. TypeOK /\ x.al \in Slot
  BY DEF TypeInv, TypeOK, Flying
<1>2. al' \in [Slot -> Entry]
  BY <1>1, EntryType DEF Writeback, Complete
<1> QED
  BY <1>1, <1>2, BackendTypeInv DEF Writeback, TypeOK

LEMMA ResolveCorrectLen ==
  ASSUME TypeInv, NEW x \in backend, ResolveCorrect(x)
  PROVE  dispatch' \in Seq(Renamed) /\ Len(dispatch') = Len(dispatch)
<1>1. /\ Len(dispatch) \in Nat /\ DOMAIN dispatch = 1 .. Len(dispatch)
      /\ \A k \in DOMAIN dispatch : dispatch[k] \in Renamed
  BY LenProperties, ElementOfSeq DEF TypeInv, TypeOK
<1>2. \A k \in DOMAIN dispatch : Unmask(dispatch[k], x.id) \in Renamed
  <2> TAKE k \in DOMAIN dispatch
  <2>1. dispatch[k] \in Renamed /\ dispatch[k].mask \ {x.id} \in SUBSET Bits
    BY <1>1 DEF Renamed
  <2> QED
    BY <2>1 DEF Unmask, Renamed
<1>3. dispatch' \in [1 .. Len(dispatch) -> Renamed]
  <2>1. dispatch' = [k \in DOMAIN dispatch |-> Unmask(dispatch[k], x.id)]
    BY DEF ResolveCorrect
  <2>2. dispatch' \in [DOMAIN dispatch -> Renamed]
    BY <1>2, <2>1
  <2> QED
    BY <1>1, <2>2
<1>4. dispatch' \in Seq(Renamed)
  BY <1>1, <1>3, FunctionIsSeq
<1>5. Len(dispatch') = Len(dispatch)
  BY <1>1, <1>3, <1>4, LenProperties
<1> QED
  BY <1>4, <1>5

LEMMA ResolveCorrectTypeInv ==
  ASSUME TypeInv, NEW x \in backend, ResolveCorrect(x)
  PROVE  TypeInv'
<1>1. TypeOK /\ x.al \in Slot
  BY DEF TypeInv, TypeOK, Flying
<1>2. al' \in [Slot -> Entry]
  BY <1>1, EntryType DEF ResolveCorrect, Complete
<1>3. \A c \in Checkpoint :
        /\ [c EXCEPT !.recover = @ \ BitOf(x.id)] \in Checkpoint
        /\ [c EXCEPT !.recover = @ \ BitOf(x.id)].head = c.head
  <2> TAKE c \in Checkpoint
  <2>1. c.recover \ BitOf(x.id) \in SUBSET Bits
    BY DEF Checkpoint
  <2> QED
    BY <2>1 DEF Checkpoint
<1>4. chk' \in [BranchID -> Checkpoint] /\ \A b \in BranchID : chk'[b].head = chk[b].head
  BY <1>1, <1>3 DEF ResolveCorrect, TypeOK
<1>5. backend' \subseteq Flying
  <2>1. \A y \in Flying : Unmask(y, x.id) \in Flying
    <3> TAKE y \in Flying
    <3>1. y.mask \ {x.id} \in SUBSET Bits
      BY DEF Flying
    <3> QED
      BY <3>1 DEF Unmask, Flying
  <2>2. backend' = {Unmask(y, x.id) : y \in backend \ {x}}
    BY DEF ResolveCorrect
  <2> QED
    BY <1>1, <2>1, <2>2 DEF TypeOK
<1>6. dispatch' \in Seq(Renamed) /\ (dispatch # <<>> => dispatch' # <<>>)
  <2>1. dispatch' \in Seq(Renamed) /\ Len(dispatch') = Len(dispatch)
    BY ResolveCorrectLen
  <2> QED
    BY <1>1, <2>1, EmptySeq DEF TypeOK
<1>7. TypeOK'
  BY <1>1, <1>2, <1>4, <1>5, <1>6 DEF TypeOK, ResolveCorrect
<1>8. FreeListUsable'
  BY <1>4 DEF TypeInv, FreeListUsable, NumFree, ResolveCorrect
<1>9. LoopsHaveWork'
  BY DEF ResolveCorrect, LoopsHaveWork
<1> QED
  BY <1>7, <1>8, <1>9 DEF TypeInv

LEMMA ResolveMispredictTypeInv ==
  ASSUME TypeInv, NEW x \in backend, ResolveMispredict(x)
  PROVE  TypeInv'
<1>1. TypeOK /\ x.al \in Slot /\ x.id \in BranchID
  BY DEF TypeInv, TypeOK, Flying
<1>2. al' \in [Slot -> Entry]
  BY <1>1, EntryType DEF ResolveMispredict, Complete
<1>3. chk[x.id] \in Checkpoint /\ chk[x.id].head \in Slot
  BY <1>1 DEF TypeInv, FreeListUsable, TypeOK, Checkpoint
<1>4. free' \in FreeList /\ free'.head # -1 /\ free'.tail # -1
  BY <1>1, <1>3, Sizes DEF ResolveMispredict, TypeOK, FreeList, TypeInv, FreeListUsable
<1>5. backend' \subseteq Flying
  BY <1>1 DEF ResolveMispredict, Survivors, TypeOK
<1>6. dispatch' \in Seq(Renamed)
  BY DEF ResolveMispredict
<1>7. TypeOK'
  BY <1>1, <1>2, <1>3, <1>4, <1>5, <1>6 DEF TypeOK, ResolveMispredict, Checkpoint
<1>8. FreeListUsable' /\ LoopsHaveWork'
  BY <1>4 DEF TypeInv, FreeListUsable, LoopsHaveWork, ResolveMispredict
<1> QED
  BY <1>7, <1>8 DEF TypeInv

LEMMA CommittedType ==
  ASSUME TypeInv, alHead # -1
  PROVE  /\ alHead \in Slot
         /\ CommittedAMT \in [Log -> Phys]
         /\ CommittedFree \in FreeList
         /\ CommittedFree.head = free.head /\ CommittedFree.tail \in Slot
<1>1. /\ TypeOK /\ alHead \in Slot
      /\ HeadOf.insn.dst \in Log /\ HeadOf.pdst \in Phys
  BY EntryType DEF TypeInv, TypeOK, HeadOf
<1>2. CommittedAMT \in [Log -> Phys]
  BY <1>1 DEF CommittedAMT, TypeOK
<1>3. free \in FreeList /\ free.tail \in Slot /\ AMT[HeadOf.insn.dst] \in Phys
  BY <1>1 DEF TypeOK, TypeInv, FreeListUsable, FreeList
<1>4. CommittedFree \in FreeList
  BY <1>3, PushFreeType DEF CommittedFree
<1>5. CommittedFree.head = free.head /\ CommittedFree.tail \in Slot
  BY <1>3, NextSlotType, Sizes DEF CommittedFree, PushFree, FreeList
<1> QED
  BY <1>1, <1>2, <1>4, <1>5

LEMMA SquashCompleteTypeInv ==
  ASSUME TypeInv, NEW map \in [Log -> Phys], NEW fl \in FreeList, fl.head \in Slot,
         SquashComplete(map, fl), phase = "idle",
         al' \in [Slot -> Entry], AMT' \in [Log -> Phys], value' \in [Phys -> Val]
  PROVE  TypeInv'
<1>1. /\ free' \in FreeList /\ free'.head = fl.head /\ free'.tail # -1
  BY SquashFreeType, Sizes DEF SquashComplete, SquashFree, FreeList, Slot
<1>2. TypeOK'
  BY <1>1 DEF SquashComplete, TypeInv, TypeOK
<1>3. FreeListUsable' /\ LoopsHaveWork'
  BY <1>1, Sizes DEF SquashComplete, TypeInv, FreeListUsable, LoopsHaveWork
<1> QED
  BY <1>2, <1>3 DEF TypeInv

LEMMA RetireTypeInv ==
  ASSUME TypeInv, RetireCommit \/ RetireSystem \/ RetireViolation \/ RetireException
  PROVE  TypeInv'
<1>1. HeadCompleted /\ phase = "idle" /\ alHead # -1
  BY DEF RetireCommit, RetireSystem, RetireViolation, RetireException, HeadCompleted
<1>2. /\ TypeOK /\ alHead \in Slot /\ free \in FreeList /\ free.head \in Slot
      /\ AMT \in [Log -> Phys] /\ value \in [Phys -> Val] /\ al \in [Slot -> Entry]
  BY <1>1, CommittedType DEF TypeInv, FreeListUsable, TypeOK, FreeList
<1>3. /\ CommittedAMT \in [Log -> Phys]
      /\ CommittedFree \in FreeList
      /\ CommittedFree.head \in Slot /\ CommittedFree.tail \in Slot
  BY <1>1, <1>2, CommittedType
<1>4. CASE RetireCommit
  <2>1. alHead' \in {-1} \cup Slot /\ alTail' \in {-1} \cup Slot
    BY <1>2, <1>4, NextSlotType DEF RetireCommit, AdvanceHead, TypeOK
  <2>2. TypeOK'
    BY <1>2, <1>3, <1>4, <2>1 DEF RetireCommit, TypeOK, front
  <2>3. FreeListUsable' /\ LoopsHaveWork'
    BY <1>1, <1>3, <1>4, Sizes DEF RetireCommit, front, TypeInv, FreeListUsable, LoopsHaveWork
  <2> QED
    BY <2>2, <2>3 DEF TypeInv
<1>5. CASE RetireSystem
  <2>1. HeadOf.pdst \in Phys /\ HeadOf.a_value \in Val
    BY <1>2 DEF HeadOf, Entry
  <2>2. value' \in [Phys -> Val]
    BY <1>2, <1>5, <2>1, OpType DEF RetireSystem
  <2> QED
    BY <1>1, <1>2, <1>3, <1>5, <2>2, SquashCompleteTypeInv DEF RetireSystem
<1>6. CASE RetireViolation
  BY <1>1, <1>2, <1>6, SquashCompleteTypeInv DEF RetireViolation
<1>7. CASE RetireException
  <2>1. al' \in [Slot -> Entry]
    BY <1>2, <1>7, EntryType DEF RetireException
  <2> QED
    BY <1>1, <1>2, <1>7, <2>1, SquashCompleteTypeInv DEF RetireException
<1> QED
  BY <1>4, <1>5, <1>6, <1>7

LEMMA NextTypeInv ==
  ASSUME KeepOneFree
  PROVE  TypeInv /\ [Next]_vars => TypeInv'
<1> SUFFICES ASSUME TypeInv, [Next]_vars PROVE TypeInv'
  OBVIOUS
<1>1. CASE UNCHANGED vars
  BY <1>1 DEF vars, TypeInv, TypeOK, FreeListUsable, LoopsHaveWork, NumFree
<1>2. CASE Next
  BY <1>2, Rename2BeginTypeInv, RenameOneTypeInv, DispatchTypeInv, ExecuteTypeInv,
     LoadReplayTypeInv, WritebackTypeInv, ResolveCorrectTypeInv, ResolveMispredictTypeInv,
     RetireTypeInv DEF Next
<1> QED
  BY <1>1, <1>2

(* Every structure of the renamer keeps its shape, whatever the sizes and  *)
(* the program: no index of a ring or of a table leaves it, through any    *)
(* sequence of renames, commits, recoveries and squashes, as long as the   *)
(* Free List never runs dry.                                               *)
THEOREM RenamerTypeOK == KeepOneFree => (Spec => []TypeOK)
<1> SUFFICES ASSUME KeepOneFree PROVE Spec => []TypeOK
  OBVIOUS
<1>1. Init => TypeInv
  BY InitTypeInv
<1>2. TypeInv /\ [Next]_vars => TypeInv'
  BY NextTypeInv
<1>3. TypeInv => TypeOK
  BY DEF TypeInv
<1> QED
  BY <1>1, <1>2, <1>3, PTL DEF Spec
-----------------------------------------------------------------------------
(* Branch checkpoints.  stall_branch() looks at the mask once for a whole  *)
(* bundle; checkpoint() then takes one ID per branch of it, provided that  *)
(* marking an ID as used marks no other ID, which is so while every ID is  *)
(* within the int that 1 << ID is computed in.                             *)

LEMMA BitOfOneID ==
  ASSUME NumBranches <= IntWidth
  PROVE  \A id \in BranchID : BitOf(id) \cap BranchID = {id}
<1> TAKE id \in BranchID
<1>1. id % IntWidth = id
  BY SizesAssumption DEF BranchID
<1> QED
  BY <1>1, SizesAssumption DEF BitOf, BranchID

LEMMA FreeIDsFinite ==
  IsFiniteSet(FreeIDs) /\ Cardinality(FreeIDs) \in Nat
<1>1. IsFiniteSet(BranchID)
  BY FS_Interval, SizesAssumption DEF BranchID
<1>2. FreeIDs \in SUBSET BranchID
  BY DEF FreeIDs
<1> QED
  BY <1>1, <1>2, FS_Subset, FS_CardinalityType

LEMMA RenameOneCheckpoints ==
  ASSUME NumBranches <= IntWidth, TypeInv, BundleHasCheckpoints, RenameOne
  PROVE  BundleHasCheckpoints'
<1> DEFINE i  == Head(rename2)
           id == CHOOSE b \in FreeIDs : \A c \in FreeIDs : b <= c
<1>1. rename2 \in Seq(Insn) /\ rename2 # <<>> /\ phase = "rename"
  BY DEF RenameOne, TypeInv, TypeOK, LoopsHaveWork
<1>2. i \in Insn
  BY <1>1, HeadTailProperties
<1>3. /\ Count(Tail(rename2), Branching) \in Nat
      /\ Count(rename2, Branching) =
           Count(Tail(rename2), Branching) + (IF NeedsChk(i) THEN 1 ELSE 0)
  <2>1. i \in Branching <=> NeedsChk(i)
    BY <1>2 DEF Branching
  <2> HIDE DEF i
  <2>2. Count(rename2, Branching) =
          Count(Tail(rename2), Branching) + (IF i \in Branching THEN 1 ELSE 0)
    BY <1>1, CountTail DEF i
  <2>3. Tail(rename2) \in Seq(Insn)
    BY <1>1, HeadTailProperties
  <2> QED
    BY <2>1, <2>2, <2>3, CountType
<1>4. Count(rename2, Branching) <= Cardinality(FreeIDs)
  BY <1>1 DEF BundleHasCheckpoints
<1>5. Count(rename2', Branching) = Count(Tail(rename2), Branching)
  BY DEF RenameOne
<1>6. CASE ~NeedsChk(i)
  <2>1. GBM' = GBM
    BY <1>6 DEF RenameOne
  <2>2. FreeIDs' = FreeIDs
    BY <2>1 DEF FreeIDs
  <2> QED
    BY <1>3, <1>4, <1>5, <1>6, <2>2 DEF BundleHasCheckpoints
<1>7. CASE NeedsChk(i)
  <2>1. FreeIDs # {} /\ FreeIDs \subseteq BranchID /\ BranchID \subseteq Nat
    BY <1>7 DEF RenameOne, FreeIDs, BranchID
  <2>2. id \in FreeIDs
    <3>1. \E b \in FreeIDs : \A c \in FreeIDs : b <= c
      BY <2>1, LeastElement
    <3> QED
      BY <3>1
  <2>3. GBM' = GBM \cup BitOf(id)
    BY <1>7 DEF RenameOne
  <2> HIDE DEF id
  <2>4. BitOf(id) \cap BranchID = {id}
    BY <2>1, <2>2, BitOfOneID
  <2>5. FreeIDs' = FreeIDs \ {id}
    BY <2>3, <2>4 DEF FreeIDs
  <2>6. Cardinality(FreeIDs') = Cardinality(FreeIDs) - 1
    BY <2>2, <2>5, FreeIDsFinite, FS_RemoveElement
  <2> QED
    BY <1>3, <1>4, <1>5, <1>7, <2>6, FreeIDsFinite DEF BundleHasCheckpoints
<1> QED
  BY <1>6, <1>7

LEMMA NextCheckpoints ==
  ASSUME NumBranches <= IntWidth
  PROVE  TypeInv /\ BundleHasCheckpoints /\ [Next]_vars => BundleHasCheckpoints'
<1> SUFFICES ASSUME TypeInv, BundleHasCheckpoints, [Next]_vars
             PROVE  BundleHasCheckpoints'
  OBVIOUS
<1>1. CASE UNCHANGED vars
  BY <1>1 DEF vars, BundleHasCheckpoints, FreeIDs
<1>2. ASSUME NEW b \in Bundle, Rename2Begin(b) PROVE BundleHasCheckpoints'
  <2>1. Count(b, Branching) \in Nat
    BY FunctionIsSeq, CountType, SizesAssumption DEF Bundle
  <2>2. Count(b, Branching) <= Cardinality(FreeIDs)
    BY <1>2, <2>1, FreeIDsFinite DEF Rename2Begin, StallBranch
  <2>3. rename2' = b /\ FreeIDs' = FreeIDs
    BY <1>2 DEF Rename2Begin, maps, FreeIDs
  <2> QED
    BY <2>2, <2>3 DEF BundleHasCheckpoints
<1>3. CASE RenameOne
  BY <1>3, RenameOneCheckpoints
<1>4. CASE DispatchBegin \/ DispatchOne
  <2>1. phase' # "rename"
    BY <1>4 DEF DispatchBegin, DispatchOne
  <2> QED
    BY <2>1 DEF BundleHasCheckpoints
<1>5. ASSUME NEW x \in backend,
             \/ Execute(x)
             \/ LoadReplay(x)
             \/ Writeback(x)
             \/ ResolveCorrect(x)
             \/ ResolveMispredict(x)
      PROVE  BundleHasCheckpoints'
  <2>1. phase' = "idle"
    BY <1>5 DEF Execute, ExecuteAlu, ExecuteSystem, ExecuteLoadHit, ExecuteLoadMiss,
       ExecuteStore, Issues, LoadReplay, Writeback, ResolveCorrect, ResolveMispredict, front
  <2> QED
    BY <2>1 DEF BundleHasCheckpoints
<1>6. CASE RetireCommit \/ RetireSystem \/ RetireViolation \/ RetireException
  <2>1. phase' = "idle"
    BY <1>6 DEF RetireCommit, RetireSystem, RetireViolation, RetireException,
       SquashComplete, HeadCompleted, front
  <2> QED
    BY <2>1 DEF BundleHasCheckpoints
<1> QED
  BY <1>1, <1>2, <1>3, <1>4, <1>5, <1>6 DEF Next

(* A bundle that stall_branch() lets through always finds a checkpoint for *)
(* each of its branches: the assert of checkpoint() cannot fail when the   *)
(* branch IDs fit the int of 1 << ID.                                      *)
THEOREM RenamerCheckpoints ==
  (KeepOneFree /\ NumBranches <= IntWidth) => (Spec => []BundleHasCheckpoints)
<1> SUFFICES ASSUME KeepOneFree, NumBranches <= IntWidth
             PROVE  Spec => []BundleHasCheckpoints
  OBVIOUS
<1>1. Init => TypeInv /\ BundleHasCheckpoints
  BY InitTypeInv DEF Init, BundleHasCheckpoints
<1>2. TypeInv /\ BundleHasCheckpoints /\ [Next]_vars => (TypeInv /\ BundleHasCheckpoints)'
  BY NextTypeInv, NextCheckpoints
<1> QED
  BY <1>1, <1>2, PTL DEF Spec
-----------------------------------------------------------------------------
(* Active List entries.  stall_dispatch() looks at the size of the Active  *)
(* List once for a whole bundle.  A list of one entry counts as more than  *)
(* full and never stalls, which is harmless when the list holds more       *)
(* entries than a bundle has instructions.                                 *)

(* The size of the Active List, as arithmetic on its indices.              *)
Used ==
  IF alHead = -1 THEN 0
  ELSE IF alHead <= alTail THEN alTail - alHead + 1
  ELSE ListSize - (alHead - alTail - 1)

LEMMA UsedIsInFlight ==
  ASSUME TypeOK
  PROVE  Cardinality(InFlight) = Used
<1>1. /\ alHead \in {-1} \cup Slot /\ alTail \in {-1} \cup Slot
      /\ ListSize \in Nat \ {0} /\ Slot = 0 .. ListSize - 1
  BY Sizes DEF TypeOK, Slot
<1>2. CASE alHead = -1
  BY <1>2, FS_EmptySet DEF InFlight, Used
<1>3. CASE alHead # -1 /\ alHead <= alTail
  <2>1. InFlight = alHead .. alTail
    BY <1>3 DEF InFlight
  <2> QED
    BY <1>1, <1>3, <2>1, FS_Interval DEF Used
<1>4. CASE alHead # -1 /\ ~(alHead <= alTail)
  <2> DEFINE gap == alTail + 1 .. alHead - 1
  <2>1. InFlight = Slot \ gap
    BY <1>1, <1>4 DEF InFlight
  <2>2. IsFiniteSet(Slot) /\ Cardinality(Slot) = ListSize
    BY <1>1, FS_Interval
  <2>3. Cardinality(gap) = alHead - alTail - 1
    BY <1>1, <1>4, FS_Interval
  <2>4. Slot \cap gap = gap
    BY <1>1, <1>4
  <2>5. Cardinality(Slot \ gap) = Cardinality(Slot) - Cardinality(Slot \cap gap)
    BY <2>2, FS_Difference
  <2> QED
    BY <1>4, <2>1, <2>2, <2>3, <2>4, <2>5 DEF Used
<1> QED
  BY <1>2, <1>3, <1>4

(* No bundle is wider than the pipeline, and one that is being dispatched  *)
(* fits into the Active List.                                              *)
EntriesInv ==
  /\ Len(dispatch) <= DispatchWidth
  /\ phase = "rename" => Len(dispatch) + Len(rename2) <= DispatchWidth
  /\ phase = "dispatch" => Used + Len(dispatch) <= ListSize

LEMMA DispatchOneEntries ==
  ASSUME TypeInv, EntriesInv, DispatchOne
  PROVE  EntriesInv'
<1>1. /\ dispatch \in Seq(Renamed) /\ dispatch # <<>> /\ phase = "dispatch"
      /\ alHead \in {-1} \cup Slot /\ alTail \in {-1} \cup Slot
  BY DEF DispatchOne, TypeInv, TypeOK, LoopsHaveWork
<1>2. /\ dispatch' = Tail(dispatch) /\ Len(dispatch') = Len(dispatch) - 1
      /\ Len(dispatch) \in Nat \ {0}
  BY <1>1, HeadTailProperties, EmptySeq DEF DispatchOne
<1>3. Used + Len(dispatch) <= ListSize /\ Len(dispatch) <= DispatchWidth
  BY <1>1 DEF EntriesInv
<1>4. Used' + Len(dispatch') <= ListSize
  <2>1. /\ alHead' = (IF alTail = -1 THEN 0 ELSE alHead)
        /\ alTail' = (IF alTail = -1 THEN 0 ELSE NextSlot(alTail))
    BY DEF DispatchOne, DispatchSlot
  <2>2. Used' <= Used + 1
    BY <1>1, <1>2, <1>3, <2>1, Sizes DEF Used, NextSlot, Slot
  <2>3. Used' \in Int /\ Used \in Int
    BY <1>1, <2>1, Sizes DEF Used, NextSlot, Slot
  <2> QED
    BY <1>2, <1>3, <2>2, <2>3, Sizes
<1>5. phase' # "rename"
  BY DEF DispatchOne
<1> QED
  BY <1>2, <1>3, <1>4, <1>5, SizesAssumption DEF EntriesInv

LEMMA NextEntries ==
  ASSUME DispatchWidth < ListSize
  PROVE  TypeInv /\ EntriesInv /\ [Next]_vars => EntriesInv'
<1> SUFFICES ASSUME TypeInv, EntriesInv, [Next]_vars
             PROVE  EntriesInv'
  OBVIOUS
<1>1. CASE UNCHANGED vars
  BY <1>1 DEF vars, EntriesInv, Used
<1>2. ASSUME NEW b \in Bundle, Rename2Begin(b) PROVE EntriesInv'
  <2>1. b \in Seq(Insn) /\ Len(b) = DispatchWidth
    <3>1. b \in [1 .. DispatchWidth -> Insn]
      BY DEF Bundle
    <3> QED
      BY <3>1, FunctionIsSeq, LenProperties, SizesAssumption
  <2>2. rename2' = b /\ dispatch' = <<>> /\ phase' = "rename"
    BY <1>2 DEF Rename2Begin
  <2> QED
    BY <2>1, <2>2, SizesAssumption DEF EntriesInv
<1>3. CASE RenameOne
  <2>1. /\ rename2 \in Seq(Insn) /\ rename2 # <<>> /\ phase = "rename"
        /\ dispatch \in Seq(Renamed)
    BY <1>3 DEF RenameOne, TypeInv, TypeOK, LoopsHaveWork
  <2>2. rename2' = Tail(rename2) /\ Len(rename2') = Len(rename2) - 1
    BY <1>3, <2>1, HeadTailProperties DEF RenameOne
  <2>3. dispatch' \in Seq(Renamed) /\ Len(dispatch') = Len(dispatch) + 1
    <3>1. TypeOK'
      BY <1>3, RenameOneTypeInv DEF TypeInv
    <3>2. dispatch' \in Seq(Renamed)
      BY <3>1 DEF TypeOK
    <3> QED
      BY <1>3, <2>1, <3>2 DEF RenameOne
  <2>4. Len(rename2) \in Nat \ {0} /\ Len(dispatch) \in Nat
    BY <2>1, EmptySeq
  <2>5. phase' # "dispatch"
    BY <1>3 DEF RenameOne
  <2> QED
    BY <2>1, <2>2, <2>3, <2>4, <2>5, SizesAssumption DEF EntriesInv
<1>4. CASE DispatchBegin
  <2>1. UNCHANGED <<alHead, alTail, dispatch>> /\ phase' = "dispatch"
    BY <1>4 DEF DispatchBegin, lists
  <2>2. Used + DispatchWidth <= ListSize
    BY <1>4, Sizes, SizesAssumption
       DEF DispatchBegin, StallDispatch, ActiveSize, Used, TypeInv, TypeOK, Slot
  <2>3. Used \in Int /\ Len(dispatch) \in Nat
    BY Sizes, EmptySeq DEF Used, TypeInv, TypeOK, Slot
  <2>4. Used' = Used
    BY <2>1 DEF Used
  <2> QED
    BY <2>1, <2>2, <2>3, <2>4, Sizes, SizesAssumption DEF EntriesInv
<1>5. CASE DispatchOne
  BY <1>5, DispatchOneEntries
<1>6. ASSUME NEW x \in backend,
             \/ Execute(x)
             \/ LoadReplay(x)
             \/ Writeback(x)
             \/ ResolveCorrect(x)
             \/ ResolveMispredict(x)
      PROVE  EntriesInv'
  <2>1. phase' = "idle"
    BY <1>6 DEF Execute, ExecuteAlu, ExecuteSystem, ExecuteLoadHit, ExecuteLoadMiss,
       ExecuteStore, Issues, LoadReplay, Writeback, ResolveCorrect, ResolveMispredict, front
  <2>2. Len(dispatch') <= DispatchWidth
    <3>1. CASE ResolveCorrect(x)
      BY <3>1, ResolveCorrectLen DEF EntriesInv
    <3>2. CASE ~ResolveCorrect(x)
      <4>1. dispatch' = dispatch \/ dispatch' = <<>>
        BY <1>6, <3>2 DEF Execute, ExecuteAlu, ExecuteSystem, ExecuteLoadHit,
           ExecuteLoadMiss, ExecuteStore, LoadReplay, Writeback, ResolveMispredict, front
      <4> QED
        BY <4>1, SizesAssumption DEF EntriesInv
    <3> QED
      BY <3>1, <3>2
  <2> QED
    BY <2>1, <2>2 DEF EntriesInv
<1>7. CASE RetireCommit \/ RetireSystem \/ RetireViolation \/ RetireException
  <2>1. phase' = "idle" /\ (dispatch' = dispatch \/ dispatch' = <<>>)
    BY <1>7 DEF RetireCommit, RetireSystem, RetireViolation, RetireException,
       SquashComplete, HeadCompleted, front
  <2> QED
    BY <2>1, SizesAssumption DEF EntriesInv
<1> QED
  BY <1>1, <1>2, <1>3, <1>4, <1>5, <1>6, <1>7 DEF Next

(* A bundle that stall_dispatch() lets through always finds an entry for   *)
(* each of its instructions: no entry of an instruction in flight is       *)
(* overwritten, through any wrap of the ring, when the Active List is      *)
(* larger than a dispatch bundle.                                          *)
THEOREM RenamerEntries ==
  (KeepOneFree /\ DispatchWidth < ListSize) => (Spec => []BundleHasEntries)
<1> SUFFICES ASSUME KeepOneFree, DispatchWidth < ListSize
             PROVE  Spec => []BundleHasEntries
  OBVIOUS
<1>1. Init => TypeInv /\ EntriesInv
  BY InitTypeInv, SizesAssumption DEF Init, EntriesInv
<1>2. TypeInv /\ EntriesInv /\ [Next]_vars => (TypeInv /\ EntriesInv)'
  BY NextTypeInv, NextEntries
<1>3. TypeInv /\ EntriesInv => BundleHasEntries
  BY UsedIsInFlight DEF TypeInv, EntriesInv, BundleHasEntries
<1> QED
  BY <1>1, <1>2, <1>3, PTL DEF Spec

-----------------------------------------------------------------------------
(* What the pipeline of Renamer.tla holds, as a program: places on the two *)
(* rings, destinations counted in program order, and the map after each    *)
(* instruction.  The lemmas from here on say what each step of the         *)
(* pipeline does to the program it holds; RenamerTableProofs builds on     *)
(* them.                                                                   *)

-----------------------------------------------------------------------------
(* Places on a ring of ListSize slots: the slot c behind slot s.           *)

Behind(s, c) == IF s + c < ListSize THEN s + c ELSE s + c - ListSize

LEMMA BehindType == \A s \in Slot, c \in 0 .. ListSize : Behind(s, c) \in Slot
BY Sizes DEF Behind, Slot

LEMMA BehindInjective ==
  \A s \in Slot : \A c, d \in 1 .. ListSize : Behind(s, c) = Behind(s, d) => c = d
BY Sizes DEF Behind, Slot

LEMMA BehindOnto == \A s, t \in Slot : \E c \in 1 .. ListSize : t = Behind(s, c)
<1> TAKE s, t \in Slot
<1>1. CASE s < t
  <2>1. t - s \in 1 .. ListSize /\ t = Behind(s, t - s)
    BY <1>1, Sizes DEF Behind, Slot
  <2> QED
    BY <2>1
<1>2. CASE ~(s < t)
  <2>1. t - s + ListSize \in 1 .. ListSize /\ t = Behind(s, t - s + ListSize)
    BY <1>2, Sizes DEF Behind, Slot
  <2> QED
    BY <2>1
<1> QED
  BY <1>1, <1>2

LEMMA BehindNext ==
  \A s \in Slot, c \in 0 .. ListSize - 1 :
    /\ NextSlot(Behind(s, c)) = Behind(s, c + 1)
    /\ Behind(NextSlot(s), c) = Behind(s, c + 1)
BY Sizes DEF Behind, NextSlot, Slot

LEMMA BehindFirst == \A s \in Slot : Behind(s, 0) = s /\ Behind(s, 1) = NextSlot(s) /\ Behind(s, ListSize) = s
BY Sizes DEF Behind, NextSlot, Slot

LEMMA BehindMod == \A s \in Slot, c \in 0 .. ListSize : Behind(s, c) = (s + c) % ListSize
<1> TAKE s \in Slot, c \in 0 .. ListSize
<1> DEFINE n == ListSize
<1>1. n \in Nat \ {0} /\ s \in 0 .. n - 1 /\ c \in 0 .. n /\ Behind(s, c) = IF s + c < n THEN s + c ELSE s + c - n
  BY Sizes DEF Behind, Slot
<1> HIDE DEF n
<1>2. \A a \in 0 .. 2 * n - 1 : a % n = IF a < n THEN a ELSE a - n
  BY <1>1
<1> QED
  BY <1>1, <1>2 DEF n

-----------------------------------------------------------------------------
(* Destinations among the first k instructions of a program P.             *)

WithDest(P, i, k) == {m \in i .. k : HasDest(P[m].insn)}
Dests(P, k) == Cardinality(WithDest(P, 1, k))

(* The first n instructions of Q are those of P from the d-th on; what is  *)
(* kept as the destination of an instruction that has none does not count. *)
Follows(P, Q, d, n) ==
  \A k \in 1 .. n :
    /\ Q[k].insn = P[k + d].insn
    /\ HasDest(P[k + d].insn) => Q[k].pdst = P[k + d].pdst

LEMMA WritersFinite ==
  ASSUME NEW P, NEW i \in Int, NEW k \in Int
  PROVE  IsFiniteSet(WithDest(P, i, k)) /\ Cardinality(WithDest(P, i, k)) \in Nat
<1>1. IsFiniteSet(i .. k)
  BY FS_Interval
<1>2. WithDest(P, i, k) \in SUBSET (i .. k)
  BY DEF WithDest
<1> QED
  BY <1>1, <1>2, FS_Subset, FS_CardinalityType

LEMMA DestsType ==
  ASSUME NEW P, NEW k \in Nat
  PROVE  Dests(P, k) \in Nat
BY WritersFinite DEF Dests

LEMMA DestsZero ==
  ASSUME NEW P
  PROVE  Dests(P, 0) = 0
<1>1. WithDest(P, 1, 0) = {}
  BY DEF WithDest
<1> QED
  BY <1>1, FS_EmptySet DEF Dests

LEMMA DestsStep ==
  ASSUME NEW P, NEW k \in Nat
  PROVE  Dests(P, k + 1) = Dests(P, k) + (IF HasDest(P[k + 1].insn) THEN 1 ELSE 0)
<1> DEFINE W == WithDest(P, 1, k)
<1>1. IsFiniteSet(W) /\ Cardinality(W) \in Nat
  BY WritersFinite
<1>2. k + 1 \notin W
  BY DEF WithDest
<1>3. CASE HasDest(P[k + 1].insn)
  <2>1. WithDest(P, 1, k + 1) = W \cup {k + 1}
    BY <1>3 DEF WithDest
  <2> HIDE DEF W
  <2>2. Cardinality(W \cup {k + 1}) = Cardinality(W) + 1
    BY <1>1, <1>2, FS_AddElement
  <2> QED
    BY <1>3, <2>1, <2>2 DEF W, Dests
<1>4. CASE ~HasDest(P[k + 1].insn)
  <2>1. WithDest(P, 1, k + 1) = W
    BY <1>4 DEF WithDest
  <2> QED
    BY <1>1, <1>4, <2>1 DEF Dests
<1> QED
  BY <1>3, <1>4

LEMMA DestsSame ==
  ASSUME NEW P, NEW Q, NEW n \in Nat, Follows(P, Q, 0, n), NEW k \in 0 .. n
  PROVE  Dests(Q, k) = Dests(P, k)
<1>1. \A m \in 1 .. k : Q[m].insn = P[m].insn
  BY DEF Follows
<1>2. WithDest(Q, 1, k) = WithDest(P, 1, k)
  BY <1>1 DEF WithDest
<1> QED
  BY <1>2 DEF Dests

LEMMA DestsSplit ==
  ASSUME NEW P, NEW i \in Nat, NEW k \in Nat, i <= k
  PROVE  Dests(P, k) = Dests(P, i) + Cardinality(WithDest(P, i + 1, k))
<1> DEFINE A == WithDest(P, 1, i)
           B == WithDest(P, i + 1, k)
<1>1. /\ IsFiniteSet(A) /\ Cardinality(A) \in Nat
      /\ IsFiniteSet(B) /\ Cardinality(B) \in Nat
  <2>1. i + 1 \in Int
    OBVIOUS
  <2> QED
    BY <2>1, WritersFinite
<1>2. A \cap B = {} /\ WithDest(P, 1, k) = A \cup B
  BY DEF WithDest
<1> HIDE DEF A, B
<1>3. Cardinality(A \cup B) = Cardinality(A) + Cardinality(B) - Cardinality(A \cap B)
  BY <1>1, FS_Union
<1>4. Cardinality(A \cap B) = 0
  BY <1>2, FS_EmptySet
<1>5. Dests(P, k) = Cardinality(A \cup B) /\ Dests(P, i) = Cardinality(A)
  BY <1>2 DEF Dests, A
<1>6. Dests(P, k) = Dests(P, i) + Cardinality(B)
  BY <1>1, <1>3, <1>4, <1>5
<1> QED
  BY <1>6 DEF B

LEMMA DestsMonotone ==
  ASSUME NEW P, NEW i \in Nat, NEW k \in Nat, i <= k
  PROVE  /\ Dests(P, i) <= Dests(P, k)
         /\ i < k /\ HasDest(P[k].insn) => Dests(P, i) < Dests(P, k)
<1> DEFINE B == WithDest(P, i + 1, k)
<1>1. Dests(P, k) = Dests(P, i) + Cardinality(B)
  BY DestsSplit
<1>2. IsFiniteSet(B) /\ Cardinality(B) \in Nat
  <2>1. i + 1 \in Int
    OBVIOUS
  <2> QED
    BY <2>1, WritersFinite
<1>3. ASSUME i < k, HasDest(P[k].insn) PROVE Cardinality(B) # 0
  <2>1. B # {}
    BY <1>3 DEF WithDest
  <2> HIDE DEF B
  <2> QED
    BY <1>2, <2>1, FS_EmptySet
<1> QED
  BY <1>1, <1>2, <1>3, DestsType

(* Each number of destinations is reached at an instruction that has one.  *)
LEMMA DestsReach ==
  ASSUME NEW P, NEW n \in Nat, NEW c \in Nat \ {0}, c <= Dests(P, n)
  PROVE  \E j \in 1 .. n : HasDest(P[j].insn) /\ Dests(P, j) = c
<1> DEFINE T == {j \in 0 .. n : c <= Dests(P, j)}
<1>1. T \subseteq Nat /\ n \in T
  OBVIOUS
<1>2. PICK j \in T : \A y \in T : j <= y
  BY <1>1, LeastElement
<1>3. j # 0
  BY DestsZero
<1>4. j - 1 \in 0 .. n /\ j - 1 \in Nat /\ j = (j - 1) + 1
  BY <1>2, <1>3
<1>5. j - 1 \notin T
  BY <1>2, <1>4
<1>6. ~(c <= Dests(P, j - 1))
  BY <1>4, <1>5
<1>7. Dests(P, (j - 1) + 1) = Dests(P, j - 1) + (IF HasDest(P[(j - 1) + 1].insn) THEN 1 ELSE 0)
  BY <1>4, DestsStep
<1>8. Dests(P, j) = Dests(P, j - 1) + (IF HasDest(P[j].insn) THEN 1 ELSE 0)
  BY <1>4, <1>7
<1>9. Dests(P, j - 1) \in Nat /\ c <= Dests(P, j)
  BY <1>2, <1>4, DestsType
<1>10. HasDest(P[j].insn) /\ Dests(P, j) = c
  BY <1>6, <1>8, <1>9
<1> QED
  BY <1>3, <1>10

(* Taking the oldest instruction off.                                      *)
LEMMA DestsTail ==
  ASSUME NEW P, NEW Q, NEW n \in Nat, Follows(P, Q, 1, n), NEW k \in 0 .. n
  PROVE  Dests(P, k + 1) = Dests(Q, k) + (IF HasDest(P[1].insn) THEN 1 ELSE 0)
<1> DEFINE A == WithDest(P, 2, k + 1)
           B == WithDest(Q, 1, k)
           f == [m \in B |-> m + 1]
<1>1. f \in Bijection(B, A)
  <2>1. \A m \in 1 .. k : HasDest(Q[m].insn) <=> HasDest(P[m + 1].insn)
    BY DEF Follows
  <2>2. f \in [B -> A]
    BY <2>1 DEF WithDest
  <2>3. \A x, y \in B : f[x] = f[y] => x = y
    BY DEF WithDest
  <2>4. \A y \in A : \E x \in B : f[x] = y
    <3> TAKE y \in A
    <3>1. y - 1 \in 1 .. k /\ (y - 1) + 1 = y /\ HasDest(P[(y - 1) + 1].insn)
      BY DEF WithDest
    <3>2. y - 1 \in B
      BY <2>1, <3>1 DEF WithDest
    <3> QED
      BY <3>1, <3>2
  <2> QED
    BY <2>2, <2>3, <2>4 DEF Bijection, Injection, Surjection, IsInjective
<1>2. IsFiniteSet(A) /\ IsFiniteSet(B) /\ Cardinality(A) \in Nat /\ k + 1 \in Nat
  BY WritersFinite
<1> HIDE DEF f
<1>3. Cardinality(A) = Cardinality(B)
  <2> HIDE DEF A, B
  <2> QED
    BY <1>1, <1>2, FS_Bijection DEF ExistsBijection
<1>4. Dests(P, k + 1) = Dests(P, 1) + Cardinality(WithDest(P, 1 + 1, k + 1))
  BY <1>2, DestsSplit
<1>5. Dests(P, 0 + 1) = Dests(P, 0) + (IF HasDest(P[0 + 1].insn) THEN 1 ELSE 0)
  BY DestsStep
<1> QED
  BY <1>2, <1>3, <1>4, <1>5, DestsZero DEF Dests
-----------------------------------------------------------------------------
(* The map after the first k instructions of a program, over a map A.      *)

MapOver(A, P, k) ==
  [l \in Log |-> LET W == Writers(P, k, l)
                 IN  IF W = {} THEN A[l]
                     ELSE P[CHOOSE j \in W : \A i \in W : i <= j].pdst]

Youngest(W, j) == j \in W /\ \A i \in W : i <= j

LEMMA MapIsOver == \A P, k : MapAfter(P, k) = MapOver(AMT, P, k)
BY DEF MapAfter, MapOver

LEMMA YoungestExists ==
  ASSUME NEW n \in Nat, NEW W, W \subseteq 1 .. n, W # {}
  PROVE  \E j \in W : Youngest(W, j)
<1> DEFINE T == {i \in 0 .. n : n - i \in W}
<1>1. T \subseteq Nat /\ T # {}
  <2>1. PICK j \in W : j \in 1 .. n
    OBVIOUS
  <2>2. n - j \in 0 .. n /\ n - (n - j) = j
    BY <2>1
  <2>3. n - j \in T
    BY <2>1, <2>2
  <2>4. T \subseteq Nat
    OBVIOUS
  <2> HIDE DEF T
  <2> QED
    BY <2>3, <2>4
<1>2. PICK x \in T : \A y \in T : x <= y
  <2> HIDE DEF T
  <2> QED
    BY <1>1, LeastElement
<1>3. n - x \in W
  OBVIOUS
<1>4. ASSUME NEW i \in W PROVE i <= n - x
  <2>1. i \in 1 .. n
    OBVIOUS
  <2>2. n - i \in 0 .. n /\ n - (n - i) = i
    BY <2>1
  <2>3. n - i \in T
    BY <2>2
  <2>4. x <= n - i
    BY <1>2, <2>3
  <2> QED
    BY <2>1, <2>2, <2>4
<1> QED
  BY <1>3, <1>4 DEF Youngest

LEMMA MapAtYoungest ==
  ASSUME NEW A, NEW P, NEW k \in Nat, NEW l \in Log, NEW j, Youngest(Writers(P, k, l), j)
  PROVE  MapOver(A, P, k)[l] = P[j].pdst
<1> DEFINE W == Writers(P, k, l)
<1>1. W \subseteq Int /\ W # {}
  BY DEF Writers, Youngest
<1>2. \A i \in W : Youngest(W, i) => i = j
  BY <1>1 DEF Youngest
<1>3. (CHOOSE i \in W : \A m \in W : m <= i) = j
  <2> HIDE DEF W
  <2>1. \E i \in W : \A m \in W : m <= i
    BY DEF W, Youngest
  <2> QED
    BY <1>2, <2>1 DEF Youngest
<1> QED
  BY <1>1, <1>3 DEF MapOver

LEMMA MapAtNone ==
  ASSUME NEW A, NEW P, NEW k \in Nat, NEW l \in Log, Writers(P, k, l) = {}
  PROVE  MapOver(A, P, k)[l] = A[l]
BY DEF MapOver

LEMMA MapOverDomain ==
  ASSUME NEW A, NEW P, NEW k \in Nat
  PROVE  DOMAIN MapOver(A, P, k) = Log
BY DEF MapOver

(* Two maps are one when they agree everywhere.                            *)
LEMMA MapsEqual ==
  ASSUME NEW A, NEW B, NEW P, NEW Q, NEW k \in Nat, NEW n \in Nat,
         \A l \in Log : MapOver(A, P, k)[l] = MapOver(B, Q, n)[l]
  PROVE  MapOver(A, P, k) = MapOver(B, Q, n)
BY DEF MapOver

LEMMA MapZero ==
  ASSUME NEW A \in [Log -> Phys], NEW P
  PROVE  MapOver(A, P, 0) = A
<1>1. \A l \in Log : Writers(P, 0, l) = {}
  BY DEF Writers
<1>2. \A l \in Log : MapOver(A, P, 0)[l] = A[l]
  BY <1>1, MapAtNone
<1> QED
  BY <1>2 DEF MapOver

LEMMA MapSame ==
  ASSUME NEW A, NEW P, NEW Q, NEW n \in Nat, Follows(P, Q, 0, n), NEW k \in 0 .. n
  PROVE  MapOver(A, Q, k) = MapOver(A, P, k)
<1>1. SUFFICES ASSUME NEW l \in Log PROVE MapOver(A, Q, k)[l] = MapOver(A, P, k)[l]
  BY MapsEqual
<1> DEFINE W == Writers(P, k, l)
<1>2. \A j \in 1 .. k : Q[j].insn = P[j].insn /\ (HasDest(P[j].insn) => Q[j].pdst = P[j].pdst)
  BY DEF Follows
<1>3. Writers(Q, k, l) = W
  BY <1>2 DEF Writers
<1>4. CASE W = {}
  BY <1>3, <1>4, MapAtNone
<1>5. CASE W # {}
  <2>1. W \subseteq 1 .. k
    BY DEF Writers
  <2>2. PICK j \in W : Youngest(W, j)
    <3>1. k \in Nat
      OBVIOUS
    <3> HIDE DEF W
    <3> QED
      BY <1>5, <2>1, <3>1, YoungestExists
  <2>3. MapOver(A, Q, k)[l] = Q[j].pdst /\ MapOver(A, P, k)[l] = P[j].pdst
    BY <1>3, <2>2, MapAtYoungest
  <2>4. j \in 1 .. k /\ HasDest(P[j].insn)
    BY DEF Writers
  <2> QED
    BY <1>2, <2>3, <2>4
<1> QED
  BY <1>4, <1>5

(* One more instruction: its destination is written over the map.          *)
LEMMA MapStep ==
  ASSUME NEW A, NEW P, NEW k \in Nat
  PROVE  MapOver(A, P, k + 1) =
           IF HasDest(P[k + 1].insn)
             THEN [MapOver(A, P, k) EXCEPT ![P[k + 1].insn.dst] = P[k + 1].pdst]
             ELSE MapOver(A, P, k)
<1> DEFINE d == P[k + 1].insn.dst
<1>1. ASSUME NEW l \in Log, HasDest(P[k + 1].insn), l = d
      PROVE  MapOver(A, P, k + 1)[l] = P[k + 1].pdst
  <2>1. Youngest(Writers(P, k + 1, l), k + 1)
    BY <1>1 DEF Youngest, Writers
  <2> QED
    BY <2>1, MapAtYoungest
<1>2. ASSUME NEW l \in Log, ~HasDest(P[k + 1].insn) \/ l # d
      PROVE  MapOver(A, P, k + 1)[l] = MapOver(A, P, k)[l]
  <2>1. Writers(P, k + 1, l) = Writers(P, k, l)
    BY <1>2 DEF Writers
  <2> DEFINE F(W) == IF W = {} THEN A[l] ELSE P[CHOOSE j \in W : \A i \in W : i <= j].pdst
  <2>2. /\ MapOver(A, P, k + 1)[l] = F(Writers(P, k + 1, l))
        /\ MapOver(A, P, k)[l] = F(Writers(P, k, l))
    BY DEF MapOver
  <2> HIDE DEF F
  <2> QED
    BY <2>1, <2>2
<1>3. /\ MapOver(A, P, k + 1) = [l \in Log |-> MapOver(A, P, k + 1)[l]]
      /\ MapOver(A, P, k) = [l \in Log |-> MapOver(A, P, k)[l]]
  BY DEF MapOver
<1>4. CASE HasDest(P[k + 1].insn)
  BY <1>1, <1>2, <1>3, <1>4
<1>5. CASE ~HasDest(P[k + 1].insn)
  BY <1>2, <1>3, <1>5
<1> QED
  BY <1>4, <1>5

(* Committing the oldest instruction moves its destination from the        *)
(* program to the map beneath it.                                          *)
CommitFirst(A, P) ==
  IF HasDest(P[1].insn) THEN [A EXCEPT ![P[1].insn.dst] = P[1].pdst] ELSE A

LEMMA MapTail ==
  ASSUME NEW A \in [Log -> Phys], NEW P, NEW Q, NEW n \in Nat, Follows(P, Q, 1, n), NEW k \in 0 .. n
  PROVE  MapOver(CommitFirst(A, P), Q, k) = MapOver(A, P, k + 1)
<1> DEFINE B == CommitFirst(A, P)
<1>0. B = IF HasDest(P[1].insn) THEN [A EXCEPT ![P[1].insn.dst] = P[1].pdst] ELSE A
  BY DEF CommitFirst
<1>1. SUFFICES ASSUME NEW l \in Log PROVE MapOver(B, Q, k)[l] = MapOver(A, P, k + 1)[l]
  <2>1. k \in Nat /\ k + 1 \in Nat
    OBVIOUS
  <2> HIDE DEF B
  <2>2. MapOver(B, Q, k) = MapOver(A, P, k + 1)
    BY <1>1, <2>1, MapsEqual
  <2> QED
    BY <2>2 DEF B
<1> DEFINE V == Writers(P, k + 1, l)
           W == Writers(Q, k, l)
<1>2. \A j \in 1 .. k : /\ Q[j].insn = P[j + 1].insn
                        /\ HasDest(P[j + 1].insn) => Q[j].pdst = P[j + 1].pdst
  BY DEF Follows
<1>3. \A j \in 1 .. k : j \in W <=> j + 1 \in V
  BY <1>2 DEF Writers
<1>4. W \subseteq 1 .. k /\ V \subseteq 1 .. k + 1 /\ k \in Nat /\ k + 1 \in Nat
  BY DEF Writers
<1>5. CASE W # {}
  <2>1. PICK j \in W : Youngest(W, j)
    <3> HIDE DEF W
    <3> QED
      BY <1>4, <1>5, YoungestExists
  <2>2. Youngest(V, j + 1)
    <3>1. j + 1 \in V
      BY <1>3, <1>4
    <3>2. ASSUME NEW i \in V PROVE i <= j + 1
      <4>1. CASE i = 1
        BY <1>4, <4>1
      <4>2. CASE i # 1
        <5>1. i - 1 \in 1 .. k /\ (i - 1) + 1 = i
          BY <1>4, <4>2
        <5>2. i - 1 \in W
          BY <1>3, <5>1
        <5>3. i - 1 <= j
          BY <2>1, <5>2 DEF Youngest
        <5> QED
          BY <1>4, <5>3
      <4> QED
        BY <4>1, <4>2
    <3> QED
      BY <3>1, <3>2 DEF Youngest
  <2>3. MapOver(B, Q, k)[l] = Q[j].pdst
    BY <1>4, <2>1, MapAtYoungest
  <2>4. MapOver(A, P, k + 1)[l] = P[j + 1].pdst
    BY <1>4, <2>2, MapAtYoungest
  <2>5. j \in 1 .. k /\ HasDest(Q[j].insn)
    BY DEF Writers
  <2> QED
    BY <1>2, <2>3, <2>4, <2>5
<1>6. CASE W = {}
  <2>1. \A i \in V : i = 1
    <3> TAKE i \in V
    <3>1. CASE i # 1
      <4>1. i - 1 \in 1 .. k /\ (i - 1) + 1 = i
        BY <1>4, <3>1
      <4> QED
        BY <1>3, <1>6, <4>1
    <3> QED
      BY <3>1
  <2>2. MapOver(B, Q, k)[l] = B[l]
    BY <1>4, <1>6, MapAtNone
  <2>3. 1 \in V <=> HasDest(P[1].insn) /\ P[1].insn.dst = l
    BY <1>4 DEF Writers
  <2>4. CASE 1 \in V
    <3>1. Youngest(V, 1)
      BY <2>1, <2>4 DEF Youngest
    <3>2. MapOver(A, P, k + 1)[l] = P[1].pdst
      BY <1>4, <3>1, MapAtYoungest
    <3> QED
      BY <1>0, <2>2, <2>3, <2>4, <3>2
  <2>5. CASE 1 \notin V
    <3>1. V = {}
      BY <2>1, <2>5
    <3>2. MapOver(A, P, k + 1)[l] = A[l]
      BY <1>4, <3>1, MapAtNone
    <3> QED
      BY <1>0, <2>2, <2>3, <2>5, <3>2
  <2> QED
    BY <2>4, <2>5
<1> QED
  BY <1>5, <1>6
-----------------------------------------------------------------------------
(* The places of the Active List: the head has age 0.  Nothing is in       *)
(* flight when one end, and then both, of the list say so.                 *)

RingEnds == (alHead = -1) <=> (alTail = -1)
Rings == TypeOK /\ RingEnds

Total == Used + Len(dispatch)

LEMMA UsedType ==
  Rings => /\ Used \in 0 .. ListSize
           /\ Used = 0 <=> alHead = -1
           /\ Len(dispatch) \in Nat /\ Total \in Nat
           /\ alHead # -1 => /\ alHead \in Slot /\ alTail \in Slot
                             /\ alTail = Behind(alHead, Used - 1)
<1> SUFFICES ASSUME Rings PROVE
           /\ Used \in 0 .. ListSize
           /\ Used = 0 <=> alHead = -1
           /\ Len(dispatch) \in Nat /\ Total \in Nat
           /\ alHead # -1 => /\ alHead \in Slot /\ alTail \in Slot
                             /\ alTail = Behind(alHead, Used - 1)
  OBVIOUS
<1>1. /\ alHead \in {-1} \cup Slot /\ alTail \in {-1} \cup Slot
      /\ alHead = -1 <=> alTail = -1
      /\ dispatch \in Seq(Renamed)
  BY DEF Rings, TypeOK, RingEnds
<1>2. /\ Used \in 0 .. ListSize
      /\ Used = 0 <=> alHead = -1
      /\ alHead # -1 => /\ alHead \in Slot /\ alTail \in Slot
                        /\ alTail = Behind(alHead, Used - 1)
  BY <1>1, Sizes DEF Used, Behind, Slot
<1>3. Len(dispatch) \in Nat
  BY <1>1, LenProperties
<1> QED
  BY <1>2, <1>3, Sizes DEF Total

LEMMA Ages ==
  Rings /\ alHead # -1 =>
    /\ \A s \in Slot : /\ Age(s) \in 0 .. ListSize - 1
                       /\ Behind(alHead, Age(s)) = s
                       /\ s \in InFlight <=> Age(s) < Used
    /\ \A c \in 0 .. ListSize - 1 : Behind(alHead, c) \in Slot /\ Age(Behind(alHead, c)) = c
<1> SUFFICES ASSUME Rings, alHead # -1
             PROVE  /\ \A s \in Slot : /\ Age(s) \in 0 .. ListSize - 1
                                       /\ Behind(alHead, Age(s)) = s
                                       /\ s \in InFlight <=> Age(s) < Used
                    /\ \A c \in 0 .. ListSize - 1 :
                         Behind(alHead, c) \in Slot /\ Age(Behind(alHead, c)) = c
  OBVIOUS
<1>1. alHead \in Slot /\ alTail \in Slot
  BY UsedType
<1>2. ASSUME NEW s \in Slot
      PROVE  Age(s) \in 0 .. ListSize - 1 /\ Behind(alHead, Age(s)) = s
  BY <1>1, Sizes DEF Age, Behind, Slot
<1>3. ASSUME NEW s \in Slot
      PROVE  s \in InFlight <=> Age(s) < Used
  BY <1>1, Sizes DEF Age, Used, InFlight, Slot
<1>4. ASSUME NEW c \in 0 .. ListSize - 1
      PROVE  Behind(alHead, c) \in Slot /\ Age(Behind(alHead, c)) = c
  BY <1>1, Sizes DEF Age, Behind, Slot
<1> QED
  BY <1>2, <1>3, <1>4

LEMMA InFlightSlots ==
  Rings => InFlight \subseteq Slot /\ (alHead = -1 => InFlight = {})
BY Sizes DEF Rings, TypeOK, InFlight, Slot

(* The program the pipeline holds: the Active List by age, then the bundle.*)
Item == [insn : [kind : AllKinds, src : Log, dst : Log], pdst : Phys]

LEMMA ProgramShape ==
  Rings => /\ Len(Program) = Total /\ DOMAIN Program = 1 .. Total
           /\ \A k \in 1 .. Used :
                Program[k] = [insn |-> al[Behind(alHead, k - 1)].insn,
                              pdst |-> al[Behind(alHead, k - 1)].pdst]
           /\ \A k \in 1 .. Len(dispatch) :
                Program[Used + k] = [insn |-> dispatch[k].insn, pdst |-> dispatch[k].pdst]
<1> SUFFICES ASSUME Rings
             PROVE  /\ Len(Program) = Total /\ DOMAIN Program = 1 .. Total
                    /\ \A k \in 1 .. Used :
                         Program[k] = [insn |-> al[Behind(alHead, k - 1)].insn,
                                       pdst |-> al[Behind(alHead, k - 1)].pdst]
                    /\ \A k \in 1 .. Len(dispatch) :
                         Program[Used + k] = [insn |-> dispatch[k].insn, pdst |-> dispatch[k].pdst]
  OBVIOUS
<1> DEFINE f == [k \in 1 .. Used |-> [insn |-> al[SlotOfAge(k - 1)].insn,
                                      pdst |-> al[SlotOfAge(k - 1)].pdst]]
           g == [k \in DOMAIN dispatch |-> [insn |-> dispatch[k].insn, pdst |-> dispatch[k].pdst]]
<1>1. Program = f \o g
  <2>1. Cardinality(InFlight) = Used
    BY UsedIsInFlight DEF Rings
  <2> QED
    BY <2>1 DEF Program
<1>2. /\ Used \in Nat /\ Used <= ListSize /\ (Used # 0 => alHead \in Slot)
      /\ Len(dispatch) \in Nat /\ dispatch \in Seq(Renamed) /\ DOMAIN dispatch = 1 .. Len(dispatch)
  BY UsedType, Sizes, LenProperties DEF Rings, TypeOK
<1>3. \A k \in 1 .. Used : /\ SlotOfAge(k - 1) = Behind(alHead, k - 1)
                           /\ SlotOfAge(k - 1) \in Slot
  <2> TAKE k \in 1 .. Used
  <2>1. alHead \in Slot /\ k - 1 \in 0 .. ListSize
    BY <1>2, Sizes
  <2> QED
    BY <2>1, BehindMod, BehindType DEF SlotOfAge
<1>4. \A k \in 1 .. Used : f[k] \in Item
  BY <1>3, EntryType DEF Item, Rings
<1>5. \A k \in 1 .. Len(dispatch) : g[k] \in Item
  <2> TAKE k \in 1 .. Len(dispatch)
  <2>1. dispatch[k] \in Renamed
    BY <1>2, ElementOfSeq
  <2> QED
    BY <1>2, <2>1, SizesAssumption DEF Item, Renamed, Insn
<1>6. f \in Seq(Item) /\ Len(f) = Used /\ g \in Seq(Item) /\ Len(g) = Len(dispatch)
  <2>1. f \in [1 .. Used -> Item] /\ g \in [1 .. Len(dispatch) -> Item]
    BY <1>2, <1>4, <1>5
  <2> HIDE DEF f, g
  <2>2. f \in Seq(Item) /\ g \in Seq(Item)
    BY <1>2, <2>1, FunctionIsSeq
  <2> QED
    BY <1>2, <2>1, <2>2, LenProperties
<1>7. /\ f \o g \in Seq(Item) /\ Len(f \o g) = Used + Len(dispatch)
      /\ \A k \in 1 .. Used : (f \o g)[k] = f[k]
      /\ \A k \in 1 .. Len(dispatch) : (f \o g)[Used + k] = g[k]
  <2> HIDE DEF f, g
  <2>1. /\ f \o g \in Seq(Item) /\ Len(f \o g) = Len(f) + Len(g)
        /\ \A k \in 1 .. Len(f) + Len(g) :
             (f \o g)[k] = IF k <= Len(f) THEN f[k] ELSE g[k - Len(f)]
    BY <1>6, ConcatProperties
  <2>2. \A k \in 1 .. Len(dispatch) :
          /\ Used + k \in 1 .. Used + Len(dispatch)
          /\ ~(Used + k <= Used) /\ (Used + k) - Used = k
    BY <1>2
  <2> QED
    BY <1>2, <1>6, <2>1, <2>2
<1>8. Program \in Seq(Item) /\ Len(Program) = Total
  BY <1>1, <1>7 DEF Total
<1>9. DOMAIN Program = 1 .. Total
  BY <1>8, LenProperties
<1>10. \A k \in 1 .. Used : Program[k] = [insn |-> al[Behind(alHead, k - 1)].insn,
                                          pdst |-> al[Behind(alHead, k - 1)].pdst]
  BY <1>1, <1>3, <1>7
<1>11. \A k \in 1 .. Len(dispatch) :
         Program[Used + k] = [insn |-> dispatch[k].insn, pdst |-> dispatch[k].pdst]
  BY <1>1, <1>2, <1>7
<1> QED
  BY <1>8, <1>9, <1>10, <1>11
-----------------------------------------------------------------------------
(* What is in the lanes, and which branches are not resolved yet.          *)

BackendInv ==
  /\ BackendIsActiveList
  /\ \A x \in backend : x.stage = "missed" => IsLoad(InsnOf(x))
  /\ \A s \in InFlight : al[s].insn.kind \in Kinds

LEMMA BackendFacts ==
  Rings /\ BackendInv =>
    \A x \in backend :
      /\ x \in Flying /\ x.al \in Slot /\ x.id \in BranchID
      /\ x.al \in InFlight /\ ~al[x.al].completed /\ alHead # -1
      /\ Age(x.al) \in 0 .. ListSize - 1 /\ Age(x.al) < Used
      /\ InsnOf(x) = Program[Age(x.al) + 1].insn
      /\ DestOf(x) = Program[Age(x.al) + 1].pdst
<1> SUFFICES ASSUME Rings, BackendInv, NEW x \in backend
             PROVE  /\ x \in Flying /\ x.al \in Slot /\ x.id \in BranchID
                    /\ x.al \in InFlight /\ ~al[x.al].completed /\ alHead # -1
                    /\ Age(x.al) \in 0 .. ListSize - 1 /\ Age(x.al) < Used
                    /\ InsnOf(x) = Program[Age(x.al) + 1].insn
                    /\ DestOf(x) = Program[Age(x.al) + 1].pdst
  OBVIOUS
<1>1. x \in Flying /\ x.al \in Slot /\ x.id \in BranchID
  BY DEF Rings, TypeOK, Flying
<1>2. x.al \in InFlight /\ ~al[x.al].completed /\ alHead # -1
  BY InFlightSlots DEF BackendInv, BackendIsActiveList
<1>3. /\ Age(x.al) \in 0 .. ListSize - 1 /\ Age(x.al) < Used
      /\ Behind(alHead, Age(x.al)) = x.al
  BY <1>1, <1>2, Ages
<1>4. Age(x.al) + 1 \in 1 .. Used /\ (Age(x.al) + 1) - 1 = Age(x.al)
  BY <1>3, UsedType
<1>5. Program[Age(x.al) + 1] = [insn |-> al[x.al].insn, pdst |-> al[x.al].pdst]
  BY <1>3, <1>4, ProgramShape
<1> QED
  BY <1>1, <1>2, <1>3, <1>5 DEF InsnOf, DestOf

LaneBranch(b)   == \E x \in backend :
                     NeedsChk(InsnOf(x)) /\ b = [at |-> Age(x.al) + 1, id |-> x.id]
BundleBranch(b) == \E k \in 1 .. Len(dispatch) :
                     NeedsChk(dispatch[k].insn) /\ b = [at |-> Used + k, id |-> dispatch[k].id]

LEMMA UnresolvedIs ==
  Rings => \A b : b \in Unresolved <=> LaneBranch(b) \/ BundleBranch(b)
<1> SUFFICES ASSUME Rings, NEW b
             PROVE  b \in Unresolved <=> LaneBranch(b) \/ BundleBranch(b)
  OBVIOUS
<1>1. DOMAIN dispatch = 1 .. Len(dispatch)
  BY LenProperties DEF Rings, TypeOK
<1>2. Cardinality(InFlight) = Used
  BY UsedIsInFlight DEF Rings
<1> QED
  BY <1>1, <1>2 DEF Unresolved, LaneBranch, BundleBranch

LEMMA UnresolvedFacts ==
  Rings /\ BackendInv => \A b \in Unresolved : b.at \in 1 .. Total /\ b.id \in BranchID
<1> SUFFICES ASSUME Rings, BackendInv, NEW b \in Unresolved
             PROVE  b.at \in 1 .. Total /\ b.id \in BranchID
  OBVIOUS
<1>1. Used \in Nat /\ Len(dispatch) \in Nat /\ Total = Used + Len(dispatch)
  BY UsedType, Sizes DEF Total
<1>2. CASE LaneBranch(b)
  <2>1. PICK x \in backend : b = [at |-> Age(x.al) + 1, id |-> x.id]
    BY <1>2 DEF LaneBranch
  <2>2. Age(x.al) \in 0 .. ListSize - 1 /\ Age(x.al) < Used /\ x.id \in BranchID
    BY BackendFacts
  <2>3. b.at = Age(x.al) + 1 /\ b.id = x.id
    BY <2>1
  <2> QED
    BY <1>1, <2>2, <2>3
<1>3. CASE BundleBranch(b)
  <2>1. PICK k \in 1 .. Len(dispatch) : b = [at |-> Used + k, id |-> dispatch[k].id]
    BY <1>3 DEF BundleBranch
  <2>2. dispatch[k] \in Renamed
    BY ElementOfSeq DEF Rings, TypeOK
  <2>3. b.at = Used + k /\ b.id = dispatch[k].id
    BY <2>1
  <2> QED
    BY <1>1, <2>2, <2>3 DEF Renamed
<1> QED
  BY <1>2, <1>3, UnresolvedIs

(* The same, after a step.                                                 *)
LEMMA AfterStep ==
  /\ Rings' => /\ (Used \in 0 .. ListSize)'
               /\ (Used = 0 <=> alHead = -1)'
               /\ (Len(dispatch) \in Nat /\ Total \in Nat)'
               /\ (alHead # -1 => /\ alHead \in Slot /\ alTail \in Slot
                                  /\ alTail = Behind(alHead, Used - 1))'
  /\ Rings' /\ (alHead # -1)' =>
       /\ (\A s \in Slot : /\ Age(s) \in 0 .. ListSize - 1
                           /\ Behind(alHead, Age(s)) = s
                           /\ s \in InFlight <=> Age(s) < Used)'
       /\ (\A c \in 0 .. ListSize - 1 : Behind(alHead, c) \in Slot /\ Age(Behind(alHead, c)) = c)'
  /\ Rings' => (InFlight \subseteq Slot /\ (alHead = -1 => InFlight = {}))'
  /\ Rings' =>
       /\ (Len(Program) = Total /\ DOMAIN Program = 1 .. Total)'
       /\ (\A k \in 1 .. Used :
             Program[k] = [insn |-> al[Behind(alHead, k - 1)].insn,
                           pdst |-> al[Behind(alHead, k - 1)].pdst])'
       /\ (\A k \in 1 .. Len(dispatch) :
             Program[Used + k] = [insn |-> dispatch[k].insn, pdst |-> dispatch[k].pdst])'
  /\ Rings' => (\A b : b \in Unresolved <=> LaneBranch(b) \/ BundleBranch(b))'
BY UsedType, Ages, InFlightSlots, ProgramShape, UnresolvedIs, PTL
-----------------------------------------------------------------------------
(* Steps that leave the program as it is.                                  *)

KeepsEntries == \A s \in Slot : al'[s].insn = al[s].insn /\ al'[s].pdst = al[s].pdst
KeepsBundle ==
  /\ Len(dispatch') = Len(dispatch)
  /\ \A k \in 1 .. Len(dispatch) : /\ dispatch'[k].insn = dispatch[k].insn
                                   /\ dispatch'[k].pdst = dispatch[k].pdst
                                   /\ dispatch'[k].id = dispatch[k].id
SameProgram == Total' = Total /\ Follows(Program, Program', 0, Total)

LEMMA SameList ==
  ASSUME UNCHANGED <<alHead, alTail>>
  PROVE  Used' = Used /\ InFlight' = InFlight /\ \A s : Age(s)' = Age(s)
BY DEF Used, InFlight, Age

LEMMA ProgramKept ==
  ASSUME Rings, Rings', UNCHANGED <<alHead, alTail>>, KeepsEntries, KeepsBundle
  PROVE  SameProgram
<1>1. Used' = Used /\ Total' = Total
  BY SameList DEF KeepsBundle, Total
<1>2. Used \in Nat /\ Used <= ListSize /\ Len(dispatch) \in Nat /\ Total = Used + Len(dispatch)
  BY UsedType, Sizes DEF Total
<1>3. ASSUME NEW k \in 1 .. Total
      PROVE  Program'[k].insn = Program[k].insn /\ Program'[k].pdst = Program[k].pdst
  <2>1. CASE k <= Used
    <3>1. k \in 1 .. Used /\ k \in 1 .. Used' /\ alHead # -1
      BY <1>1, <1>2, <2>1, UsedType
    <3>2. alHead \in Slot /\ k - 1 \in 0 .. ListSize
      BY <1>2, <3>1, UsedType, Sizes
    <3>3. Behind(alHead, k - 1) \in Slot
      BY <3>2, BehindType
    <3>4. /\ Program[k] = [insn |-> al[Behind(alHead, k - 1)].insn,
                           pdst |-> al[Behind(alHead, k - 1)].pdst]
          /\ Program'[k] = [insn |-> al'[Behind(alHead, k - 1)].insn,
                            pdst |-> al'[Behind(alHead, k - 1)].pdst]
      BY <3>1, ProgramShape, AfterStep
    <3> QED
      BY <3>3, <3>4 DEF KeepsEntries
  <2>2. CASE ~(k <= Used)
    <3> DEFINE j == k - Used
    <3>1. j \in 1 .. Len(dispatch) /\ j \in 1 .. Len(dispatch') /\ Used + j = k
      BY <1>2, <2>2 DEF KeepsBundle
    <3> HIDE DEF j
    <3>2. /\ Program[Used + j] = [insn |-> dispatch[j].insn, pdst |-> dispatch[j].pdst]
          /\ Program'[Used' + j] = [insn |-> dispatch'[j].insn, pdst |-> dispatch'[j].pdst]
      BY <3>1, ProgramShape, AfterStep
    <3> QED
      BY <1>1, <3>1, <3>2 DEF KeepsBundle
  <2> QED
    BY <2>1, <2>2
<1> QED
  BY <1>1, <1>2, <1>3 DEF SameProgram, Follows

(* An instruction that moves on in the lanes, and one that leaves them.    *)
LEMMA Moves ==
  ASSUME Rings, Rings', BackendInv, UNCHANGED <<alHead, alTail, dispatch>>, KeepsEntries,
         \A s \in Slot : al'[s].completed = al[s].completed,
         NEW x \in backend, NEW st, backend' = MoveTo(x, st),
         st = "missed" => IsLoad(InsnOf(x))
  PROVE  BackendInv' /\ Unresolved' = Unresolved
<1> DEFINE z == [x EXCEPT !.stage = st]
<1>1. Used' = Used /\ InFlight' = InFlight /\ \A s : Age(s)' = Age(s)
  BY SameList
<1>2. \A y \in backend : y \in Flying /\ y.al \in Slot
  BY BackendFacts
<1>3. /\ backend' = (backend \ {x}) \cup {z}
      /\ z.al = x.al /\ z.id = x.id /\ z.stage = st
  BY <1>2 DEF MoveTo, Flying
<1>4. InFlight \subseteq Slot
  BY InFlightSlots
<1>5. \A y \in backend : InsnOf(y)' = InsnOf(y)
  BY <1>2 DEF KeepsEntries, InsnOf
<1>6. InsnOf(z)' = InsnOf(x)
  BY <1>2, <1>3 DEF KeepsEntries, InsnOf
<1> HIDE DEF z
<1>7. BackendIsActiveList'
  <2>1. {y.al : y \in backend'} = {y.al : y \in backend}
    BY <1>3
  <2>2. {s \in InFlight' : ~al'[s].completed} = {s \in InFlight : ~al[s].completed}
    BY <1>1, <1>4
  <2>3. \A y, w \in backend' : y.al = w.al => y = w
    BY <1>3 DEF BackendInv, BackendIsActiveList
  <2> QED
    BY <2>1, <2>2, <2>3 DEF BackendInv, BackendIsActiveList
<1>8. \A y \in backend' : y.stage = "missed" => IsLoad(InsnOf(y)')
  BY <1>3, <1>5, <1>6 DEF BackendInv
<1>9. \A s \in InFlight' : al'[s].insn.kind \in Kinds
  BY <1>1, <1>4 DEF KeepsEntries, BackendInv
<1>10. \A b : LaneBranch(b)' <=> LaneBranch(b)
  BY <1>1, <1>3, <1>5, <1>6 DEF LaneBranch
<1>11. \A b : BundleBranch(b)' <=> BundleBranch(b)
  BY <1>1 DEF BundleBranch
<1>12. Unresolved' = Unresolved
  BY <1>10, <1>11, UnresolvedIs, AfterStep
<1> QED
  BY <1>7, <1>8, <1>9, <1>12 DEF BackendInv

LEMMA Leaves ==
  ASSUME Rings, Rings', BackendInv, UNCHANGED <<alHead, alTail, dispatch>>,
         NEW x \in backend, backend' = backend \ {x}, Complete(x), ~NeedsChk(InsnOf(x))
  PROVE  BackendInv' /\ Unresolved' = Unresolved /\ KeepsEntries
<1>1. Used' = Used /\ InFlight' = InFlight /\ \A s : Age(s)' = Age(s)
  BY SameList
<1>2. \A y \in backend : y \in Flying /\ y.al \in Slot
  BY BackendFacts
<1>3. al \in [Slot -> Entry] /\ InFlight \subseteq Slot
  BY InFlightSlots DEF Rings, TypeOK
<1>4. /\ KeepsEntries
      /\ \A s \in Slot : al'[s].completed = IF s = x.al THEN TRUE ELSE al[s].completed
  BY <1>2, <1>3 DEF Complete, KeepsEntries, Entry
<1>5. \A y \in backend : InsnOf(y)' = InsnOf(y)
  BY <1>2, <1>4 DEF KeepsEntries, InsnOf
<1>6. BackendIsActiveList'
  <2>1. \A y, w \in backend : y.al = w.al => y = w
    BY DEF BackendInv, BackendIsActiveList
  <2>2. {y.al : y \in backend} = {s \in InFlight : ~al[s].completed}
    BY DEF BackendInv, BackendIsActiveList
  <2>3. {y.al : y \in backend'} = {y.al : y \in backend} \ {x.al}
    BY <2>1
  <2>4. {s \in InFlight' : ~al'[s].completed} = {s \in InFlight : ~al[s].completed} \ {x.al}
    BY <1>1, <1>3, <1>4
  <2> QED
    BY <2>1, <2>2, <2>3, <2>4 DEF BackendIsActiveList
<1>7. \A y \in backend' : y.stage = "missed" => IsLoad(InsnOf(y)')
  BY <1>5 DEF BackendInv
<1>8. \A s \in InFlight' : al'[s].insn.kind \in Kinds
  BY <1>1, <1>3, <1>4 DEF KeepsEntries, BackendInv
<1>9. \A b : LaneBranch(b)' <=> LaneBranch(b)
  BY <1>1, <1>5 DEF LaneBranch
<1>10. \A b : BundleBranch(b)' <=> BundleBranch(b)
  BY <1>1 DEF BundleBranch
<1>11. Unresolved' = Unresolved
  BY <1>9, <1>10, UnresolvedIs, AfterStep
<1> QED
  BY <1>4, <1>6, <1>7, <1>8, <1>11 DEF BackendInv

LEMMA ExecuteEffect ==
  ASSUME Rings, Rings', BackendInv, NEW x \in backend, Execute(x)
  PROVE  /\ UNCHANGED <<free, alHead, alTail, maps, front>>
         /\ BackendInv' /\ Unresolved' = Unresolved /\ SameProgram
<1> USE DEF maps, front, lists
<1>1. UNCHANGED <<free, alHead, alTail, maps, front>>
  BY DEF Execute, ExecuteAlu, ExecuteSystem, ExecuteLoadHit, ExecuteLoadMiss, ExecuteStore
<1>2. x.al \in Slot /\ al \in [Slot -> Entry] /\ InFlight \subseteq Slot
  BY BackendFacts, InFlightSlots DEF Rings, TypeOK
<1>3. KeepsEntries /\ \A s \in Slot : al'[s].completed = al[s].completed
  <2>1. CASE ExecuteAlu(x)
    BY <1>2, <2>1 DEF ExecuteAlu, KeepsEntries, Entry
  <2>2. CASE ExecuteSystem(x)
    BY <1>2, <2>2 DEF ExecuteSystem, KeepsEntries, Entry
  <2>3. CASE ExecuteLoadHit(x) \/ ExecuteLoadMiss(x)
    BY <2>3 DEF ExecuteLoadHit, ExecuteLoadMiss, KeepsEntries
  <2>4. CASE ExecuteStore(x)
    <3>1. CASE UNCHANGED al
      BY <3>1 DEF KeepsEntries
    <3>2. CASE \E s \in ExecutedLoads(x) : al' = [al EXCEPT ![s].load_violation = TRUE]
      <4>1. PICK s \in Slot : al' = [al EXCEPT ![s].load_violation = TRUE]
        BY <1>2, <3>2 DEF ExecutedLoads
      <4> QED
        BY <1>2, <4>1 DEF KeepsEntries, Entry
    <3> QED
      BY <2>4, <3>1, <3>2 DEF ExecuteStore
  <2> QED
    BY <2>1, <2>2, <2>3, <2>4 DEF Execute
<1>4. KeepsBundle
  BY <1>1 DEF KeepsBundle
<1>5. \E st \in {"missed", "done"} :
        backend' = MoveTo(x, st) /\ (st = "missed" => IsLoad(InsnOf(x)))
  BY DEF Execute, ExecuteAlu, ExecuteSystem, ExecuteLoadHit, ExecuteLoadMiss, ExecuteStore
<1>6. SameProgram
  BY <1>1, <1>3, <1>4, ProgramKept
<1>7. BackendInv' /\ Unresolved' = Unresolved
  BY <1>1, <1>3, <1>5, Moves
<1> QED
  BY <1>1, <1>6, <1>7

LEMMA ReplayWritebackEffect ==
  ASSUME Rings, Rings', BackendInv, NEW x \in backend, LoadReplay(x) \/ Writeback(x)
  PROVE  /\ UNCHANGED <<free, alHead, alTail, maps, front>>
         /\ BackendInv' /\ Unresolved' = Unresolved /\ SameProgram
<1> USE DEF maps, front
<1>1. UNCHANGED <<free, alHead, alTail, maps, front>> /\ backend' = backend \ {x} /\ Complete(x)
  BY DEF LoadReplay, Writeback, Complete
<1>2. ~NeedsChk(InsnOf(x))
  BY DEF LoadReplay, Writeback, BackendInv, IsLoad, NeedsChk
<1>3. BackendInv' /\ Unresolved' = Unresolved /\ KeepsEntries
  BY <1>1, <1>2, Leaves
<1>4. SameProgram
  BY <1>1, <1>3, ProgramKept DEF KeepsBundle
<1> QED
  BY <1>1, <1>3, <1>4

LEMMA BeginEffect ==
  ASSUME Rings, Rings', BackendInv, (\E b \in Bundle : Rename2Begin(b)) \/ DispatchBegin
  PROVE  /\ UNCHANGED <<lists, maps, ready, value, dispatch, backend>>
         /\ BackendInv' /\ Unresolved' = Unresolved /\ SameProgram
<1>1. UNCHANGED <<lists, maps, ready, value, dispatch, backend>>
  BY DEF Rename2Begin, DispatchBegin
<1>2. Used' = Used /\ InFlight' = InFlight /\ \A s : Age(s)' = Age(s)
  BY <1>1, SameList DEF lists
<1>3. BackendInv' /\ Unresolved' = Unresolved
  BY <1>1, <1>2 DEF lists, BackendInv, BackendIsActiveList, InsnOf, Unresolved
<1>4. SameProgram
  BY <1>1, ProgramKept DEF lists, KeepsEntries, KeepsBundle
<1> QED
  BY <1>1, <1>3, <1>4

(* A branch that is resolved as predicted leaves the lanes and is resolved.*)
LEMMA ResolveCorrectEffect ==
  ASSUME Rings, Rings', TypeInv, BackendInv, NEW x \in backend, ResolveCorrect(x)
  PROVE  /\ BackendInv' /\ SameProgram
         /\ [at |-> Age(x.al) + 1, id |-> x.id] \in Unresolved
         /\ Unresolved' = Unresolved \ {[at |-> Age(x.al) + 1, id |-> x.id]}
         /\ Used' = Used /\ \A s : Age(s)' = Age(s)
<1> DEFINE bx == [at |-> Age(x.al) + 1, id |-> x.id]
<1>1. /\ NeedsChk(InsnOf(x))
      /\ backend' = {Unmask(y, x.id) : y \in backend \ {x}}
      /\ dispatch' = [k \in DOMAIN dispatch |-> Unmask(dispatch[k], x.id)]
      /\ Complete(x)
      /\ UNCHANGED <<alHead, alTail>>
  BY DEF ResolveCorrect
<1>2. Used' = Used /\ InFlight' = InFlight /\ \A s : Age(s)' = Age(s)
  BY <1>1, SameList
<1>3. \A y \in backend : y \in Flying /\ y.al \in Slot
  BY BackendFacts
<1>4. al \in [Slot -> Entry] /\ InFlight \subseteq Slot
  BY InFlightSlots DEF Rings, TypeOK
<1>5. /\ KeepsEntries
      /\ \A s \in Slot : al'[s].completed = IF s = x.al THEN TRUE ELSE al[s].completed
  BY <1>1, <1>3, <1>4 DEF Complete, KeepsEntries, Entry
<1>6. \A y \in Flying : LET u == Unmask(y, x.id)
                        IN  u.al = y.al /\ u.id = y.id /\ u.stage = y.stage
  BY DEF Unmask, Flying
<1>7. \A y \in Renamed : LET u == Unmask(y, x.id)
                         IN  u.insn = y.insn /\ u.id = y.id /\ u.pdst = y.pdst
  BY DEF Unmask, Renamed
<1>8. KeepsBundle
  <2>1. Len(dispatch') = Len(dispatch)
    BY ResolveCorrectLen
  <2>2. DOMAIN dispatch = 1 .. Len(dispatch) /\ \A k \in 1 .. Len(dispatch) : dispatch[k] \in Renamed
    BY LenProperties, ElementOfSeq DEF Rings, TypeOK
  <2>3. \A k \in 1 .. Len(dispatch) : dispatch'[k] = Unmask(dispatch[k], x.id)
    BY <1>1, <2>2
  <2> QED
    BY <1>7, <2>1, <2>2, <2>3 DEF KeepsBundle
<1>9. SameProgram
  BY <1>1, <1>5, <1>8, ProgramKept
<1>10. \A y \in backend \ {x} : /\ Unmask(y, x.id) \in backend'
                                /\ Unmask(y, x.id).al = y.al
                                /\ Unmask(y, x.id).id = y.id
                                /\ Unmask(y, x.id).stage = y.stage
                                /\ InsnOf(Unmask(y, x.id))' = InsnOf(y)
  BY <1>1, <1>3, <1>5, <1>6 DEF KeepsEntries, InsnOf
<1>11. \A u \in backend' : \E y \in backend \ {x} : u = Unmask(y, x.id)
  BY <1>1
<1>12. \A y, w \in backend : y.al = w.al => y = w
  BY DEF BackendInv, BackendIsActiveList
<1>13. BackendIsActiveList'
  <2>1. {y.al : y \in backend} = {s \in InFlight : ~al[s].completed}
    BY DEF BackendInv, BackendIsActiveList
  <2>2. {y.al : y \in backend'} = {y.al : y \in backend} \ {x.al}
    <3>1. ASSUME NEW u \in backend' PROVE u.al \in {y.al : y \in backend} \ {x.al}
      BY <1>10, <1>11, <1>12
    <3>2. ASSUME NEW y \in backend, y.al # x.al PROVE y.al \in {u.al : u \in backend'}
      BY <1>10, <3>2
    <3> QED
      BY <3>1, <3>2
  <2>3. {s \in InFlight' : ~al'[s].completed} = {s \in InFlight : ~al[s].completed} \ {x.al}
    BY <1>2, <1>4, <1>5
  <2>4. \A u, v \in backend' : u.al = v.al => u = v
    BY <1>10, <1>11, <1>12
  <2> QED
    BY <2>1, <2>2, <2>3, <2>4 DEF BackendIsActiveList
<1>14. \A u \in backend' : u.stage = "missed" => IsLoad(InsnOf(u)')
  BY <1>10, <1>11 DEF BackendInv
<1>15. \A s \in InFlight' : al'[s].insn.kind \in Kinds
  BY <1>2, <1>4, <1>5 DEF KeepsEntries, BackendInv
<1>16. bx \in Unresolved
  <2>1. LaneBranch(bx)
    BY <1>1 DEF LaneBranch
  <2> QED
    BY <2>1, UnresolvedIs
<1>17. \A b : BundleBranch(b)' <=> BundleBranch(b)
  BY <1>2, <1>8 DEF BundleBranch, KeepsBundle
<1>18. ~BundleBranch(bx)
  <2>1. Age(x.al) < Used /\ Age(x.al) \in Nat /\ Used \in Nat /\ Len(dispatch) \in Nat
    BY BackendFacts, UsedType, Sizes
  <2>2. ASSUME NEW k \in 1 .. Len(dispatch) PROVE bx # [at |-> Used + k, id |-> dispatch[k].id]
    BY <2>1
  <2> QED
    BY <2>2 DEF BundleBranch
<1>19. \A b : LaneBranch(b)' <=> LaneBranch(b) /\ b # bx
  <2> TAKE b
  <2>1. ASSUME LaneBranch(b)' PROVE LaneBranch(b) /\ b # bx
    <3>1. PICK u \in backend' : NeedsChk(InsnOf(u)') /\ b = [at |-> Age(u.al)' + 1, id |-> u.id]
      BY <2>1 DEF LaneBranch
    <3>2. PICK y \in backend \ {x} : u = Unmask(y, x.id)
      BY <1>11
    <3>3. NeedsChk(InsnOf(y)) /\ b = [at |-> Age(y.al) + 1, id |-> y.id]
      BY <1>2, <1>10, <3>1, <3>2
    <3>4. y.al # x.al
      BY <1>12, <3>2
    <3>5. Age(y.al) # Age(x.al)
      BY <3>2, <3>4, BackendFacts, Ages
    <3>6. Age(y.al) + 1 # Age(x.al) + 1
      BY <3>2, <3>5, BackendFacts
    <3>7. b.at = Age(y.al) + 1 /\ bx.at = Age(x.al) + 1
      BY <3>3
    <3> QED
      BY <3>2, <3>3, <3>6, <3>7 DEF LaneBranch
  <2>2. ASSUME LaneBranch(b), b # bx PROVE LaneBranch(b)'
    <3>1. PICK y \in backend : NeedsChk(InsnOf(y)) /\ b = [at |-> Age(y.al) + 1, id |-> y.id]
      BY <2>2 DEF LaneBranch
    <3>2. y \in backend \ {x}
      BY <2>2, <3>1
    <3> DEFINE u == Unmask(y, x.id)
    <3>3. u \in backend' /\ NeedsChk(InsnOf(u)') /\ b = [at |-> Age(u.al)' + 1, id |-> u.id]
      BY <1>2, <1>10, <3>1, <3>2
    <3> HIDE DEF u
    <3> QED
      BY <3>3 DEF LaneBranch
  <2> QED
    BY <2>1, <2>2
<1>20. \A b : b \in Unresolved' <=> b \in Unresolved /\ b # bx
  BY <1>17, <1>18, <1>19, UnresolvedIs, AfterStep
<1> HIDE DEF bx
<1>21. Unresolved' = Unresolved \ {bx}
  BY <1>20
<1> QED
  BY <1>2, <1>9, <1>13, <1>14, <1>15, <1>16, <1>21 DEF BackendInv, bx
-----------------------------------------------------------------------------
(* Renaming puts an instruction at the end of the program.                 *)

Renaming  == Head(rename2)
Allocated == IF HasDest(Renaming) THEN free.list[free.head] ELSE 0
LeastID   == IF NeedsChk(Renaming) THEN CHOOSE b \in FreeIDs : \A c \in FreeIDs : b <= c ELSE 0
NewEntry  == [insn |-> Renaming, psrc |-> RMT[Renaming.src], pdst |-> Allocated,
              mask |-> GBM, id |-> LeastID]

LEMMA RenamedInstruction ==
  ASSUME TypeInv, RenameOne
  PROVE  /\ Renaming \in Insn /\ Renaming.dst \in Log /\ LeastID \in BranchID
         /\ NeedsChk(Renaming) => LeastID \in FreeIDs
         /\ dispatch' = Append(dispatch, NewEntry)
         /\ Len(dispatch') = Len(dispatch) + 1
         /\ \A k \in 1 .. Len(dispatch) : dispatch'[k] = dispatch[k]
         /\ dispatch'[Len(dispatch) + 1] = NewEntry
<1>1. rename2 \in Seq(Insn) /\ rename2 # <<>> /\ dispatch \in Seq(Renamed)
  BY DEF RenameOne, TypeInv, TypeOK, LoopsHaveWork
<1>2. Renaming \in Insn
  BY <1>1, HeadTailProperties DEF Renaming
<1>3. NeedsChk(Renaming) => LeastID \in FreeIDs
  <2> SUFFICES ASSUME NeedsChk(Renaming) PROVE LeastID \in FreeIDs
    OBVIOUS
  <2>1. FreeIDs # {} /\ FreeIDs \subseteq Nat
    BY DEF RenameOne, FreeIDs, BranchID, Renaming
  <2>2. \E b \in FreeIDs : \A c \in FreeIDs : b <= c
    BY <2>1, LeastElement
  <2> QED
    BY <2>2 DEF LeastID
<1>4. LeastID \in BranchID
  BY <1>3, Sizes DEF LeastID, FreeIDs
<1>5. dispatch' = Append(dispatch, NewEntry)
  BY DEF RenameOne, NewEntry, Renaming, Allocated, LeastID
<1>6. TypeOK'
  BY RenameOneTypeInv DEF TypeInv
<1>7. dispatch' \in Seq(Renamed) /\ Len(dispatch) \in Nat
  BY <1>1, <1>6, LenProperties DEF TypeOK
<1>8. /\ Len(dispatch') = Len(dispatch) + 1
      /\ \A k \in 1 .. Len(dispatch) : dispatch'[k] = dispatch[k]
      /\ dispatch'[Len(dispatch) + 1] = NewEntry
  <2> HIDE DEF NewEntry
  <2> QED
    BY <1>1, <1>5, <1>7
<1> QED
  BY <1>2, <1>3, <1>4, <1>5, <1>8 DEF Insn

LEMMA RenameOneEffect ==
  ASSUME Rings, Rings', TypeInv, BackendInv, RenameOne
  PROVE  /\ Used' = Used /\ Total' = Total + 1 /\ \A s : Age(s)' = Age(s)
         /\ Follows(Program, Program', 0, Total)
         /\ Program'[Total + 1] = [insn |-> Renaming, pdst |-> Allocated]
         /\ Unresolved' = Unresolved \cup (IF NeedsChk(Renaming)
                                             THEN {[at |-> Total + 1, id |-> LeastID]} ELSE {})
         /\ BackendInv'
<1>1. UNCHANGED <<al, alHead, alTail, backend>>
  BY DEF RenameOne
<1>2. /\ Len(dispatch') = Len(dispatch) + 1
      /\ \A k \in 1 .. Len(dispatch) : dispatch'[k] = dispatch[k]
      /\ dispatch'[Len(dispatch) + 1] = NewEntry
  BY RenamedInstruction
<1>3. Used' = Used /\ InFlight' = InFlight /\ \A s : Age(s)' = Age(s)
  BY <1>1, SameList
<1>4. /\ Used \in Nat /\ Used <= ListSize /\ Len(dispatch) \in Nat
      /\ Total = Used + Len(dispatch) /\ Total' = Used' + Len(dispatch')
  BY UsedType, Sizes DEF Total
<1>5. BackendInv'
  BY <1>1, <1>3 DEF BackendInv, BackendIsActiveList, InsnOf
<1>6. ASSUME NEW k \in 1 .. Total PROVE Program'[k] = Program[k]
  <2>1. CASE k <= Used
    <3>1. k \in 1 .. Used /\ k \in 1 .. Used'
      BY <1>3, <1>4, <2>1
    <3> QED
      BY <1>1, <3>1, ProgramShape, AfterStep
  <2>2. CASE ~(k <= Used)
    <3> DEFINE j == k - Used
    <3>1. j \in 1 .. Len(dispatch) /\ j \in 1 .. Len(dispatch') /\ Used + j = k
      BY <1>2, <1>4, <2>2
    <3> HIDE DEF j
    <3>2. /\ Program[Used + j] = [insn |-> dispatch[j].insn, pdst |-> dispatch[j].pdst]
          /\ Program'[Used' + j] = [insn |-> dispatch'[j].insn, pdst |-> dispatch'[j].pdst]
      BY <3>1, ProgramShape, AfterStep
    <3> QED
      BY <1>2, <1>3, <3>1, <3>2
  <2> QED
    BY <2>1, <2>2
<1>7. Program'[Total + 1] = [insn |-> Renaming, pdst |-> Allocated]
  <2>1. Len(dispatch) + 1 \in 1 .. Len(dispatch') /\ Used' + (Len(dispatch) + 1) = Total + 1
    BY <1>2, <1>3, <1>4
  <2>2. Program'[Used' + (Len(dispatch) + 1)] =
          [insn |-> dispatch'[Len(dispatch) + 1].insn, pdst |-> dispatch'[Len(dispatch) + 1].pdst]
    BY <2>1, AfterStep
  <2> QED
    BY <1>2, <2>1, <2>2 DEF NewEntry
<1>8. \A b : LaneBranch(b)' <=> LaneBranch(b)
  BY <1>1, <1>3 DEF LaneBranch, InsnOf
<1>9. \A b : BundleBranch(b)' <=> \/ BundleBranch(b)
                                  \/ NeedsChk(Renaming) /\ b = [at |-> Total + 1, id |-> LeastID]
  <2> TAKE b
  <2> DEFINE n == Len(dispatch)
  <2>1. NewEntry.insn = Renaming /\ NewEntry.id = LeastID
    BY DEF NewEntry
  <2>2. BundleBranch(b)' <=> \E k \in 1 .. n + 1 : /\ NeedsChk(dispatch'[k].insn)
                                                   /\ b = [at |-> Used + k, id |-> dispatch'[k].id]
    BY <1>2, <1>3 DEF BundleBranch
  <2>3. BundleBranch(b) <=> \E k \in 1 .. n : /\ NeedsChk(dispatch'[k].insn)
                                              /\ b = [at |-> Used + k, id |-> dispatch'[k].id]
    BY <1>2 DEF BundleBranch
  <2>4. 1 .. n + 1 = (1 .. n) \cup {n + 1} /\ Used + (n + 1) = Total + 1
    BY <1>4
  <2> QED
    BY <1>2, <2>1, <2>2, <2>3, <2>4
<1>10. \A b : b \in Unresolved' <=> \/ b \in Unresolved
                                    \/ NeedsChk(Renaming) /\ b = [at |-> Total + 1, id |-> LeastID]
  BY <1>8, <1>9, UnresolvedIs, AfterStep
<1>11. Unresolved' = Unresolved \cup (IF NeedsChk(Renaming)
                                        THEN {[at |-> Total + 1, id |-> LeastID]} ELSE {})
  BY <1>10
<1> QED
  BY <1>2, <1>3, <1>4, <1>5, <1>6, <1>7, <1>11 DEF Follows
-----------------------------------------------------------------------------
(* Dispatching moves the oldest instruction of the bundle to the end of    *)
(* the Active List, where it has the same place in the program.            *)

LEMMA DispatchRing ==
  ASSUME Rings, Rings', Used < ListSize, DispatchOne, NEW s, s = DispatchSlot
  PROVE  /\ s \in Slot /\ s \notin InFlight
         /\ Used' = Used + 1 /\ alHead' \in Slot /\ (Used # 0 => alHead' = alHead)
         /\ Age(s)' = Used
         /\ InFlight' = InFlight \cup {s}
         /\ \A t \in InFlight : Age(t)' = Age(t)
         /\ Behind(alHead', Used) = s
<1>1. /\ alHead' = (IF alTail = -1 THEN 0 ELSE alHead)
      /\ alTail' = s /\ s = (IF alTail = -1 THEN 0 ELSE NextSlot(alTail))
  BY DEF DispatchOne, DispatchSlot
<1>2. /\ alHead \in {-1} \cup Slot /\ alTail \in {-1} \cup Slot
      /\ alHead = -1 <=> alTail = -1
      /\ Used \in Nat /\ (Used = 0 <=> alHead = -1)
  BY UsedType, Sizes DEF Rings, TypeOK, RingEnds
<1>3. s \in Slot /\ alHead' \in Slot
  BY <1>1, <1>2, Sizes, NextSlotType
<1>4. CASE alHead = -1
  <2>1. /\ alHead' = 0 /\ alTail' = 0 /\ s = 0 /\ Used = 0
        /\ InFlight = {} /\ s \notin InFlight
    BY <1>1, <1>2, <1>4 DEF InFlight
  <2>2. Used' = 1 /\ InFlight' = {0} /\ Age(s)' = 0 /\ Behind(alHead', 0) = 0
    BY <2>1, Sizes DEF Used, InFlight, Age, Behind
  <2> QED
    BY <1>3, <2>1, <2>2
<1>5. CASE alHead # -1
  <2>1. /\ alHead' = alHead /\ alTail' = s /\ s = NextSlot(alTail)
        /\ alHead \in Slot /\ alTail \in Slot
    BY <1>1, <1>2, <1>5
  <2>2. Used' = Used + 1 /\ Age(s) = Used
    BY <2>1, Sizes DEF Used, NextSlot, Slot, Age
  <2>3. Age(s)' = Used /\ \A t : Age(t)' = Age(t)
    BY <2>1, <2>2 DEF Age
  <2>4. \A t \in Slot : /\ t \in InFlight <=> Age(t) < Used
                        /\ Age(t) \in 0 .. ListSize - 1
                        /\ Behind(alHead, Age(t)) = t
    BY <1>5, Ages
  <2>5. \A t \in Slot : t \in InFlight' <=> Age(t) < Used + 1
    BY <1>5, <2>1, <2>2, <2>3, AfterStep
  <2>6. \A t \in Slot : Age(t) = Used => t = s
    BY <1>3, <2>2, <2>4
  <2>7. \A t \in Slot : t \in InFlight' <=> t \in InFlight \/ t = s
    BY <1>2, <1>3, <2>2, <2>4, <2>5, <2>6, Sizes
  <2>8. InFlight \subseteq Slot /\ InFlight' \subseteq Slot
    BY InFlightSlots, AfterStep
  <2>9. s \notin InFlight /\ Behind(alHead', Used) = s
    BY <1>2, <1>3, <2>1, <2>2, <2>4
  <2>10. InFlight' = InFlight \cup {s}
    BY <1>3, <2>7, <2>8
  <2> QED
    BY <1>3, <2>1, <2>2, <2>3, <2>8, <2>9, <2>10
<1> QED
  BY <1>4, <1>5

LEMMA DispatchedInstruction ==
  ASSUME Rings, DispatchOne, dispatch # <<>>
  PROVE  /\ Head(dispatch) \in Renamed /\ Head(dispatch) = dispatch[1]
         /\ dispatch' = Tail(dispatch) /\ Len(dispatch) \in Nat \ {0}
         /\ Len(dispatch') = Len(dispatch) - 1
         /\ \A k \in 1 .. Len(dispatch) - 1 : dispatch'[k] = dispatch[k + 1]
         /\ \A t \in Slot : t # DispatchSlot => al'[t] = al[t]
         /\ DispatchSlot \in Slot =>
              /\ al'[DispatchSlot].insn = Head(dispatch).insn
              /\ HasDest(Head(dispatch).insn) => al'[DispatchSlot].pdst = Head(dispatch).pdst
              /\ al'[DispatchSlot].completed = SkipsIQ(Head(dispatch).insn)
<1>1. dispatch \in Seq(Renamed) /\ al \in [Slot -> Entry] /\ dispatch' = Tail(dispatch)
  BY DEF Rings, TypeOK, DispatchOne
<1>2. /\ Head(dispatch) \in Renamed /\ Head(dispatch) = dispatch[1]
      /\ Len(dispatch) \in Nat \ {0}
      /\ Len(dispatch') = Len(dispatch) - 1
      /\ \A k \in 1 .. Len(dispatch) - 1 : dispatch'[k] = dispatch[k + 1]
  BY <1>1, HeadTailProperties, EmptySeq
<1>3. al' = [al EXCEPT ![DispatchSlot] =
              [insn |-> Head(dispatch).insn,
               pdst |-> IF HasDest(Head(dispatch).insn) THEN Head(dispatch).pdst ELSE @.pdst,
               completed |-> SkipsIQ(Head(dispatch).insn),
               exception |-> ExceptsAtDispatch(Head(dispatch).insn),
               load_violation |-> FALSE, a_value |-> 0]]
  BY DEF DispatchOne
<1> QED
  BY <1>1, <1>2, <1>3

LEMMA DispatchOneProgram ==
  ASSUME Rings, Rings', Used < ListSize, dispatch # <<>>, DispatchOne
  PROVE  Total' = Total /\ Follows(Program, Program', 0, Total)
<1> DEFINE s == DispatchSlot
           n == Len(dispatch)
           d == Head(dispatch)
<1>1. /\ s \in Slot /\ s \notin InFlight
      /\ Used' = Used + 1 /\ (Used # 0 => alHead' = alHead)
      /\ Behind(alHead', Used) = s
  BY DispatchRing
<1>2. /\ d = dispatch[1] /\ n \in Nat \ {0} /\ Len(dispatch') = n - 1
      /\ \A k \in 1 .. n - 1 : dispatch'[k] = dispatch[k + 1]
      /\ \A t \in Slot : t # s => al'[t] = al[t]
      /\ al'[s].insn = d.insn
      /\ HasDest(d.insn) => al'[s].pdst = d.pdst
  BY <1>1, DispatchedInstruction
<1>3. Used \in Nat /\ Used <= ListSize /\ Total = Used + n /\ Total' = Used' + (n - 1)
  BY <1>2, UsedType, Sizes DEF Total
<1>4. /\ Rings /\ alHead # -1 => \A c \in 0 .. ListSize - 1 : Behind(alHead, c) \in Slot /\ Age(Behind(alHead, c)) = c
      /\ alHead # -1 => \A t \in Slot : t \in InFlight <=> Age(t) < Used
      /\ Used # 0 => alHead # -1
  BY Ages, UsedType
<1>5. /\ \A k \in 1 .. Used : Program[k] = [insn |-> al[Behind(alHead, k - 1)].insn,
                                           pdst |-> al[Behind(alHead, k - 1)].pdst]
      /\ \A k \in 1 .. n : Program[Used + k] = [insn |-> dispatch[k].insn, pdst |-> dispatch[k].pdst]
  BY ProgramShape
<1>6. /\ \A k \in 1 .. Used + 1 : Program'[k] = [insn |-> al'[Behind(alHead', k - 1)].insn,
                                                pdst |-> al'[Behind(alHead', k - 1)].pdst]
      /\ \A k \in 1 .. n - 1 :
           Program'[(Used + 1) + k] = [insn |-> dispatch'[k].insn, pdst |-> dispatch'[k].pdst]
  BY <1>1, <1>2, AfterStep
<1> HIDE DEF s, n, d
<1>7. ASSUME NEW k \in 1 .. Total
      PROVE  /\ Program'[k].insn = Program[k].insn
             /\ HasDest(Program[k].insn) => Program'[k].pdst = Program[k].pdst
  <2>1. CASE k <= Used
    <3>1. k \in 1 .. Used /\ k \in 1 .. Used + 1 /\ alHead' = alHead /\ alHead # -1
      BY <1>1, <1>3, <1>4, <2>1
    <3> DEFINE t == Behind(alHead, k - 1)
    <3>2. k - 1 \in 0 .. ListSize - 1 /\ k - 1 < Used
      BY <1>3, <3>1, Sizes
    <3>3. t \in Slot /\ Age(t) = k - 1
      BY <1>4, <3>1, <3>2
    <3>4. t \in InFlight
      BY <1>4, <3>1, <3>2, <3>3
    <3>5. al'[t] = al[t]
      BY <1>1, <1>2, <3>3, <3>4
    <3>6. Program[k] = [insn |-> al[t].insn, pdst |-> al[t].pdst]
      BY <1>5, <3>1
    <3>7. Program'[k] = [insn |-> al'[t].insn, pdst |-> al'[t].pdst]
      BY <1>6, <3>1
    <3> HIDE DEF t
    <3> QED
      BY <3>5, <3>6, <3>7
  <2>2. CASE k = Used + 1
    <3>1. k \in 1 .. Used + 1 /\ k - 1 = Used /\ 1 \in 1 .. n
      BY <1>2, <1>3, <2>2
    <3>2. Program'[k] = [insn |-> al'[s].insn, pdst |-> al'[s].pdst]
      BY <1>1, <1>6, <3>1
    <3>3. Program[k] = [insn |-> d.insn, pdst |-> d.pdst]
      BY <1>2, <1>5, <2>2, <3>1
    <3> QED
      BY <1>2, <3>2, <3>3
  <2>3. CASE k > Used + 1
    <3> DEFINE j == k - Used - 1
    <3>1. /\ j \in 1 .. n - 1 /\ j + 1 \in 1 .. n
          /\ (Used + 1) + j = k /\ Used + (j + 1) = k
      <4>1. n \in Nat /\ Used \in Nat /\ k \in 1 .. Used + n
        BY <1>2, <1>3
      <4> QED
        BY <2>3, <4>1
    <3> HIDE DEF j
    <3>2. Program'[k] = [insn |-> dispatch'[j].insn, pdst |-> dispatch'[j].pdst]
      BY <1>6, <3>1
    <3>3. Program[k] = [insn |-> dispatch[j + 1].insn, pdst |-> dispatch[j + 1].pdst]
      BY <1>5, <3>1
    <3> QED
      BY <1>2, <3>1, <3>2, <3>3
  <2> QED
    BY <1>3, <2>1, <2>2, <2>3
<1>8. Total' = Total
  BY <1>1, <1>2, <1>3
<1>9. \A k \in 1 .. Total : k + 0 = k
  BY <1>3
<1> QED
  BY <1>7, <1>8, <1>9 DEF Follows

LEMMA DispatchOneEffect ==
  ASSUME Rings, Rings', BackendInv, Used < ListSize, dispatch # <<>>, DispatchOne
  PROVE  BackendInv' /\ Unresolved' = Unresolved
<1> DEFINE n == Len(dispatch)
<1>0. PICK s : s = DispatchSlot
  OBVIOUS
<1>1. PICK d : d = Head(dispatch)
  OBVIOUS
<1>2. /\ s \in Slot /\ s \notin InFlight
      /\ Used' = Used + 1 /\ Age(s)' = Used
      /\ InFlight' = InFlight \cup {s}
      /\ \A t \in InFlight : Age(t)' = Age(t)
  BY <1>0, DispatchRing
<1>3. /\ d \in Renamed /\ d = dispatch[1] /\ n \in Nat \ {0} /\ Len(dispatch') = n - 1
      /\ \A k \in 1 .. n - 1 : dispatch'[k] = dispatch[k + 1]
      /\ \A t \in Slot : t # s => al'[t] = al[t]
      /\ al'[s].insn = d.insn /\ al'[s].completed = SkipsIQ(d.insn)
  BY <1>0, <1>1, <1>2, DispatchedInstruction
<1> DEFINE z == [al |-> s, psrc |-> d.psrc, mask |-> d.mask, id |-> d.id, stage |-> "queued"]
<1>4. backend' = IF SkipsIQ(d.insn) THEN backend ELSE backend \cup {z}
  BY <1>0, <1>1 DEF DispatchOne
<1>5. z.al = s /\ z.id = d.id /\ z.stage = "queued"
  OBVIOUS
<1>6. Used \in Nat /\ InFlight \subseteq Slot
  BY UsedType, InFlightSlots, Sizes
<1>7. \A y \in backend : /\ y.al \in InFlight /\ y.al # s
                         /\ InsnOf(y)' = InsnOf(y) /\ Age(y.al)' = Age(y.al)
  <2> TAKE y \in backend
  <2>1. y.al \in InFlight
    BY BackendFacts
  <2> QED
    BY <1>2, <1>3, <1>6, <2>1 DEF InsnOf
<1>8. InsnOf(z)' = d.insn
  BY <1>3 DEF InsnOf
<1> HIDE DEF z, n
<1>9. BackendIsActiveList'
  <2>1. {y.al : y \in backend} = {t \in InFlight : ~al[t].completed}
    BY DEF BackendInv, BackendIsActiveList
  <2>2. {t \in InFlight' : ~al'[t].completed} =
          {t \in InFlight : ~al[t].completed} \cup (IF SkipsIQ(d.insn) THEN {} ELSE {s})
    BY <1>2, <1>3, <1>6
  <2>3. {y.al : y \in backend'} = {y.al : y \in backend} \cup (IF SkipsIQ(d.insn) THEN {} ELSE {s})
    BY <1>4, <1>5
  <2>4. \A y, w \in backend' : y.al = w.al => y = w
    BY <1>4, <1>5, <1>7 DEF BackendInv, BackendIsActiveList
  <2> QED
    BY <2>1, <2>2, <2>3, <2>4 DEF BackendIsActiveList
<1>10. \A y \in backend' : y.stage = "missed" => IsLoad(InsnOf(y)')
  BY <1>4, <1>5, <1>7 DEF BackendInv
<1>11. \A t \in InFlight' : al'[t].insn.kind \in Kinds
  <2>1. d.insn.kind \in Kinds
    BY <1>3 DEF Renamed, Insn
  <2> QED
    BY <1>2, <1>3, <1>6, <2>1 DEF BackendInv
<1>12. \A b : LaneBranch(b)' <=> \/ LaneBranch(b)
                                 \/ NeedsChk(d.insn) /\ b = [at |-> Used + 1, id |-> d.id]
  <2> TAKE b
  <2>1. NeedsChk(d.insn) => ~SkipsIQ(d.insn)
    BY DEF NeedsChk, SkipsIQ
  <2>2. LaneBranch(b)' <=> \E y \in backend' : NeedsChk(InsnOf(y)') /\ b = [at |-> Age(y.al)' + 1, id |-> y.id]
    BY DEF LaneBranch
  <2>3. [at |-> Age(z.al)' + 1, id |-> z.id] = [at |-> Used + 1, id |-> d.id]
    BY <1>2, <1>5
  <2>4. (\E y \in backend : NeedsChk(InsnOf(y)') /\ b = [at |-> Age(y.al)' + 1, id |-> y.id]) <=> LaneBranch(b)
    BY <1>7 DEF LaneBranch
  <2>5. CASE SkipsIQ(d.insn)
    <3>1. backend' = backend /\ ~NeedsChk(d.insn)
      BY <1>4, <2>1, <2>5
    <3> QED
      BY <2>2, <2>4, <3>1
  <2>6. CASE ~SkipsIQ(d.insn)
    <3>1. backend' = backend \cup {z}
      BY <1>4, <2>6
    <3> QED
      BY <1>8, <2>2, <2>3, <2>4, <3>1
  <2> QED
    BY <2>5, <2>6
<1>13. \A b : BundleBranch(b) <=> \/ BundleBranch(b)'
                                  \/ NeedsChk(d.insn) /\ b = [at |-> Used + 1, id |-> d.id]
  <2> TAKE b
  <2> DEFINE F(k) == NeedsChk(dispatch[k].insn) /\ b = [at |-> Used + k, id |-> dispatch[k].id]
  <2>1. BundleBranch(b) <=> \E k \in 1 .. n : F(k)
    BY DEF BundleBranch, n
  <2>2. BundleBranch(b)' <=> \E k \in 1 .. n - 1 : F(k + 1)
    <3>1. BundleBranch(b)' <=> \E k \in 1 .. n - 1 : /\ NeedsChk(dispatch'[k].insn)
                                                     /\ b = [at |-> Used' + k, id |-> dispatch'[k].id]
      BY <1>3 DEF BundleBranch
    <3>2. \A k \in 1 .. n - 1 : Used' + k = Used + (k + 1)
      BY <1>2, <1>3, <1>6
    <3> QED
      BY <1>3, <3>1, <3>2
  <2>3. F(1) <=> NeedsChk(d.insn) /\ b = [at |-> Used + 1, id |-> d.id]
    BY <1>3
  <2> HIDE DEF F
  <2>4. (\E k \in 1 .. n : F(k)) <=> F(1) \/ \E k \in 1 .. n - 1 : F(k + 1)
    <3>1. ASSUME NEW k \in 1 .. n, F(k), k # 1 PROVE \E j \in 1 .. n - 1 : F(j + 1)
      <4>1. k - 1 \in 1 .. n - 1 /\ (k - 1) + 1 = k
        BY <1>3, <3>1
      <4> QED
        BY <3>1, <4>1
    <3>2. \A k \in 1 .. n - 1 : k + 1 \in 1 .. n
      BY <1>3
    <3>3. 1 \in 1 .. n
      BY <1>3
    <3> QED
      BY <3>1, <3>2, <3>3
  <2> QED
    BY <2>1, <2>2, <2>3, <2>4
<1>14. Unresolved' = Unresolved
  BY <1>12, <1>13, UnresolvedIs, AfterStep
<1> QED
  BY <1>9, <1>10, <1>11, <1>14 DEF BackendInv
-----------------------------------------------------------------------------
(* Recovery from a mispredicted branch x cuts the program after it.  The   *)
(* branch masks say which instructions are younger.                        *)

LEMMA MispredictRing ==
  ASSUME Rings, Rings', BackendInv, NEW x \in backend, ResolveMispredict(x)
  PROVE  /\ Used' = Age(x.al) + 1 /\ Total' = Age(x.al) + 1 /\ Age(x.al) + 1 <= Total
         /\ Age(x.al) \in Nat /\ Age(x.al) < Used
         /\ \A s : Age(s)' = Age(s)
         /\ \A s \in Slot : s \in InFlight' <=> Age(s) <= Age(x.al)
         /\ alHead # -1 /\ alHead' = alHead
<1>1. alHead' = alHead /\ alTail' = x.al /\ dispatch' = <<>>
  BY DEF ResolveMispredict
<1>2. /\ x.al \in Slot /\ alHead # -1 /\ Age(x.al) \in 0 .. ListSize - 1 /\ Age(x.al) < Used
      /\ alHead \in Slot
  BY BackendFacts, UsedType
<1>3. Used' = Age(x.al) + 1
  BY <1>1, <1>2, Sizes DEF Used, Age, Slot
<1>4. \A s : Age(s)' = Age(s)
  BY <1>1 DEF Age
<1>5. \A s \in Slot : s \in InFlight' <=> Age(s) < Age(x.al) + 1
  BY <1>1, <1>2, <1>3, <1>4, AfterStep
<1>6. \A s \in Slot : Age(s) \in Int
  BY <1>2, Ages
<1>7. Total' = Age(x.al) + 1
  <2>1. Len(dispatch') = 0
    BY <1>1
  <2> QED
    BY <1>2, <1>3, <2>1 DEF Total
<1>8. Age(x.al) + 1 <= Total
  BY <1>2, UsedType, Sizes DEF Total
<1>9. \A s \in Slot : s \in InFlight' <=> Age(s) <= Age(x.al)
  BY <1>2, <1>5, <1>6
<1> QED
  BY <1>1, <1>2, <1>3, <1>4, <1>7, <1>8, <1>9, Sizes

LEMMA ResolveMispredictEffect ==
  ASSUME Rings, Rings', BackendInv, NEW x \in backend, ResolveMispredict(x),
         \A y \in backend : x.id \notin y.mask <=> Age(y.al) <= Age(x.al)
  PROVE  /\ Follows(Program, Program', 0, Age(x.al) + 1)
         /\ BackendInv'
         /\ [at |-> Age(x.al) + 1, id |-> x.id] \in Unresolved
         /\ Unresolved' = {b \in Unresolved : b.at < Age(x.al) + 1}
<1> DEFINE a == Age(x.al)
<1>1. /\ Used' = a + 1 /\ Total' = a + 1 /\ a + 1 <= Total /\ a \in Nat /\ a < Used
      /\ \A s : Age(s)' = Age(s)
      /\ \A s \in Slot : s \in InFlight' <=> Age(s) <= a
      /\ alHead # -1 /\ alHead' = alHead
  BY MispredictRing
<1>2. /\ backend' = {y \in backend \ {x} : x.id \notin y.mask}
      /\ dispatch' = <<>> /\ Complete(x) /\ NeedsChk(InsnOf(x))
  BY DEF ResolveMispredict, Survivors
<1>3. /\ al \in [Slot -> Entry] /\ InFlight \subseteq Slot /\ InFlight' \subseteq Slot
      /\ Used \in Nat /\ Used <= ListSize /\ Len(dispatch) \in Nat
  <2>1. al \in [Slot -> Entry]
    BY DEF Rings, TypeOK
  <2>2. InFlight \subseteq Slot /\ InFlight' \subseteq Slot
    BY InFlightSlots, AfterStep
  <2>3. Used \in Nat /\ Used <= ListSize /\ Len(dispatch) \in Nat
    BY UsedType, Sizes
  <2> QED
    BY <2>1, <2>2, <2>3
<1>4. \A y \in backend : /\ y.al \in Slot /\ y.al \in InFlight
                         /\ Age(y.al) \in Nat /\ y.id \in BranchID
  BY BackendFacts
<1>5. /\ KeepsEntries
      /\ \A s \in Slot : al'[s].completed = IF s = x.al THEN TRUE ELSE al[s].completed
  BY <1>2, <1>3, <1>4 DEF Complete, KeepsEntries, Entry
<1>6. \A y \in backend : InsnOf(y)' = InsnOf(y)
  BY <1>4, <1>5 DEF KeepsEntries, InsnOf
<1>7. \A s \in Slot : /\ Age(s) \in Nat /\ (s \in InFlight <=> Age(s) < Used)
                      /\ Behind(alHead, Age(s)) = s
  BY <1>1, Ages
<1>8. \A c \in 0 .. ListSize - 1 : Behind(alHead, c) \in Slot
  BY <1>1, Ages
<1> HIDE DEF a
<1>9. \A y \in backend : y \in backend' <=> y # x /\ Age(y.al) <= a
  BY <1>2 DEF a
<1>10. \A y, w \in backend : y.al = w.al => y = w
  BY DEF BackendInv, BackendIsActiveList
<1>11. Follows(Program, Program', 0, a + 1)
  <2>1. ASSUME NEW k \in 1 .. a + 1
        PROVE  /\ Program'[k].insn = Program[k].insn
               /\ Program'[k].pdst = Program[k].pdst
    <3> DEFINE t == Behind(alHead, k - 1)
    <3>1. k \in 1 .. Used /\ k \in 1 .. Used' /\ k - 1 \in 0 .. ListSize - 1
      BY <1>1, <1>3, Sizes
    <3>2. t \in Slot
      BY <1>8, <3>1
    <3>3. /\ Program[k] = [insn |-> al[t].insn, pdst |-> al[t].pdst]
          /\ Program'[k] = [insn |-> al'[t].insn, pdst |-> al'[t].pdst]
      BY <1>1, <3>1, ProgramShape, AfterStep
    <3> QED
      BY <1>5, <3>2, <3>3 DEF KeepsEntries
  <2>2. \A k \in 1 .. a + 1 : k + 0 = k
    BY <1>1
  <2> QED
    BY <2>1, <2>2 DEF Follows
<1>12. BackendIsActiveList'
  <2>1. {y.al : y \in backend} = {s \in InFlight : ~al[s].completed}
    BY DEF BackendInv, BackendIsActiveList
  <2>2. ASSUME NEW y \in backend' PROVE y.al \in {s \in InFlight' : ~al'[s].completed}
    <3>1. y \in backend /\ y # x /\ Age(y.al) <= a /\ y.al # x.al
      BY <1>2, <1>9, <1>10, <2>2
    <3>2. ~al[y.al].completed
      BY <2>1, <3>1
    <3> QED
      BY <1>1, <1>4, <1>5, <3>1, <3>2
  <2>3. ASSUME NEW s \in InFlight', ~al'[s].completed PROVE s \in {y.al : y \in backend'}
    <3>1. s \in Slot /\ Age(s) <= a /\ s # x.al /\ ~al[s].completed
      BY <1>1, <1>3, <1>5, <2>3
    <3>2. s \in InFlight
      BY <1>1, <1>3, <1>7, <3>1
    <3>3. PICK y \in backend : y.al = s
      BY <2>1, <3>1, <3>2
    <3> QED
      BY <1>9, <3>1, <3>3
  <2>4. \A y, w \in backend' : y.al = w.al => y = w
    BY <1>2, <1>10
  <2> QED
    BY <2>2, <2>3, <2>4 DEF BackendIsActiveList
<1>13. \A y \in backend' : y.stage = "missed" => IsLoad(InsnOf(y)')
  BY <1>2, <1>6 DEF BackendInv
<1>14. \A s \in InFlight' : al'[s].insn.kind \in Kinds
  <2> TAKE s \in InFlight'
  <2>1. s \in Slot /\ Age(s) < Used
    BY <1>1, <1>3, <1>7
  <2>2. s \in InFlight
    BY <1>7, <2>1
  <2> QED
    BY <1>5, <2>1, <2>2 DEF BackendInv, KeepsEntries
<1>15. [at |-> a + 1, id |-> x.id] \in Unresolved
  <2>1. LaneBranch([at |-> a + 1, id |-> x.id])
    BY <1>2 DEF LaneBranch, a
  <2> QED
    BY <2>1, UnresolvedIs
<1>16. \A b : ~BundleBranch(b)'
  BY <1>2 DEF BundleBranch
<1>17. \A b : BundleBranch(b) => ~(b.at < a + 1)
  <2> SUFFICES ASSUME NEW b, BundleBranch(b) PROVE ~(b.at < a + 1)
    OBVIOUS
  <2>1. PICK k \in 1 .. Len(dispatch) : b = [at |-> Used + k, id |-> dispatch[k].id]
    BY DEF BundleBranch
  <2>2. b.at = Used + k
    BY <2>1
  <2> QED
    BY <1>1, <1>3, <2>2
<1>18. \A b : LaneBranch(b)' <=> LaneBranch(b) /\ b.at < a + 1
  <2> TAKE b
  <2>1. ASSUME LaneBranch(b)' PROVE LaneBranch(b) /\ b.at < a + 1
    <3>1. PICK y \in backend' : NeedsChk(InsnOf(y)') /\ b = [at |-> Age(y.al)' + 1, id |-> y.id]
      BY <2>1 DEF LaneBranch
    <3>2. y \in backend /\ y # x /\ Age(y.al) <= a
      BY <1>2, <1>9
    <3>3. NeedsChk(InsnOf(y)) /\ b = [at |-> Age(y.al) + 1, id |-> y.id]
      BY <1>1, <1>6, <3>1, <3>2
    <3>4. Age(y.al) # a
      BY <1>4, <1>7, <1>10, <3>2 DEF a
    <3>5. Age(y.al) + 1 < a + 1
      BY <1>1, <1>4, <3>2, <3>4
    <3>6. b.at = Age(y.al) + 1
      BY <3>3
    <3> QED
      BY <3>2, <3>3, <3>5, <3>6 DEF LaneBranch
  <2>2. ASSUME LaneBranch(b), b.at < a + 1 PROVE LaneBranch(b)'
    <3>1. PICK y \in backend : NeedsChk(InsnOf(y)) /\ b = [at |-> Age(y.al) + 1, id |-> y.id]
      BY <2>2 DEF LaneBranch
    <3>2. b.at = Age(y.al) + 1
      BY <3>1
    <3>3. Age(y.al) <= a /\ y # x
      BY <1>1, <1>4, <2>2, <3>2 DEF a
    <3>4. y \in backend'
      BY <1>9, <3>3
    <3>5. NeedsChk(InsnOf(y)') /\ b = [at |-> Age(y.al)' + 1, id |-> y.id]
      BY <1>1, <1>6, <3>1
    <3> QED
      BY <3>4, <3>5 DEF LaneBranch
  <2> QED
    BY <2>1, <2>2
<1>19. \A b : b \in Unresolved' <=> b \in Unresolved /\ b.at < a + 1
  BY <1>16, <1>17, <1>18, UnresolvedIs, AfterStep
<1>20. Unresolved' = {b \in Unresolved : b.at < a + 1}
  BY <1>19
<1> QED
  BY <1>11, <1>12, <1>13, <1>14, <1>15, <1>20 DEF BackendInv, a
-----------------------------------------------------------------------------
(* Retiring the head takes the oldest instruction off the program.         *)

LEMMA RetireRing ==
  ASSUME Rings, Rings', alHead # -1, AdvanceHead
  PROVE  /\ Used \in Nat \ {0} /\ Used' = Used - 1
         /\ alHead \in InFlight /\ alHead \in Slot
         /\ InFlight' = InFlight \ {alHead}
         /\ \A t \in InFlight : t # alHead => Age(t) \in Nat \ {0} /\ Age(t)' = Age(t) - 1
         /\ Used > 1 => alHead' = NextSlot(alHead) /\ alHead' # -1
<1>1. /\ alHead \in Slot /\ alTail \in Slot /\ Used \in Nat \ {0}
      /\ alTail = Behind(alHead, Used - 1) /\ Used \in 0 .. ListSize
  BY UsedType, Sizes
<1>2. \A t \in Slot : /\ Age(t) \in 0 .. ListSize - 1 /\ (t \in InFlight <=> Age(t) < Used)
                      /\ Behind(alHead, Age(t)) = t
  BY Ages
<1>3. Age(alHead) = 0 /\ alHead \in InFlight
  <2>1. Age(alHead) = 0
    BY <1>1, Sizes DEF Age, Slot
  <2> QED
    BY <1>1, <1>2, <2>1
<1>4. InFlight \subseteq Slot /\ InFlight' \subseteq Slot
  BY InFlightSlots, AfterStep
<1>5. CASE alHead = alTail
  <2>1. alHead' = -1 /\ alTail' = -1
    BY <1>5 DEF AdvanceHead
  <2>2. Used = 1 /\ Used' = 0 /\ InFlight' = {} /\ InFlight = {alHead}
    BY <1>1, <1>5, <2>1, Sizes DEF Used, InFlight, Slot
  <2> QED
    BY <1>1, <1>3, <2>2
<1>6. CASE alHead # alTail
  <2>1. alHead' = NextSlot(alHead) /\ alTail' = alTail
    BY <1>6 DEF AdvanceHead
  <2>2. alHead' \in Slot /\ alHead' # -1
    BY <1>1, <2>1, NextSlotType, Sizes
  <2>3. Used' = Used - 1
    BY <1>1, <1>6, <2>1, Sizes DEF Used, NextSlot, Slot
  <2>4. \A t \in Slot : t # alHead => Age(t) \in Nat \ {0} /\ Age(t)' = Age(t) - 1
    BY <1>1, <2>1, Sizes DEF Age, NextSlot, Slot
  <2>5. \A t \in Slot : t \in InFlight' <=> Age(t)' < Used - 1
    BY <2>2, <2>3, AfterStep
  <2>6. alHead \notin InFlight'
    <3>1. \A h : h = alHead => Age(h)' = ListSize - 1
      BY <1>1, <2>1, Sizes DEF Age, NextSlot, Slot
    <3>2. ~(ListSize - 1 < Used - 1)
      BY <1>1, Sizes
    <3>3. \A h \in Slot : h = alHead => h \notin InFlight'
      BY <2>5, <3>1, <3>2
    <3> QED
      BY <1>1, <3>3
  <2>8. \A t \in Slot : t # alHead => (t \in InFlight' <=> t \in InFlight)
    BY <1>1, <1>2, <2>4, <2>5
  <2>9. InFlight' = InFlight \ {alHead}
    BY <1>4, <2>6, <2>8
  <2> QED
    BY <1>1, <1>3, <1>4, <2>1, <2>2, <2>3, <2>4, <2>9
<1> QED
  BY <1>5, <1>6

LEMMA RetireCommitEffect ==
  ASSUME Rings, Rings', BackendInv, HeadCompleted, AdvanceHead,
         UNCHANGED <<al, dispatch, backend>>
  PROVE  /\ Used \in Nat \ {0} /\ Used' = Used - 1 /\ Total' = Total - 1
         /\ Program[1].insn = HeadOf.insn /\ Program[1].pdst = HeadOf.pdst
         /\ Follows(Program, Program', 1, Total - 1)
         /\ BackendInv'
         /\ \A y \in backend : Age(y.al)' = Age(y.al) - 1
         /\ \A b \in Unresolved : b.at \in 2 .. Total
         /\ Unresolved' = {[at |-> b.at - 1, id |-> b.id] : b \in Unresolved}
<1>1. alHead # -1 /\ HeadOf.completed
  BY DEF HeadCompleted
<1>2. /\ Used \in Nat \ {0} /\ Used' = Used - 1
      /\ alHead \in InFlight /\ alHead \in Slot
      /\ InFlight' = InFlight \ {alHead}
      /\ \A t \in InFlight : t # alHead => Age(t) \in Nat \ {0} /\ Age(t)' = Age(t) - 1
      /\ Used > 1 => alHead' = NextSlot(alHead) /\ alHead' # -1
  BY <1>1, RetireRing
<1>3. /\ Used <= ListSize /\ Len(dispatch) \in Nat /\ Total = Used + Len(dispatch)
      /\ Total' = Total - 1 /\ Total \in Nat
  BY <1>2, UsedType, Sizes DEF Total
<1>4. \A y \in backend : /\ y.al \in InFlight /\ y.al # alHead
                         /\ Age(y.al) \in Nat \ {0} /\ Age(y.al)' = Age(y.al) - 1
                         /\ Age(y.al) < Used /\ y.id \in BranchID
  <2> TAKE y \in backend
  <2>1. y.al \in InFlight /\ ~al[y.al].completed /\ Age(y.al) < Used /\ y.id \in BranchID
    BY BackendFacts
  <2>2. y.al # alHead
    BY <1>1, <2>1 DEF HeadOf
  <2> QED
    BY <1>2, <2>1, <2>2
<1>5. \A y : InsnOf(y)' = InsnOf(y)
  BY DEF InsnOf
<1>6. \A k \in 1 .. Used : Program[k] = [insn |-> al[Behind(alHead, k - 1)].insn,
                                        pdst |-> al[Behind(alHead, k - 1)].pdst]
  BY ProgramShape
<1>7. Program[1].insn = HeadOf.insn /\ Program[1].pdst = HeadOf.pdst
  <2>1. 1 \in 1 .. Used /\ 1 - 1 = 0 /\ Behind(alHead, 0) = alHead
    BY <1>2, BehindFirst
  <2>2. Program[1] = [insn |-> al[Behind(alHead, 1 - 1)].insn,
                      pdst |-> al[Behind(alHead, 1 - 1)].pdst]
    BY <1>6, <2>1
  <2>3. Program[1] = [insn |-> al[alHead].insn, pdst |-> al[alHead].pdst]
    BY <2>1, <2>2
  <2> QED
    BY <2>3 DEF HeadOf
<1>8. Follows(Program, Program', 1, Total - 1)
  <2>1. ASSUME NEW k \in 1 .. Total - 1
        PROVE  Program'[k].insn = Program[k + 1].insn /\ Program'[k].pdst = Program[k + 1].pdst
    <3>1. CASE k <= Used - 1
      <4>1. k \in 1 .. Used' /\ k + 1 \in 1 .. Used /\ (k + 1) - 1 = k /\ Used > 1
        BY <1>2, <1>3, <3>1
      <4>2. Behind(alHead', k - 1) = Behind(alHead, k)
        <5>1. alHead' = NextSlot(alHead) /\ k - 1 \in 0 .. ListSize - 1 /\ (k - 1) + 1 = k
          BY <1>2, <1>3, <4>1, Sizes
        <5> QED
          BY <1>2, <5>1, BehindNext
      <4>3. Program'[k] = [insn |-> al'[Behind(alHead', k - 1)].insn,
                           pdst |-> al'[Behind(alHead', k - 1)].pdst]
        BY <4>1, AfterStep
      <4>4. Program[k + 1] = [insn |-> al[Behind(alHead, k)].insn,
                              pdst |-> al[Behind(alHead, k)].pdst]
        BY <1>6, <4>1
      <4> QED
        BY <4>2, <4>3, <4>4
    <3>2. CASE ~(k <= Used - 1)
      <4> DEFINE j == k - (Used - 1)
      <4>1. /\ j \in 1 .. Len(dispatch) /\ j \in 1 .. Len(dispatch')
            /\ Used' + j = k /\ Used + j = k + 1
        BY <1>2, <1>3, <3>2
      <4> HIDE DEF j
      <4>2. /\ Program[Used + j] = [insn |-> dispatch[j].insn, pdst |-> dispatch[j].pdst]
            /\ Program'[Used' + j] = [insn |-> dispatch'[j].insn, pdst |-> dispatch'[j].pdst]
        BY <4>1, ProgramShape, AfterStep
      <4> QED
        BY <4>1, <4>2
    <3> QED
      BY <3>1, <3>2
  <2> QED
    BY <2>1 DEF Follows
<1>9. BackendIsActiveList'
  <2>1. {y.al : y \in backend} = {t \in InFlight : ~al[t].completed}
    BY DEF BackendInv, BackendIsActiveList
  <2>2. {t \in InFlight' : ~al'[t].completed} = {t \in InFlight : ~al[t].completed}
    BY <1>1, <1>2 DEF HeadOf
  <2> QED
    BY <2>1, <2>2 DEF BackendInv, BackendIsActiveList
<1>10. BackendInv'
  BY <1>2, <1>5, <1>9 DEF BackendInv
<1>11. \A b \in Unresolved : b.at \in 2 .. Total
  <2> TAKE b \in Unresolved
  <2>1. CASE LaneBranch(b)
    <3>1. PICK y \in backend : b = [at |-> Age(y.al) + 1, id |-> y.id]
      BY <2>1 DEF LaneBranch
    <3>2. b.at = Age(y.al) + 1
      BY <3>1
    <3> QED
      BY <1>3, <1>4, <1>2, <3>2
  <2>2. CASE BundleBranch(b)
    <3>1. PICK k \in 1 .. Len(dispatch) : b = [at |-> Used + k, id |-> dispatch[k].id]
      BY <2>2 DEF BundleBranch
    <3>2. b.at = Used + k
      BY <3>1
    <3> QED
      BY <1>2, <1>3, <3>2
  <2> QED
    BY <2>1, <2>2, UnresolvedIs
<1> DEFINE Earlier(b) == [at |-> b.at - 1, id |-> b.id]
<1>12. ASSUME NEW c, c \in Unresolved' PROVE \E b \in Unresolved : c = Earlier(b)
  <2>1. CASE LaneBranch(c)'
    <3>1. PICK y \in backend : NeedsChk(InsnOf(y)) /\ c = [at |-> Age(y.al)' + 1, id |-> y.id]
      BY <1>5, <2>1 DEF LaneBranch
    <3> DEFINE b == [at |-> Age(y.al) + 1, id |-> y.id]
    <3>2. b \in Unresolved
      BY <3>1, UnresolvedIs DEF LaneBranch
    <3>3. (Age(y.al) - 1) + 1 = (Age(y.al) + 1) - 1
      BY <1>4
    <3>4. c = Earlier(b)
      BY <1>4, <3>1, <3>3
    <3> QED
      BY <3>2, <3>4
  <2>2. CASE BundleBranch(c)'
    <3>1. PICK k \in 1 .. Len(dispatch) :
            NeedsChk(dispatch[k].insn) /\ c = [at |-> Used' + k, id |-> dispatch[k].id]
      BY <2>2 DEF BundleBranch
    <3> DEFINE b == [at |-> Used + k, id |-> dispatch[k].id]
    <3>2. b \in Unresolved
      BY <3>1, UnresolvedIs DEF BundleBranch
    <3>3. Used' + k = (Used + k) - 1
      BY <1>2
    <3>4. c = Earlier(b)
      BY <3>1, <3>3
    <3> QED
      BY <3>2, <3>4
  <2> QED
    BY <1>12, <2>1, <2>2, AfterStep
<1>13. ASSUME NEW b \in Unresolved PROVE Earlier(b) \in Unresolved'
  <2>1. CASE LaneBranch(b)
    <3>1. PICK y \in backend : NeedsChk(InsnOf(y)) /\ b = [at |-> Age(y.al) + 1, id |-> y.id]
      BY <2>1 DEF LaneBranch
    <3>2. (Age(y.al) - 1) + 1 = (Age(y.al) + 1) - 1
      BY <1>4
    <3>3. Earlier(b) = [at |-> Age(y.al)' + 1, id |-> y.id]
      BY <1>4, <3>1, <3>2
    <3>4. LaneBranch(Earlier(b))'
      BY <1>5, <3>1, <3>3 DEF LaneBranch
    <3> QED
      BY <3>4, AfterStep
  <2>2. CASE BundleBranch(b)
    <3>1. PICK k \in 1 .. Len(dispatch) :
            NeedsChk(dispatch[k].insn) /\ b = [at |-> Used + k, id |-> dispatch[k].id]
      BY <2>2 DEF BundleBranch
    <3>2. Used' + k = (Used + k) - 1
      BY <1>2
    <3>3. Earlier(b) = [at |-> Used' + k, id |-> dispatch'[k].id]
      BY <3>1, <3>2
    <3>4. BundleBranch(Earlier(b))'
      BY <3>1, <3>3 DEF BundleBranch
    <3> QED
      BY <3>4, AfterStep
  <2> QED
    BY <2>1, <2>2, UnresolvedIs
<1>14. Unresolved' = {Earlier(b) : b \in Unresolved}
  <2> HIDE DEF Earlier
  <2> QED
    BY <1>12, <1>13
<1> QED
  BY <1>2, <1>3, <1>4, <1>7, <1>8, <1>10, <1>11, <1>14

(* Squashing the pipeline leaves no program.                               *)
LEMMA SquashEffect ==
  ASSUME Rings', alHead' = -1, dispatch' = <<>>, backend' = {}
  PROVE  Used' = 0 /\ Total' = 0 /\ Unresolved' = {} /\ BackendInv'
<1>1. Used' = 0 /\ Len(dispatch') = 0 /\ Total' = 0
  BY DEF Used, Total
<1>2. InFlight' = {}
  BY DEF InFlight
<1>3. BackendInv'
  BY <1>2 DEF BackendInv, BackendIsActiveList
<1>4. \A b : ~LaneBranch(b)' /\ ~BundleBranch(b)'
  BY <1>1 DEF LaneBranch, BundleBranch
<1> QED
  BY <1>1, <1>3, <1>4, AfterStep

(* Both ends of the Active List say that it is empty, or neither does.     *)
LEMMA RingEndsKept ==
  ASSUME TypeInv, RingEnds, BackendInv, [Next]_vars
  PROVE  RingEnds'
<1>1. Rings /\ alHead \in {-1} \cup Slot /\ alTail \in {-1} \cup Slot
  BY DEF Rings, TypeInv, TypeOK
<1>2. CASE UNCHANGED <<alHead, alTail>>
  BY <1>2 DEF RingEnds
<1>3. CASE DispatchOne
  <2>1. /\ alHead' = (IF alTail = -1 THEN 0 ELSE alHead)
        /\ alTail' = (IF alTail = -1 THEN 0 ELSE NextSlot(alTail))
    BY <1>3 DEF DispatchOne, DispatchSlot
  <2> QED
    BY <1>1, <2>1, NextSlotType, Sizes DEF RingEnds
<1>4. ASSUME NEW x \in backend, ResolveMispredict(x) PROVE RingEnds'
  <2>1. alHead' = alHead /\ alTail' = x.al
    BY <1>4 DEF ResolveMispredict
  <2>2. x.al \in Slot /\ alHead # -1
    BY <1>1, BackendFacts
  <2> QED
    BY <2>1, <2>2, Sizes DEF RingEnds
<1>5. CASE RetireCommit
  BY <1>1, <1>5, NextSlotType, Sizes DEF RetireCommit, HeadCompleted, AdvanceHead, RingEnds
<1>6. CASE RetireSystem \/ RetireViolation \/ RetireException
  BY <1>6 DEF RetireSystem, RetireViolation, RetireException, SquashComplete, RingEnds
<1>7. CASE \/ \E b \in Bundle : Rename2Begin(b)
           \/ RenameOne
           \/ DispatchBegin
           \/ UNCHANGED vars
  <2>1. UNCHANGED <<alHead, alTail>>
    BY <1>7 DEF Rename2Begin, RenameOne, DispatchBegin, lists, vars
  <2> QED
    BY <1>2, <2>1
<1>8. ASSUME NEW x \in backend, Execute(x) \/ LoadReplay(x) \/ Writeback(x) \/ ResolveCorrect(x)
      PROVE  RingEnds'
  <2>1. UNCHANGED <<alHead, alTail>>
    BY <1>8 DEF Execute, ExecuteAlu, ExecuteSystem, ExecuteLoadHit, ExecuteLoadMiss,
       ExecuteStore, lists, LoadReplay, Writeback, ResolveCorrect
  <2> QED
    BY <1>2, <2>1
<1> QED
  BY <1>3, <1>4, <1>5, <1>6, <1>7, <1>8 DEF Next
=============================================================================
