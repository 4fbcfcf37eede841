------------------------- MODULE RenamerTableProofs -------------------------
(***************************************************************************)
(* The tables of Renamer.tla agree with the program in the pipeline: the   *)
(* theorems on the Free List, the Rename Map Table, the checkpoints, the   *)
(* branch masks and the ready bits, with the invariant they rest on; and,  *)
(* in the last part, that Renamer.tla implements InOrder.tla.              *)
(*                                                                         *)
(* Everything is measured from the tail of the Free List.  The ring holds, *)
(* behind its tail, the registers lent to the instructions in flight in    *)
(* program order, and then the free ones: committing the oldest of them    *)
(* moves the tail, a recovery moves the head.                              *)
(***************************************************************************)
EXTENDS RenamerProofs

-----------------------------------------------------------------------------
(* The invariant.                                                          *)

(* Each register is in one slot of the ring or is one register's committed *)
(* version, and in one place only.                                         *)
Partition(list, A) ==
  /\ \A s, t \in Slot : list[s] = list[t] => s = t
  /\ \A l, m \in Log : A[l] = A[m] => l = m
  /\ \A s \in Slot, l \in Log : list[s] # A[l]
  /\ \A p \in Phys : (\E s \in Slot : list[s] = p) \/ (\E l \in Log : A[l] = p)

(* The ring behind its tail holds the destinations of P in program order.  *)
Lent(list, tail, P, n) ==
  /\ Dests(P, n) < ListSize
  /\ \A j \in 1 .. n : HasDest(P[j].insn) => P[j].pdst = list[Behind(tail, Dests(P, j))]

(* The head of the Free List as the first k instructions of P leave it.    *)
HeadAfter(tail, P, k) == Behind(tail, Dests(P, k) + 1)

IDs(U) == {b.id : b \in U}
IDsBefore(U, k) == {b.id : b \in {c \in U : c.at < k}}

FreeInv ==
  /\ Partition(free.list, AMT)
  /\ Lent(free.list, free.tail, Program, Total)
  /\ free.head = HeadAfter(free.tail, Program, Total)

MapInv == RMT = MapOver(AMT, Program, Total)

CheckInv ==
  \A b \in Unresolved :
    /\ chk[b.id].MT = MapOver(AMT, Program, b.at)
    /\ chk[b.id].head = HeadAfter(free.tail, Program, b.at)
    /\ chk[b.id].recover \cap BranchID = IDsBefore(Unresolved, b.at)

IDInv ==
  /\ GBM \cap BranchID = IDs(Unresolved)
  /\ \A b, c \in Unresolved : b.id = c.id => b = c

MaskInv ==
  ~PerfectBranchPred =>
    /\ \A x \in backend : x.mask \cap BranchID = IDsBefore(Unresolved, Age(x.al) + 1)
    /\ \A k \in 1 .. Len(dispatch) :
         dispatch[k].mask \cap BranchID = IDsBefore(Unresolved, Used + k)

(* What the tables say, and what it takes of the rest of the machine.      *)
Shapes == Rings /\ TypeInv /\ EntriesInv /\ BackendInv
Tables == FreeInv /\ MapInv /\ CheckInv /\ IDInv
TablesInv == Shapes /\ Tables /\ MaskInv

LEMMA TailIsSlot ==
  TypeInv => free \in FreeList /\ free.tail \in Slot /\ free.head \in Slot /\ AMT \in [Log -> Phys]
BY DEF TypeInv, TypeOK, FreeListUsable, FreeList

LEMMA InitTables == Init => TablesInv
<1> SUFFICES ASSUME Init PROVE TablesInv
  OBVIOUS
<1>1. TypeInv
  BY InitTypeInv
<1>2. alHead = -1 /\ alTail = -1 /\ dispatch = <<>> /\ backend = {}
  BY DEF Init
<1>3. Rings
  BY <1>1, <1>2 DEF Rings, RingEnds, TypeInv
<1>4. Used = 0 /\ Len(dispatch) = 0 /\ Total = 0 /\ InFlight = {}
  BY <1>2 DEF Used, Total, InFlight
<1>5. BackendInv
  BY <1>2, <1>4 DEF BackendInv, BackendIsActiveList
<1>6. EntriesInv
  BY <1>4, SizesAssumption DEF Init, EntriesInv
<1>7. Unresolved = {}
  BY <1>2, <1>3, <1>4, UnresolvedIs DEF LaneBranch, BundleBranch
<1>8. /\ free.list = [s \in Slot |-> NumLog + s] /\ free.head = 0 /\ free.tail = ListSize - 1
      /\ AMT = [l \in Log |-> l] /\ RMT = AMT /\ GBM = {}
  BY DEF Init
<1>9. Partition(free.list, AMT)
  <2>1. \A p \in Phys : p \in Log \/ (p - NumLog \in Slot /\ NumLog + (p - NumLog) = p)
    BY SizesAssumption DEF Phys, Log, Slot, ListSize
  <2>2. \A s \in Slot : s \in Int /\ NumLog + s \notin Log
    BY SizesAssumption DEF Slot, Log
  <2>3. \A s, t \in Slot : NumLog + s = NumLog + t => s = t
    BY <2>2, SizesAssumption
  <2> QED
    BY <1>8, <2>1, <2>2, <2>3 DEF Partition
<1>10. FreeInv
  <2>1. Dests(Program, 0) = 0
    BY DestsZero
  <2>2. Lent(free.list, free.tail, Program, 0)
    BY <2>1, Sizes DEF Lent
  <2>3. HeadAfter(free.tail, Program, 0) = 0
    BY <1>8, <2>1, Sizes DEF HeadAfter, Behind
  <2> QED
    BY <1>4, <1>8, <1>9, <2>2, <2>3 DEF FreeInv
<1>11. MapInv
  BY <1>1, <1>4, <1>8, MapZero, TailIsSlot DEF MapInv
<1>12. CheckInv /\ IDInv
  BY <1>7, <1>8 DEF CheckInv, IDInv, IDs
<1>13. MaskInv
  BY <1>2, <1>4 DEF MaskInv
<1> QED
  BY <1>1, <1>3, <1>5, <1>6, <1>10, <1>11, <1>12, <1>13 DEF TablesInv, Shapes, Tables

-----------------------------------------------------------------------------
(* Steps that neither rename, recover nor commit.                          *)

LEMMA KeptTables ==
  ASSUME Shapes, Tables, UNCHANGED <<free, AMT, RMT>>, SameProgram
  PROVE  /\ FreeInv' /\ MapInv'
         /\ \A k \in 0 .. Total : /\ Dests(Program', k) = Dests(Program, k)
                                 /\ MapOver(AMT, Program', k) = MapOver(AMT, Program, k)
<1>1. Total \in Nat /\ Total' = Total /\ Follows(Program, Program', 0, Total)
  BY UsedType DEF Shapes, SameProgram
<1>2. \A k \in 0 .. Total : Dests(Program', k) = Dests(Program, k)
  BY <1>1, DestsSame
<1>3. \A k \in 0 .. Total : MapOver(AMT, Program', k) = MapOver(AMT, Program, k)
  BY <1>1, MapSame
<1>4. Total \in 0 .. Total /\ (\A k \in 1 .. Total : k \in 0 .. Total /\ k + 0 = k)
  BY <1>1
<1>5. \A k \in 1 .. Total :
        /\ Program'[k].insn = Program[k].insn
        /\ HasDest(Program[k].insn) => Program'[k].pdst = Program[k].pdst
  BY <1>1, <1>4 DEF Follows
<1>6. FreeInv'
  <2>1. Lent(free.list, free.tail, Program', Total)
    BY <1>2, <1>4, <1>5 DEF Tables, FreeInv, Lent
  <2> QED
    BY <1>1, <1>2, <1>4, <2>1 DEF Tables, FreeInv, HeadAfter
<1>7. MapInv'
  BY <1>1, <1>3, <1>4 DEF Tables, MapInv
<1> QED
  BY <1>2, <1>3, <1>6, <1>7

LEMMA StableTables ==
  ASSUME Shapes, Tables, UNCHANGED <<free, AMT, RMT, chk, GBM>>, SameProgram,
         Unresolved' = Unresolved
  PROVE  Tables'
<1>1. \A b \in Unresolved : b.at \in 0 .. Total
  <2>1. \A k \in 1 .. Total : k \in 0 .. Total
    BY UsedType DEF Shapes
  <2> QED
    BY <2>1, UnresolvedFacts DEF Shapes
<1>2. /\ FreeInv' /\ MapInv'
      /\ \A k \in 0 .. Total : /\ Dests(Program', k) = Dests(Program, k)
                              /\ MapOver(AMT, Program', k) = MapOver(AMT, Program, k)
  BY KeptTables
<1>3. CheckInv'
  BY <1>1, <1>2 DEF Tables, CheckInv, HeadAfter
<1>4. IDInv'
  BY DEF Tables, IDInv
<1> QED
  BY <1>2, <1>3, <1>4 DEF Tables

LEMMA SameMasks ==
  ASSUME MaskInv, UNCHANGED <<alHead, alTail, dispatch>>, Unresolved' = Unresolved,
         \A y \in backend' : \E w \in backend : y.al = w.al /\ y.mask = w.mask
  PROVE  MaskInv'
<1>1. Used' = Used /\ \A s : Age(s)' = Age(s)
  BY SameList
<1> QED
  BY <1>1 DEF MaskInv

LEMMA LanesTables ==
  ASSUME TablesInv, Rings', NEW x \in backend, Execute(x) \/ LoadReplay(x) \/ Writeback(x)
  PROVE  BackendInv' /\ Tables' /\ MaskInv'
<1>1. Rings /\ BackendInv /\ Shapes /\ Tables /\ MaskInv
  BY DEF TablesInv, Shapes
<1>2. /\ UNCHANGED <<free, alHead, alTail, maps, front>>
      /\ BackendInv' /\ Unresolved' = Unresolved /\ SameProgram
  BY <1>1, ExecuteEffect, ReplayWritebackEffect
<1>3. Tables'
  BY <1>1, <1>2, StableTables DEF maps
<1>4. \A y \in backend' : \E w \in backend : y.al = w.al /\ y.mask = w.mask
  <2>1. CASE Execute(x)
    <3>1. x \in Flying
      BY <1>1, BackendFacts
    <3>2. \E st \in {"missed", "done"} : backend' = MoveTo(x, st)
      BY <2>1 DEF Execute, ExecuteAlu, ExecuteSystem, ExecuteLoadHit, ExecuteLoadMiss, ExecuteStore
    <3>3. \A st : [x EXCEPT !.stage = st].al = x.al /\ [x EXCEPT !.stage = st].mask = x.mask
      BY <3>1 DEF Flying
    <3> QED
      BY <3>2, <3>3 DEF MoveTo
  <2>2. CASE LoadReplay(x) \/ Writeback(x)
    BY <2>2 DEF LoadReplay, Writeback
  <2> QED
    BY <2>1, <2>2
<1>5. MaskInv'
  BY <1>1, <1>2, <1>4, SameMasks DEF front
<1> QED
  BY <1>2, <1>3, <1>5

LEMMA BeginTables ==
  ASSUME TablesInv, Rings', (\E b \in Bundle : Rename2Begin(b)) \/ DispatchBegin
  PROVE  BackendInv' /\ Tables' /\ MaskInv'
<1>1. Rings /\ BackendInv /\ Shapes /\ Tables /\ MaskInv
  BY DEF TablesInv, Shapes
<1>2. /\ UNCHANGED <<lists, maps, ready, value, dispatch, backend>>
      /\ BackendInv' /\ Unresolved' = Unresolved /\ SameProgram
  BY <1>1, BeginEffect
<1>3. Tables'
  BY <1>1, <1>2, StableTables DEF maps, lists
<1>4. MaskInv'
  BY <1>1, <1>2, SameMasks DEF lists
<1> QED
  BY <1>2, <1>3, <1>4

LEMMA DispatchOneTables ==
  ASSUME TablesInv, Rings', DispatchOne
  PROVE  BackendInv' /\ Tables' /\ MaskInv'
<1>1. Rings /\ BackendInv /\ Shapes /\ Tables /\ MaskInv /\ TypeInv /\ EntriesInv
  BY DEF TablesInv, Shapes
<1>2. dispatch # <<>> /\ phase = "dispatch"
  BY <1>1 DEF DispatchOne, TypeInv, LoopsHaveWork
<1>3. PICK d : d = Head(dispatch)
  OBVIOUS
<1>4. PICK s : s = DispatchSlot
  OBVIOUS
<1> DEFINE n == Len(dispatch)
<1>5. /\ d = dispatch[1] /\ n \in Nat \ {0} /\ Len(dispatch') = n - 1
      /\ \A k \in 1 .. n - 1 : dispatch'[k] = dispatch[k + 1]
  BY <1>1, <1>2, <1>3, DispatchedInstruction
<1>6. Used \in Nat /\ Used < ListSize
  <2>1. Used + n <= ListSize
    BY <1>1, <1>2 DEF EntriesInv
  <2>2. Used \in Nat
    BY <1>1, UsedType, Sizes
  <2> QED
    BY <1>5, <2>1, <2>2, Sizes
<1>7. /\ s \in Slot /\ Used' = Used + 1 /\ Age(s)' = Used
      /\ \A t \in InFlight : Age(t)' = Age(t)
  BY <1>1, <1>4, <1>6, DispatchRing
<1>8. BackendInv' /\ Unresolved' = Unresolved /\ SameProgram
  BY <1>1, <1>2, <1>6, DispatchOneEffect, DispatchOneProgram DEF SameProgram
<1>9. Tables'
  <2>1. UNCHANGED <<free, AMT, RMT, chk, GBM>>
    BY DEF DispatchOne, maps
  <2> QED
    BY <1>1, <1>8, <2>1, StableTables
<1> DEFINE z == [al |-> s, psrc |-> d.psrc, mask |-> d.mask, id |-> d.id, stage |-> "queued"]
<1>10. backend' = (IF SkipsIQ(d.insn) THEN backend ELSE backend \cup {z})
  BY <1>3, <1>4 DEF DispatchOne
<1>11. MaskInv'
  <2> SUFFICES ASSUME ~PerfectBranchPred PROVE MaskInv'
    BY DEF MaskInv
  <2>1. /\ \A y \in backend : y.mask \cap BranchID = IDsBefore(Unresolved, Age(y.al) + 1)
        /\ \A k \in 1 .. n : dispatch[k].mask \cap BranchID = IDsBefore(Unresolved, Used + k)
    BY <1>1 DEF MaskInv
  <2>2. \A y \in backend : Age(y.al)' = Age(y.al)
    BY <1>1, <1>7, BackendFacts
  <2>3. z.mask \cap BranchID = IDsBefore(Unresolved, Age(z.al)' + 1)
    <3>1. 1 \in 1 .. n /\ z.mask = dispatch[1].mask /\ Age(z.al)' = Used
      BY <1>5, <1>7
    <3> QED
      BY <2>1, <3>1
  <2> HIDE DEF z, n
  <2>4. \A y \in backend' : y.mask \cap BranchID = IDsBefore(Unresolved, Age(y.al)' + 1)
    BY <1>10, <2>1, <2>2, <2>3
  <2>5. ASSUME NEW k \in 1 .. n - 1
        PROVE  dispatch'[k].mask \cap BranchID = IDsBefore(Unresolved, Used' + k)
    <3>1. k + 1 \in 1 .. n /\ Used' + k = Used + (k + 1) /\ dispatch'[k] = dispatch[k + 1]
      BY <1>5, <1>6, <1>7
    <3> QED
      BY <2>1, <3>1
  <2> QED
    BY <1>5, <1>8, <2>4, <2>5 DEF MaskInv
<1> QED
  BY <1>8, <1>9, <1>11

-----------------------------------------------------------------------------
(* Branch IDs.                                                             *)

LEMMA IDsBeforeType == \A U, k : IDsBefore(U, k) \subseteq IDs(U)
BY DEF IDsBefore, IDs

(* Without one branch, the IDs are the others'.                            *)
LEMMA IDsWithout ==
  ASSUME NEW U, NEW x \in U, \A b, c \in U : b.id = c.id => b = c, NEW k
  PROVE  /\ IDs(U \ {x}) = IDs(U) \ {x.id}
         /\ IDsBefore(U \ {x}, k) = IDsBefore(U, k) \ {x.id}
BY DEF IDs, IDsBefore

(* With a youngest branch added, and with the younger ones left out.       *)
LEMMA IDsWith ==
  ASSUME NEW U, NEW x, NEW k \in Int, NEW n \in Int, x.at = n, k <= n
  PROVE  IDsBefore(U \cup {x}, k) = IDsBefore(U, k)
<1>1. \A b \in U \cup {x} : b.at < k => b \in U
  OBVIOUS
<1>2. {c \in U \cup {x} : c.at < k} = {c \in U : c.at < k}
  BY <1>1
<1> QED
  BY <1>2 DEF IDsBefore

LEMMA IDsUntil ==
  ASSUME NEW U, NEW n \in Int, \A b \in U : b.at \in Int, NEW k \in Int, k <= n
  PROVE  /\ IDs({b \in U : b.at < n}) = IDsBefore(U, n)
         /\ IDsBefore({b \in U : b.at < n}, k) = IDsBefore(U, k)
<1>1. {c \in {b \in U : b.at < n} : c.at < k} = {c \in U : c.at < k}
  OBVIOUS
<1> QED
  BY <1>1 DEF IDs, IDsBefore

LEMMA IDsAll ==
  ASSUME NEW U, NEW n \in Int, \A b \in U : b.at \in Int /\ b.at <= n
  PROVE  IDsBefore(U, n + 1) = IDs(U)
<1>1. {c \in U : c.at < n + 1} = U
  OBVIOUS
<1> QED
  BY <1>1 DEF IDs, IDsBefore

LEMMA IDsEarlier ==
  ASSUME NEW U, \A b \in U : b.at \in Int, NEW k \in Int
  PROVE  /\ IDs({[at |-> b.at - 1, id |-> b.id] : b \in U}) = IDs(U)
         /\ IDsBefore({[at |-> b.at - 1, id |-> b.id] : b \in U}, k) = IDsBefore(U, k + 1)
<1> DEFINE E(b) == [at |-> b.at - 1, id |-> b.id]
           V == {E(b) : b \in U}
<1>1. \A b \in U : /\ E(b) \in V /\ E(b).id = b.id
                   /\ E(b).at < k <=> b.at < k + 1
  OBVIOUS
<1>2. \A c \in V : \E b \in U : c = E(b)
  OBVIOUS
<1> HIDE DEF E, V
<1>3. IDs(V) = IDs(U)
  BY <1>1, <1>2 DEF IDs
<1>4. IDsBefore(V, k) = IDsBefore(U, k + 1)
  BY <1>1, <1>2 DEF IDsBefore
<1> QED
  BY <1>3, <1>4 DEF V, E

LEMMA ResolveCorrectTables ==
  ASSUME NumBranches <= IntWidth, TablesInv, Rings', NEW x \in backend, ResolveCorrect(x)
  PROVE  BackendInv' /\ Tables' /\ MaskInv'
<1> DEFINE bx == [at |-> Age(x.al) + 1, id |-> x.id]
           U  == Unresolved
<1>1. Rings /\ BackendInv /\ Shapes /\ Tables /\ MaskInv /\ TypeInv
  BY DEF TablesInv, Shapes
<1>2. /\ BackendInv' /\ SameProgram /\ bx \in U /\ Unresolved' = U \ {bx}
      /\ Used' = Used /\ \A s : Age(s)' = Age(s)
  BY <1>1, ResolveCorrectEffect
<1>3. /\ GBM' = GBM \ BitOf(x.id)
      /\ chk' = [b \in BranchID |-> [chk[b] EXCEPT !.recover = @ \ BitOf(x.id)]]
      /\ backend' = {Unmask(y, x.id) : y \in backend \ {x}}
      /\ dispatch' = [k \in DOMAIN dispatch |-> Unmask(dispatch[k], x.id)]
      /\ UNCHANGED <<RMT, AMT, free>>
  BY DEF ResolveCorrect
<1>4. x.id \in BranchID /\ BitOf(x.id) \cap BranchID = {x.id} /\ bx.id = x.id
  BY <1>1, BackendFacts, BitOfOneID
<1>5. /\ Total \in Nat
      /\ \A b \in U : b.at \in 1 .. Total /\ b.id \in BranchID
  BY <1>1, UsedType, UnresolvedFacts DEF U
<1>6. \A b, c \in U : b.id = c.id => b = c
  BY <1>1 DEF Tables, IDInv
<1> HIDE DEF bx, U
<1>7. /\ IDs(U \ {bx}) = IDs(U) \ {x.id}
      /\ \A k : IDsBefore(U \ {bx}, k) = IDsBefore(U, k) \ {x.id}
  <2>1. ASSUME NEW k
        PROVE  /\ IDs(U \ {bx}) = IDs(U) \ {bx.id}
               /\ IDsBefore(U \ {bx}, k) = IDsBefore(U, k) \ {bx.id}
    BY <1>2, <1>6, IDsWithout
  <2> QED
    BY <1>4, <2>1
<1>8. /\ FreeInv' /\ MapInv'
      /\ \A k \in 0 .. Total : /\ Dests(Program', k) = Dests(Program, k)
                              /\ MapOver(AMT, Program', k) = MapOver(AMT, Program, k)
  BY <1>1, <1>2, <1>3, KeptTables
<1>10. \A k \in 1 .. Total : k \in 0 .. Total
  BY <1>5
<1>14. \A b \in BranchID : /\ chk'[b].MT = chk[b].MT /\ chk'[b].head = chk[b].head
                           /\ chk'[b].recover = chk[b].recover \ BitOf(x.id)
  <2>1. \A b \in BranchID : chk[b] \in Checkpoint
    BY <1>1 DEF TypeInv, TypeOK
  <2> QED
    BY <1>3, <2>1 DEF Checkpoint
<1>15. CheckInv'
  <2> SUFFICES ASSUME NEW b, b \in Unresolved'
               PROVE  /\ chk'[b.id].MT = MapOver(AMT', Program', b.at)
                      /\ chk'[b.id].head = HeadAfter(free'.tail, Program', b.at)
                      /\ chk'[b.id].recover \cap BranchID = IDsBefore(Unresolved', b.at)
    BY DEF CheckInv
  <2>1. b \in U /\ b.at \in 0 .. Total /\ b.id \in BranchID
    BY <1>2, <1>5, <1>10
  <2>2. /\ chk[b.id].MT = MapOver(AMT, Program, b.at)
        /\ chk[b.id].head = HeadAfter(free.tail, Program, b.at)
        /\ chk[b.id].recover \cap BranchID = IDsBefore(U, b.at)
    BY <1>1, <2>1 DEF Tables, CheckInv, U
  <2>3. chk'[b.id].recover \cap BranchID = IDsBefore(U, b.at) \ {x.id}
    BY <1>4, <1>14, <2>1, <2>2
  <2> QED
    BY <1>2, <1>3, <1>7, <1>8, <1>14, <2>1, <2>2, <2>3 DEF HeadAfter
<1>16. IDInv'
  <2>1. GBM \cap BranchID = IDs(U)
    BY <1>1 DEF Tables, IDInv, U
  <2>2. GBM' \cap BranchID = IDs(U) \ {x.id}
    BY <1>3, <1>4, <2>1
  <2> QED
    BY <1>2, <1>6, <1>7, <2>2 DEF IDInv
<1>17. MaskInv'
  <2> SUFFICES ASSUME ~PerfectBranchPred PROVE MaskInv'
    BY DEF MaskInv
  <2>1. /\ \A y \in backend : y.mask \cap BranchID = IDsBefore(U, Age(y.al) + 1)
        /\ \A k \in 1 .. Len(dispatch) : dispatch[k].mask \cap BranchID = IDsBefore(U, Used + k)
    BY <1>1 DEF MaskInv, U
  <2>2. \A y \in Flying : Unmask(y, x.id).al = y.al /\ Unmask(y, x.id).mask = y.mask \ {x.id}
    BY DEF Unmask, Flying
  <2>3. \A y \in Renamed : Unmask(y, x.id).mask = y.mask \ {x.id}
    BY DEF Unmask, Renamed
  <2>4. \A u \in backend' : u.mask \cap BranchID = IDsBefore(Unresolved', Age(u.al)' + 1)
    <3> SUFFICES ASSUME NEW u \in backend'
                 PROVE  u.mask \cap BranchID = IDsBefore(Unresolved', Age(u.al)' + 1)
      OBVIOUS
    <3>1. PICK y \in backend : u = Unmask(y, x.id)
      BY <1>3
    <3>2. u.al = y.al /\ u.mask = y.mask \ {x.id}
      BY <1>1, <2>2, <3>1, BackendFacts
    <3>3. u.mask \cap BranchID = IDsBefore(U, Age(y.al) + 1) \ {x.id}
      BY <2>1, <3>2
    <3>4. Age(u.al)' = Age(y.al)
      BY <1>2, <3>2
    <3> QED
      BY <1>2, <1>7, <3>3, <3>4
  <2>5. /\ Len(dispatch') = Len(dispatch)
        /\ DOMAIN dispatch = 1 .. Len(dispatch)
        /\ \A k \in 1 .. Len(dispatch) : dispatch[k] \in Renamed
    BY <1>1, ResolveCorrectLen, LenProperties, ElementOfSeq DEF Rings, TypeOK
  <2>6. \A k \in 1 .. Len(dispatch') :
          dispatch'[k].mask \cap BranchID = IDsBefore(Unresolved', Used' + k)
    <3> SUFFICES ASSUME NEW k \in 1 .. Len(dispatch)
                 PROVE  dispatch'[k].mask \cap BranchID = IDsBefore(Unresolved', Used' + k)
      BY <2>5
    <3>1. dispatch'[k] = Unmask(dispatch[k], x.id)
      BY <1>3, <2>5
    <3>2. dispatch'[k].mask = dispatch[k].mask \ {x.id}
      BY <2>3, <2>5, <3>1
    <3>3. dispatch'[k].mask \cap BranchID = IDsBefore(U, Used + k) \ {x.id}
      BY <2>1, <3>2
    <3> QED
      BY <1>2, <1>7, <3>3
  <2> QED
    BY <2>4, <2>6 DEF MaskInv
<1> QED
  BY <1>2, <1>8, <1>15, <1>16, <1>17 DEF Tables

-----------------------------------------------------------------------------
(* Renaming.                                                               *)

LEMMA NumFreeIs ==
  TypeInv /\ FreeInv /\ Total \in Nat => NumFree = ListSize - Dests(Program, Total)
<1> SUFFICES ASSUME TypeInv, FreeInv, Total \in Nat
             PROVE  NumFree = ListSize - Dests(Program, Total)
  OBVIOUS
<1>1. PICK d : d = Dests(Program, Total)
  OBVIOUS
<1>2. d \in Nat /\ d < ListSize /\ free.head = Behind(free.tail, d + 1)
  BY <1>1, DestsType DEF FreeInv, Lent, HeadAfter
<1>3. free.tail \in Slot /\ free.head \in Slot
  BY TailIsSlot
<1>4. NumFree = ListSize - d
  BY <1>2, <1>3, Sizes DEF NumFree, Behind, Slot
<1> QED
  BY <1>1, <1>4

LEMMA RenameOneFree ==
  ASSUME TypeInv, Shapes, Tables, RenameOne
  PROVE  /\ HasDest(Renaming) => Dests(Program, Total) + 1 < ListSize
         /\ free' = IF HasDest(Renaming) THEN [free EXCEPT !.head = NextSlot(free.head)] ELSE free
         /\ RMT' = IF HasDest(Renaming) THEN [RMT EXCEPT ![Renaming.dst] = Allocated] ELSE RMT
         /\ UNCHANGED AMT
<1>1. /\ rename2 \in Seq(Insn) /\ rename2 # <<>> /\ phase = "rename"
      /\ Count(rename2, Writing) < NumFree /\ Renaming \in Insn
  BY RenamedInstruction DEF RenameOne, TypeInv, TypeOK, LoopsHaveWork, FreeListUsable
<1>2. NumFree = ListSize - Dests(Program, Total) /\ Dests(Program, Total) \in Nat
  <2>1. Total \in Nat
    BY UsedType DEF Shapes
  <2> QED
    BY <2>1, NumFreeIs, DestsType DEF Tables
<1>3. HasDest(Renaming) => NumFree > 1
  <2>1. /\ Count(Tail(rename2), Writing) \in Nat
        /\ Count(rename2, Writing) =
             Count(Tail(rename2), Writing) + (IF Head(rename2) \in Writing THEN 1 ELSE 0)
    <3>1. Tail(rename2) \in Seq(Insn)
      BY <1>1, HeadTailProperties
    <3> QED
      BY <1>1, <3>1, CountTail, CountType
  <2>2. HasDest(Renaming) => Head(rename2) \in Writing
    BY <1>1 DEF Writing, Renaming
  <2> QED
    BY <1>1, <1>2, <2>1, <2>2, Sizes
<1>4. NumFree > 1 => free.head # free.tail
  BY TailIsSlot DEF NumFree, Slot
<1>5. /\ free' = IF HasDest(Renaming) THEN PopFree(free) ELSE free
      /\ RMT' = IF HasDest(Renaming) THEN [RMT EXCEPT ![Renaming.dst] = Allocated] ELSE RMT
      /\ UNCHANGED AMT
  BY DEF RenameOne, Renaming, Allocated
<1> QED
  BY <1>2, <1>3, <1>4, <1>5, Sizes DEF PopFree

LEMMA RenameOneTables ==
  ASSUME NumBranches <= IntWidth, TablesInv, Rings', RenameOne
  PROVE  BackendInv' /\ Tables' /\ MaskInv'
<1> DEFINE i  == Renaming
           id == LeastID
           U  == Unresolved
           bi == [at |-> Total + 1, id |-> id]
           T  == Total
           tail == free.tail
<1>1. Rings /\ BackendInv /\ Shapes /\ Tables /\ MaskInv /\ TypeInv
  BY DEF TablesInv, Shapes
<1>2. /\ Used' = Used /\ Total' = T + 1 /\ \A s : Age(s)' = Age(s)
      /\ Follows(Program, Program', 0, T)
      /\ Program'[T + 1] = [insn |-> i, pdst |-> Allocated]
      /\ Unresolved' = U \cup (IF NeedsChk(i) THEN {bi} ELSE {})
      /\ BackendInv'
  BY <1>1, RenameOneEffect
<1>3. /\ i \in Insn /\ i.dst \in Log /\ id \in BranchID
      /\ NeedsChk(i) => id \in FreeIDs
      /\ dispatch' = Append(dispatch, NewEntry)
      /\ Len(dispatch') = Len(dispatch) + 1
      /\ \A k \in 1 .. Len(dispatch) : dispatch'[k] = dispatch[k]
      /\ dispatch'[Len(dispatch) + 1] = NewEntry
  BY <1>1, RenamedInstruction
<1>4. /\ HasDest(i) => Dests(Program, T) + 1 < ListSize
      /\ free' = IF HasDest(i) THEN [free EXCEPT !.head = NextSlot(free.head)] ELSE free
      /\ RMT' = IF HasDest(i) THEN [RMT EXCEPT ![i.dst] = Allocated] ELSE RMT
      /\ UNCHANGED AMT
  BY <1>1, RenameOneFree
<1>5. /\ T \in Nat /\ Used \in Nat /\ Len(dispatch) \in Nat /\ T = Used + Len(dispatch)
      /\ \A b \in U : b.at \in 1 .. T /\ b.id \in BranchID
  BY <1>1, UsedType, UnresolvedFacts, Sizes DEF Total
<1>6. /\ chk' = IF NeedsChk(i) THEN [chk EXCEPT ![id] = NewCheckpoint(RMT', free')] ELSE chk
      /\ GBM' = IF NeedsChk(i) THEN GBM \cup BitOf(id) ELSE GBM
      /\ UNCHANGED <<backend, alHead, alTail>>
  BY DEF RenameOne, Renaming, LeastID
<1>7. free \in FreeList /\ tail \in Slot /\ free.head \in Slot /\ free'.tail = tail /\ free'.list = free.list
  BY <1>1, <1>4, TailIsSlot DEF FreeList
<1>8. /\ Partition(free.list, AMT) /\ Lent(free.list, tail, Program, T)
      /\ free.head = HeadAfter(tail, Program, T)
      /\ RMT = MapOver(AMT, Program, T)
      /\ GBM \cap BranchID = IDs(U)
      /\ \A b, c \in U : b.id = c.id => b = c
  BY <1>1 DEF Tables, FreeInv, MapInv, IDInv
<1> HIDE DEF i, id, U, bi, T, tail
<1>9. \A k \in 0 .. T : Dests(Program', k) = Dests(Program, k)
  BY <1>2, <1>5, DestsSame
<1>10. \A k \in 0 .. T : MapOver(AMT, Program', k) = MapOver(AMT, Program, k)
  BY <1>2, <1>5, MapSame
<1>11. T \in 0 .. T /\ Dests(Program, T) \in Nat /\ Dests(Program, T) < ListSize
  BY <1>5, <1>8, DestsType DEF Lent
<1>12. Dests(Program', T + 1) = Dests(Program, T) + (IF HasDest(i) THEN 1 ELSE 0)
  <2>1. Dests(Program', T + 1) = Dests(Program', T) + (IF HasDest(Program'[T + 1].insn) THEN 1 ELSE 0)
    BY <1>5, DestsStep
  <2>2. Program'[T + 1].insn = i
    BY <1>2
  <2> QED
    BY <1>9, <1>11, <2>1, <2>2
<1>13. HasDest(i) => Allocated = free.list[Behind(tail, Dests(Program, T) + 1)]
  BY <1>8 DEF Allocated, HeadAfter, i
<1>14. FreeInv'
  <2>1. free'.head = HeadAfter(tail, Program', T + 1)
    <3>1. CASE ~HasDest(i)
      BY <1>4, <1>8, <1>11, <1>12, <3>1 DEF HeadAfter
    <3>2. CASE HasDest(i)
      <4>1. free'.head = NextSlot(free.head)
        BY <1>4, <1>7, <3>2 DEF FreeList
      <4>2. Dests(Program, T) + 1 \in 0 .. ListSize - 1
        BY <1>4, <1>11, <3>2, Sizes
      <4>3. NextSlot(Behind(tail, Dests(Program, T) + 1)) = Behind(tail, (Dests(Program, T) + 1) + 1)
        BY <1>7, <4>2, BehindNext
      <4> QED
        BY <1>8, <1>12, <3>2, <4>1, <4>3 DEF HeadAfter
    <3> QED
      BY <3>1, <3>2
  <2>2. Lent(free.list, tail, Program', T + 1)
    <3>1. Dests(Program', T + 1) < ListSize
      BY <1>4, <1>11, <1>12
    <3>2. ASSUME NEW j \in 1 .. T + 1, HasDest(Program'[j].insn)
          PROVE  Program'[j].pdst = free.list[Behind(tail, Dests(Program', j))]
      <4>1. CASE j <= T
        <5>1. j \in 1 .. T /\ j \in 0 .. T /\ j + 0 = j
          BY <1>5, <4>1
        <5>2. HasDest(Program[j].insn) /\ Program'[j].pdst = Program[j].pdst
          BY <1>2, <3>2, <5>1 DEF Follows
        <5>3. Program[j].pdst = free.list[Behind(tail, Dests(Program, j))]
          BY <1>8, <5>1, <5>2 DEF Lent
        <5> QED
          BY <1>9, <5>1, <5>2, <5>3
      <4>2. CASE j = T + 1
        BY <1>2, <1>12, <1>13, <3>2, <4>2
      <4> QED
        BY <1>5, <4>1, <4>2
    <3> QED
      BY <3>1, <3>2 DEF Lent
  <2>3. Partition(free'.list, AMT')
    BY <1>4, <1>7, <1>8
  <2> QED
    BY <1>2, <1>7, <2>1, <2>2, <2>3 DEF FreeInv
<1>15. RMT' = MapOver(AMT, Program', T + 1)
  <2>1. MapOver(AMT, Program', T + 1) =
          IF HasDest(Program'[T + 1].insn)
            THEN [MapOver(AMT, Program', T) EXCEPT ![Program'[T + 1].insn.dst] = Program'[T + 1].pdst]
            ELSE MapOver(AMT, Program', T)
    BY <1>5, MapStep
  <2>2. Program'[T + 1].insn = i /\ Program'[T + 1].pdst = Allocated
    BY <1>2
  <2> QED
    BY <1>4, <1>8, <1>10, <1>11, <2>1, <2>2
<1>16. MapInv'
  BY <1>2, <1>4, <1>15 DEF MapInv
<1>17. IDsBefore(Unresolved', T + 1) = IDs(U)
  <2>1. \A b \in U : b.at \in Int /\ b.at <= T
    BY <1>5
  <2>2. IDsBefore(U, T + 1) = IDs(U)
    BY <1>5, <2>1, IDsAll
  <2>3. T + 1 \in Int /\ T + 1 <= T + 1 /\ bi.at = T + 1
    BY <1>5 DEF bi, T
  <2>4. IDsBefore(U \cup {bi}, T + 1) = IDsBefore(U, T + 1)
    BY <2>3, IDsWith
  <2>5. U \cup {} = U
    OBVIOUS
  <2> QED
    BY <1>2, <2>2, <2>4, <2>5
<1>18. \A k \in 1 .. T : IDsBefore(Unresolved', k) = IDsBefore(U, k)
  <2> TAKE k \in 1 .. T
  <2>1. k \in Int /\ T + 1 \in Int /\ k <= T + 1 /\ bi.at = T + 1
    BY <1>5 DEF bi, T
  <2>2. IDsBefore(U \cup {bi}, k) = IDsBefore(U, k)
    BY <2>1, IDsWith
  <2>3. U \cup {} = U
    OBVIOUS
  <2> QED
    BY <1>2, <2>2, <2>3
<1>19. CheckInv'
  <2> SUFFICES ASSUME NEW b, b \in Unresolved'
               PROVE  /\ chk'[b.id].MT = MapOver(AMT', Program', b.at)
                      /\ chk'[b.id].head = HeadAfter(free'.tail, Program', b.at)
                      /\ chk'[b.id].recover \cap BranchID = IDsBefore(Unresolved', b.at)
    BY DEF CheckInv
  <2>1. CASE b \in U
    <3>1. b.at \in 1 .. T /\ b.at \in 0 .. T /\ b.id \in BranchID
      BY <1>5, <2>1
    <3>2. /\ chk[b.id].MT = MapOver(AMT, Program, b.at)
          /\ chk[b.id].head = HeadAfter(tail, Program, b.at)
          /\ chk[b.id].recover \cap BranchID = IDsBefore(U, b.at)
      BY <1>1, <2>1 DEF Tables, CheckInv, U, tail
    <3>3. chk'[b.id] = chk[b.id]
      <4>1. b.id \in GBM
        BY <1>8, <2>1 DEF IDs
      <4>2. NeedsChk(i) => b.id # id
        BY <1>3, <4>1 DEF FreeIDs
      <4>3. chk \in [BranchID -> Checkpoint]
        BY <1>1 DEF TypeInv, TypeOK
      <4> QED
        BY <1>3, <1>6, <3>1, <4>2, <4>3
    <3> QED
      BY <1>4, <1>7, <1>9, <1>10, <1>18, <3>1, <3>2, <3>3 DEF HeadAfter
  <2>2. CASE NeedsChk(i) /\ b = bi
    <3>1. b.at = T + 1 /\ b.id = id
      BY <2>2 DEF bi, T
    <3>2. chk'[id] = NewCheckpoint(RMT', free')
      <4>1. chk \in [BranchID -> Checkpoint]
        BY <1>1 DEF TypeInv, TypeOK
      <4> QED
        BY <1>3, <1>6, <2>2, <4>1
    <3>3. chk'[id].MT = RMT' /\ chk'[id].head = free'.head /\ chk'[id].recover = GBM
      BY <3>2 DEF NewCheckpoint
    <3>4. free'.head = HeadAfter(free'.tail, Program', T + 1)
      BY <1>2, <1>14 DEF FreeInv
    <3> QED
      BY <1>4, <1>8, <1>15, <1>17, <3>1, <3>3, <3>4
  <2> QED
    BY <1>2, <2>1, <2>2
<1>20. IDInv'
  <2>1. CASE ~NeedsChk(i)
    BY <1>2, <1>6, <1>8, <2>1 DEF IDInv
  <2>2. CASE NeedsChk(i)
    <3>1. BitOf(id) \cap BranchID = {id}
      BY <1>3, BitOfOneID
    <3>2. IDs(U \cup {bi}) = IDs(U) \cup {id}
      <4>1. bi.id = id
        BY DEF bi
      <4>2. {b.id : b \in U \cup {bi}} = {b.id : b \in U} \cup {bi.id}
        OBVIOUS
      <4> QED
        BY <4>1, <4>2 DEF IDs
    <3>3. GBM' \cap BranchID = IDs(Unresolved')
      BY <1>2, <1>6, <1>8, <2>2, <3>1, <3>2
    <3>4. \A b \in U : b.id # id
      BY <1>3, <1>8, <2>2 DEF FreeIDs, IDs
    <3>5. bi.id = id
      BY DEF bi
    <3>6. \A b, c \in U \cup {bi} : b.id = c.id => b = c
      BY <1>8, <3>4, <3>5
    <3> QED
      BY <1>2, <2>2, <3>3, <3>6 DEF IDInv
  <2> QED
    BY <2>1, <2>2
<1>21. MaskInv'
  <2> SUFFICES ASSUME ~PerfectBranchPred PROVE MaskInv'
    BY DEF MaskInv
  <2>1. /\ \A y \in backend : y.mask \cap BranchID = IDsBefore(U, Age(y.al) + 1)
        /\ \A k \in 1 .. Len(dispatch) : dispatch[k].mask \cap BranchID = IDsBefore(U, Used + k)
    BY <1>1 DEF MaskInv, U
  <2>2. ASSUME NEW y \in backend'
        PROVE  y.mask \cap BranchID = IDsBefore(Unresolved', Age(y.al)' + 1)
    <3>1. y \in backend /\ Age(y.al)' = Age(y.al)
      BY <1>2, <1>6
    <3>2. Age(y.al) \in 0 .. ListSize - 1 /\ Age(y.al) < Used
      BY <1>1, <3>1, BackendFacts
    <3>3. Age(y.al) + 1 \in 1 .. T
      BY <1>5, <3>2
    <3> QED
      BY <1>18, <2>1, <3>1, <3>3
  <2>3. ASSUME NEW k \in 1 .. Len(dispatch')
        PROVE  dispatch'[k].mask \cap BranchID = IDsBefore(Unresolved', Used' + k)
    <3>1. CASE k <= Len(dispatch)
      <4>1. k \in 1 .. Len(dispatch) /\ Used + k \in 1 .. T
        BY <1>3, <1>5, <3>1
      <4> QED
        BY <1>2, <1>3, <1>18, <2>1, <4>1
    <3>2. CASE k = Len(dispatch) + 1
      <4>1. dispatch'[k].mask = GBM
        BY <1>3, <3>2 DEF NewEntry
      <4>2. Used' + k = T + 1
        BY <1>2, <1>5, <3>2
      <4> QED
        BY <1>8, <1>17, <4>1, <4>2
    <3> QED
      BY <1>3, <1>5, <3>1, <3>2
  <2> QED
    BY <2>2, <2>3 DEF MaskInv
<1> QED
  BY <1>2, <1>14, <1>16, <1>19, <1>20, <1>21 DEF Tables

-----------------------------------------------------------------------------
(* Recovery.  A branch is in the mask of an instruction exactly when that  *)
(* instruction is younger than the branch.                                 *)

LEMMA MaskSaysYounger ==
  ASSUME TablesInv, ~PerfectBranchPred, NEW x \in backend, NeedsChk(InsnOf(x)), NEW y \in backend
  PROVE  x.id \notin y.mask <=> Age(y.al) <= Age(x.al)
<1> DEFINE bx == [at |-> Age(x.al) + 1, id |-> x.id]
<1>1. Rings /\ BackendInv /\ IDInv /\ MaskInv
  BY DEF TablesInv, Shapes, Tables
<1>2. bx \in Unresolved
  BY <1>1, UnresolvedIs DEF LaneBranch
<1>3. Age(x.al) \in Int /\ Age(y.al) \in Int /\ x.id \in BranchID
  BY <1>1, BackendFacts
<1>4. y.mask \cap BranchID = IDsBefore(Unresolved, Age(y.al) + 1)
  BY <1>1 DEF MaskInv
<1>5. bx.at = Age(x.al) + 1 /\ bx.id = x.id
  OBVIOUS
<1> HIDE DEF bx
<1>6. x.id \in IDsBefore(Unresolved, Age(y.al) + 1) <=> bx.at < Age(y.al) + 1
  BY <1>1, <1>2, <1>5 DEF IDsBefore, IDInv
<1> QED
  BY <1>3, <1>4, <1>5, <1>6

LEMMA ResolveMispredictTables ==
  ASSUME TablesInv, Rings', NEW x \in backend, ResolveMispredict(x)
  PROVE  BackendInv' /\ Tables' /\ MaskInv'
<1> DEFINE bx == [at |-> Age(x.al) + 1, id |-> x.id]
           U  == Unresolved
           n  == Age(x.al) + 1
           tail == free.tail
<1>1. Rings /\ BackendInv /\ Shapes /\ Tables /\ MaskInv /\ TypeInv
  BY DEF TablesInv, Shapes
<1>2. /\ ~PerfectBranchPred /\ NeedsChk(InsnOf(x))
      /\ free' = [free EXCEPT !.head = chk[x.id].head]
      /\ GBM' = chk[x.id].recover /\ RMT' = chk[x.id].MT
      /\ backend' = Survivors(x) /\ dispatch' = <<>>
      /\ UNCHANGED <<AMT, chk>>
  BY DEF ResolveMispredict
<1>3. \A y \in backend : x.id \notin y.mask <=> Age(y.al) <= Age(x.al)
  BY <1>2, MaskSaysYounger
<1>4. /\ Follows(Program, Program', 0, n) /\ BackendInv'
      /\ bx \in U /\ Unresolved' = {b \in U : b.at < n}
  BY <1>1, <1>3, ResolveMispredictEffect
<1>5. /\ Total' = n /\ n <= Total /\ n \in Nat /\ \A s : Age(s)' = Age(s)
  BY <1>1, MispredictRing
<1>6. bx.at = n /\ bx.id = x.id
  OBVIOUS
<1>7. Total \in Nat /\ \A b \in U : b.at \in 1 .. Total
  BY <1>1, UsedType, UnresolvedFacts
<1>8. /\ free \in FreeList /\ free'.list = free.list /\ free'.tail = tail
      /\ free'.head = chk[x.id].head
  BY <1>1, <1>2, TailIsSlot DEF FreeList
<1> HIDE DEF bx, U, n, tail
<1>9. /\ chk[x.id].MT = MapOver(AMT, Program, n)
      /\ chk[x.id].head = HeadAfter(tail, Program, n)
      /\ chk[x.id].recover \cap BranchID = IDsBefore(U, n)
  BY <1>1, <1>4, <1>6 DEF Tables, CheckInv, U, tail
<1>10. \A k \in 0 .. n : Dests(Program', k) = Dests(Program, k)
  BY <1>4, <1>5, DestsSame
<1>11. \A k \in 0 .. n : MapOver(AMT, Program', k) = MapOver(AMT, Program, k)
  BY <1>4, <1>5, MapSame
<1>12. n \in 0 .. n /\ (\A k \in 1 .. n : k \in 0 .. n /\ k \in 1 .. Total /\ k + 0 = k)
  BY <1>5, <1>7
<1>13. FreeInv'
  <2>1. Dests(Program, n) <= Dests(Program, Total)
    BY <1>5, <1>7, DestsMonotone
  <2>2. Dests(Program, n) < ListSize
    BY <1>1, <1>5, <1>7, <2>1, DestsType, Sizes DEF Tables, FreeInv, Lent
  <2>3. ASSUME NEW j \in 1 .. n, HasDest(Program'[j].insn)
        PROVE  Program'[j].pdst = free.list[Behind(tail, Dests(Program', j))]
    <3>1. HasDest(Program[j].insn) /\ Program'[j].pdst = Program[j].pdst
      BY <1>4, <1>12, <2>3 DEF Follows
    <3>2. Program[j].pdst = free.list[Behind(tail, Dests(Program, j))]
      BY <1>1, <1>12, <3>1 DEF Tables, FreeInv, Lent, tail
    <3> QED
      BY <1>10, <1>12, <3>1, <3>2
  <2>4. Lent(free.list, tail, Program', n)
    BY <1>10, <1>12, <2>2, <2>3 DEF Lent
  <2>5. Partition(free'.list, AMT')
    BY <1>1, <1>2, <1>8 DEF Tables, FreeInv
  <2> QED
    BY <1>5, <1>8, <1>9, <1>10, <1>12, <2>4, <2>5 DEF FreeInv, HeadAfter
<1>14. MapInv'
  BY <1>2, <1>5, <1>9, <1>11, <1>12 DEF MapInv
<1>15. /\ IDs(Unresolved') = IDsBefore(U, n)
       /\ \A k \in Int : k <= n => IDsBefore(Unresolved', k) = IDsBefore(U, k)
  <2>1. n \in Int /\ \A b \in U : b.at \in Int
    BY <1>5, <1>7
  <2> QED
    BY <1>4, <2>1, IDsUntil
<1>16. CheckInv'
  <2> SUFFICES ASSUME NEW b, b \in Unresolved'
               PROVE  /\ chk[b.id].MT = MapOver(AMT, Program', b.at)
                      /\ chk[b.id].head = HeadAfter(tail, Program', b.at)
                      /\ chk[b.id].recover \cap BranchID = IDsBefore(Unresolved', b.at)
    BY <1>2, <1>8 DEF CheckInv
  <2>1. b \in U /\ b.at < n
    BY <1>4
  <2>2. b.at \in 0 .. n /\ b.at \in Int /\ b.at <= n
    BY <1>5, <1>7, <2>1
  <2>3. /\ chk[b.id].MT = MapOver(AMT, Program, b.at)
        /\ chk[b.id].head = HeadAfter(tail, Program, b.at)
        /\ chk[b.id].recover \cap BranchID = IDsBefore(U, b.at)
    BY <1>1, <2>1 DEF Tables, CheckInv, U, tail
  <2> QED
    BY <1>10, <1>11, <1>15, <2>2, <2>3 DEF HeadAfter
<1>17. IDInv'
  <2>1. \A b, c \in Unresolved' : b.id = c.id => b = c
    BY <1>1, <1>4 DEF Tables, IDInv, U
  <2> QED
    BY <1>2, <1>9, <1>15, <2>1 DEF IDInv
<1>18. MaskInv'
  <2> SUFFICES ASSUME ~PerfectBranchPred PROVE MaskInv'
    BY DEF MaskInv
  <2>1. ASSUME NEW y \in backend'
        PROVE  y.mask \cap BranchID = IDsBefore(Unresolved', Age(y.al)' + 1)
    <3>1. y \in backend /\ x.id \notin y.mask
      BY <1>2 DEF Survivors
    <3>2. Age(y.al) \in Int /\ Age(y.al) + 1 <= n
      BY <1>1, <1>3, <1>5, <3>1, BackendFacts DEF n
    <3>3. y.mask \cap BranchID = IDsBefore(U, Age(y.al) + 1)
      BY <1>1, <3>1 DEF MaskInv, U
    <3> QED
      BY <1>5, <1>15, <3>2, <3>3
  <2>2. Len(dispatch') = 0
    BY <1>2
  <2> QED
    BY <2>1, <2>2 DEF MaskInv
<1> QED
  BY <1>4, <1>13, <1>14, <1>16, <1>17, <1>18 DEF Tables

-----------------------------------------------------------------------------
(* Committing.  The register at the tail's next slot is the destination of *)
(* the oldest instruction that has one: it changes places with the         *)
(* committed version that it replaces.                                     *)

LEMMA SwapPartition ==
  ASSUME NEW list \in [Slot -> Phys], NEW A \in [Log -> Phys], Partition(list, A),
         NEW s \in Slot, NEW d \in Log
  PROVE  Partition([list EXCEPT ![s] = A[d]], [A EXCEPT ![d] = list[s]])
<1> DEFINE list2 == [list EXCEPT ![s] = A[d]]
           A2    == [A EXCEPT ![d] = list[s]]
<1>1. /\ \A t \in Slot : list2[t] = IF t = s THEN A[d] ELSE list[t]
      /\ \A l \in Log : A2[l] = IF l = d THEN list[s] ELSE A[l]
  OBVIOUS
<1> HIDE DEF list2, A2
<1>2. \A t, u \in Slot : list2[t] = list2[u] => t = u
  BY <1>1 DEF Partition
<1>3. \A l, m \in Log : A2[l] = A2[m] => l = m
  BY <1>1 DEF Partition
<1>4. \A t \in Slot, l \in Log : list2[t] # A2[l]
  BY <1>1 DEF Partition
<1>5. \A p \in Phys : (\E t \in Slot : list2[t] = p) \/ (\E l \in Log : A2[l] = p)
  <2> TAKE p \in Phys
  <2>1. CASE p = A[d] \/ p = list[s]
    BY <1>1, <2>1
  <2>2. CASE p # A[d] /\ p # list[s]
    BY <1>1, <2>2 DEF Partition
  <2> QED
    BY <2>1, <2>2
<1> QED
  BY <1>2, <1>3, <1>4, <1>5 DEF Partition, list2, A2

(* commit() of the head, as far as it goes: the ring and the map after it. *)
LEMMA CommittedIs ==
  ASSUME TablesInv, HeadCompleted
  PROVE  /\ Total \in Nat \ {0} /\ HeadOf.insn = Program[1].insn /\ HeadOf.pdst = Program[1].pdst
         /\ HeadOf.insn.dst \in Log
         /\ CommittedAMT = IF HasDest(Program[1].insn)
                             THEN [AMT EXCEPT ![Program[1].insn.dst] = Program[1].pdst] ELSE AMT
         /\ HasDest(Program[1].insn) =>
              /\ Program[1].pdst = free.list[NextSlot(free.tail)]
              /\ Dests(Program, 1) = 1
         /\ CommittedFree.tail = IF HasDest(Program[1].insn) THEN NextSlot(free.tail) ELSE free.tail
         /\ CommittedFree.list = IF HasDest(Program[1].insn)
                                   THEN [free.list EXCEPT ![NextSlot(free.tail)] = AMT[Program[1].insn.dst]]
                                   ELSE free.list
         /\ CommittedFree.head = free.head
         /\ Partition(CommittedFree.list, CommittedAMT)
<1>1. Rings /\ TypeInv /\ Tables /\ alHead # -1
  BY DEF TablesInv, Shapes, HeadCompleted
<1>2. /\ Used \in Nat /\ 1 \in 1 .. Used /\ alHead \in Slot /\ Total \in Nat \ {0}
  <2>1. Used \in Nat \ {0} /\ alHead \in Slot /\ Len(dispatch) \in Nat
    BY <1>1, UsedType, Sizes
  <2> QED
    BY <2>1 DEF Total
<1>3. HeadOf.insn = Program[1].insn /\ HeadOf.pdst = Program[1].pdst
  <2>1. Program[1] = [insn |-> al[Behind(alHead, 1 - 1)].insn, pdst |-> al[Behind(alHead, 1 - 1)].pdst]
    BY <1>1, <1>2, ProgramShape
  <2>2. 1 - 1 = 0 /\ Behind(alHead, 0) = alHead
    BY <1>2, BehindFirst
  <2>3. Program[1] = [insn |-> al[alHead].insn, pdst |-> al[alHead].pdst]
    BY <2>1, <2>2
  <2> QED
    BY <2>3 DEF HeadOf
<1>4. HeadOf.insn.dst \in Log
  BY <1>1, <1>2, EntryType DEF TypeInv, HeadOf
<1>5. free \in FreeList /\ free.tail \in Slot /\ free.head \in Slot /\ AMT \in [Log -> Phys] /\ free.tail # -1
  BY <1>1, TailIsSlot, Sizes
<1>6. ASSUME HasDest(Program[1].insn)
      PROVE  Program[1].pdst = free.list[NextSlot(free.tail)] /\ Dests(Program, 1) = 1
  <2>1. Dests(Program, 0 + 1) = Dests(Program, 0) + 1
    BY <1>6, DestsStep
  <2>2. Dests(Program, 1) = 1
    BY <2>1, DestsZero
  <2>3. Program[1].pdst = free.list[Behind(free.tail, 1)]
    BY <1>1, <1>2, <1>6, <2>2 DEF Tables, FreeInv, Lent
  <2> QED
    BY <1>5, <2>2, <2>3, BehindFirst
<1>7. CommittedAMT = IF HasDest(Program[1].insn)
                       THEN [AMT EXCEPT ![Program[1].insn.dst] = Program[1].pdst] ELSE AMT
  BY <1>3 DEF CommittedAMT
<1>8. /\ CommittedFree.tail = IF HasDest(Program[1].insn) THEN NextSlot(free.tail) ELSE free.tail
      /\ CommittedFree.list = IF HasDest(Program[1].insn)
                                THEN [free.list EXCEPT ![NextSlot(free.tail)] = AMT[Program[1].insn.dst]]
                                ELSE free.list
      /\ CommittedFree.head = free.head
  BY <1>3, <1>5 DEF CommittedFree, PushFree, FreeList
<1>9. Partition(CommittedFree.list, CommittedAMT)
  <2>1. Partition(free.list, AMT) /\ free.list \in [Slot -> Phys] /\ NextSlot(free.tail) \in Slot
    BY <1>1, <1>5, NextSlotType DEF Tables, FreeInv, FreeList
  <2>2. CASE HasDest(Program[1].insn)
    <3>1. Partition([free.list EXCEPT ![NextSlot(free.tail)] = AMT[Program[1].insn.dst]],
                    [AMT EXCEPT ![Program[1].insn.dst] = free.list[NextSlot(free.tail)]])
      BY <1>3, <1>4, <1>5, <2>1, SwapPartition
    <3> QED
      BY <1>6, <1>7, <1>8, <2>2, <3>1
  <2>3. CASE ~HasDest(Program[1].insn)
    BY <1>7, <1>8, <2>1, <2>3
  <2> QED
    BY <2>2, <2>3
<1> QED
  BY <1>2, <1>3, <1>4, <1>6, <1>7, <1>8, <1>9

LEMMA RetireCommitTables ==
  ASSUME TablesInv, Rings', RetireCommit
  PROVE  BackendInv' /\ Tables' /\ MaskInv'
<1> DEFINE U == Unresolved
           T == Total
           tail == free.tail
           h == HasDest(Program[1].insn)
           one == IF h THEN 1 ELSE 0
<1>1. Rings /\ BackendInv /\ Shapes /\ Tables /\ MaskInv /\ TypeInv /\ HeadCompleted
  BY DEF TablesInv, Shapes, RetireCommit
<1>2. /\ UNCHANGED <<al, dispatch, backend, RMT, GBM, chk>> /\ AdvanceHead
      /\ AMT' = CommittedAMT /\ free' = CommittedFree
  BY DEF RetireCommit, front
<1>3. /\ Used \in Nat \ {0} /\ Used' = Used - 1 /\ Total' = T - 1
      /\ Follows(Program, Program', 1, T - 1) /\ BackendInv'
      /\ \A y \in backend : Age(y.al)' = Age(y.al) - 1
      /\ \A b \in U : b.at \in 2 .. T
      /\ Unresolved' = {[at |-> b.at - 1, id |-> b.id] : b \in U}
  BY <1>1, <1>2, RetireCommitEffect
<1>4. /\ T \in Nat \ {0}
      /\ AMT' = IF h THEN [AMT EXCEPT ![Program[1].insn.dst] = Program[1].pdst] ELSE AMT
      /\ h => Dests(Program, 1) = 1
      /\ free'.tail = IF h THEN NextSlot(tail) ELSE tail
      /\ free'.list = IF h THEN [free.list EXCEPT ![NextSlot(tail)] = AMT[Program[1].insn.dst]]
                      ELSE free.list
      /\ free'.head = free.head
      /\ Partition(free'.list, AMT')
  BY <1>1, <1>2, CommittedIs
<1>5. /\ free \in FreeList /\ tail \in Slot /\ AMT \in [Log -> Phys] /\ NextSlot(tail) \in Slot
      /\ free.list \in [Slot -> Phys]
  BY <1>1, TailIsSlot, NextSlotType DEF FreeList
<1>6. /\ Dests(Program, T) < ListSize
      /\ \A j \in 1 .. T : HasDest(Program[j].insn) =>
                             Program[j].pdst = free.list[Behind(tail, Dests(Program, j))]
      /\ free.head = HeadAfter(tail, Program, T)
      /\ RMT = MapOver(AMT, Program, T)
  BY <1>1 DEF Tables, FreeInv, MapInv, Lent
<1> HIDE DEF U, T, tail, h
<1>7. T - 1 \in Nat /\ T - 1 \in 0 .. T - 1 /\ (T - 1) + 1 = T /\ T \in Nat
  BY <1>4
<1>8. \A k \in 0 .. T - 1 : /\ Dests(Program, k + 1) = Dests(Program', k) + one
                            /\ MapOver(AMT', Program', k) = MapOver(AMT, Program, k + 1)
                            /\ Dests(Program', k) \in Nat
                            /\ Dests(Program', k) + one < ListSize
  <2> TAKE k \in 0 .. T - 1
  <2>1. Dests(Program, k + 1) = Dests(Program', k) + one
    BY <1>3, <1>7, DestsTail DEF h
  <2>2. MapOver(AMT', Program', k) = MapOver(AMT, Program, k + 1)
    <3>1. AMT' = CommitFirst(AMT, Program)
      BY <1>4 DEF h, CommitFirst
    <3> QED
      BY <1>3, <1>5, <1>7, <3>1, MapTail
  <2>3. k + 1 \in Nat /\ k + 1 <= T /\ k \in Nat
    BY <1>7
  <2>4. Dests(Program, k + 1) <= Dests(Program, T)
    BY <1>7, <2>3, DestsMonotone
  <2>5. Dests(Program', k) \in Nat /\ Dests(Program, k + 1) \in Nat /\ Dests(Program, T) \in Nat
    BY <1>7, <2>3, DestsType
  <2> QED
    BY <1>6, <2>1, <2>2, <2>4, <2>5, Sizes
<1>9. \A c \in 0 .. ListSize - 1 : Behind(free'.tail, c) = Behind(tail, c + one)
  <2> TAKE c \in 0 .. ListSize - 1
  <2>1. CASE h
    BY <1>4, <1>5, <2>1, BehindNext
  <2>2. CASE ~h
    <3>1. c + one = c
      BY <2>2
    <3> QED
      BY <1>4, <2>2, <3>1
  <2> QED
    BY <2>1, <2>2
<1>10. \A k \in 0 .. T - 1 : HeadAfter(free'.tail, Program', k) = HeadAfter(tail, Program, k + 1)
  <2> TAKE k \in 0 .. T - 1
  <2> DEFINE c == Dests(Program', k) + 1
  <2>1. c \in 0 .. ListSize - 1 \/ (one = 0 /\ c \in 1 .. ListSize)
    BY <1>8, Sizes
  <2>2. Dests(Program, k + 1) + 1 = c + one
    BY <1>8
  <2>3. Behind(free'.tail, c) = Behind(tail, c + one)
    <3>1. CASE c \in 0 .. ListSize - 1
      <4> HIDE DEF c
      <4> QED
        BY <1>9, <3>1
    <3>2. CASE one = 0 /\ c \in 1 .. ListSize
      <4>1. free'.tail = tail /\ c + one = c
        BY <1>4, <3>2
      <4> HIDE DEF c
      <4> QED
        BY <4>1
    <3> QED
      BY <2>1, <3>1, <3>2
  <2> QED
    BY <2>2, <2>3 DEF HeadAfter
<1>11. FreeInv'
  <2>1. free'.head = HeadAfter(free'.tail, Program', T - 1)
    BY <1>4, <1>6, <1>7, <1>10
  <2>2. Dests(Program', T - 1) < ListSize
    BY <1>7, <1>8, Sizes
  <2>3. ASSUME NEW j \in 1 .. T - 1, HasDest(Program'[j].insn)
        PROVE  Program'[j].pdst = free'.list[Behind(free'.tail, Dests(Program', j))]
    <3> DEFINE c == Dests(Program', j)
    <3>1. /\ j \in 0 .. T - 1 /\ j + 1 \in 1 .. T /\ j \in Nat \ {0} /\ j - 1 \in Nat
          /\ (j - 1) + 1 = j
      BY <1>7
    <3>2. HasDest(Program[j + 1].insn) /\ Program'[j].pdst = Program[j + 1].pdst
      BY <1>3, <2>3 DEF Follows
    <3>3. c >= 1 /\ c \in Nat /\ c + one < ListSize
      <4>1. Dests(Program', (j - 1) + 1) =
              Dests(Program', j - 1) + (IF HasDest(Program'[(j - 1) + 1].insn) THEN 1 ELSE 0)
        BY <3>1, DestsStep
      <4>2. Dests(Program', j - 1) \in Nat
        BY <3>1, DestsType
      <4> QED
        BY <1>8, <2>3, <3>1, <4>1, <4>2
    <3>4. Program[j + 1].pdst = free.list[Behind(tail, c + one)]
      BY <1>6, <1>8, <3>1, <3>2
    <3> HIDE DEF c
    <3>5. c \in 0 .. ListSize - 1 /\ c + one \in 1 .. ListSize /\ 1 \in 1 .. ListSize /\ c + one \in 0 .. ListSize
      BY <3>3, Sizes
    <3>6. Behind(free'.tail, c) = Behind(tail, c + one) /\ Behind(tail, c + one) \in Slot
      BY <1>5, <1>9, <3>5, BehindType
    <3>7. free'.list[Behind(tail, c + one)] = free.list[Behind(tail, c + one)]
      <4>1. CASE h
        <5>1. c + one # 1
          BY <3>3, <4>1
        <5>2. Behind(tail, c + one) # Behind(tail, 1)
          BY <1>5, <3>5, <5>1, BehindInjective
        <5>3. Behind(tail, 1) = NextSlot(tail)
          BY <1>5, BehindFirst
        <5> QED
          BY <1>4, <1>5, <3>6, <4>1, <5>2, <5>3
      <4>2. CASE ~h
        BY <1>4, <4>2
      <4> QED
        BY <4>1, <4>2
    <3> QED
      BY <3>2, <3>4, <3>6, <3>7 DEF c
  <2> QED
    BY <1>3, <1>4, <2>1, <2>2, <2>3 DEF FreeInv, Lent
<1>12. MapInv'
  BY <1>2, <1>3, <1>6, <1>7, <1>8 DEF MapInv
<1>13. /\ IDs(Unresolved') = IDs(U)
       /\ \A k \in Int : IDsBefore(Unresolved', k) = IDsBefore(U, k + 1)
  <2>1. \A b \in U : b.at \in Int
    BY <1>3, <1>7
  <2> QED
    BY <1>3, <2>1, IDsEarlier
<1>14. \A c : c \in Unresolved' =>
         \E b \in U : /\ c.id = b.id /\ c.at = b.at - 1 /\ b.at \in 2 .. T
                      /\ c.at \in 0 .. T - 1 /\ c.at + 1 = b.at /\ c = [at |-> b.at - 1, id |-> b.id]
  <2> SUFFICES ASSUME NEW c, c \in Unresolved'
               PROVE  \E b \in U : /\ c.id = b.id /\ c.at = b.at - 1 /\ b.at \in 2 .. T
                                   /\ c.at \in 0 .. T - 1 /\ c.at + 1 = b.at
                                   /\ c = [at |-> b.at - 1, id |-> b.id]
    OBVIOUS
  <2>1. PICK b \in U : c = [at |-> b.at - 1, id |-> b.id]
    BY <1>3
  <2>2. c.id = b.id /\ c.at = b.at - 1
    BY <2>1
  <2>3. b.at \in 2 .. T
    BY <1>3
  <2> QED
    BY <1>7, <2>1, <2>2, <2>3
<1>15. CheckInv'
  <2> SUFFICES ASSUME NEW c, c \in Unresolved'
               PROVE  /\ chk[c.id].MT = MapOver(AMT', Program', c.at)
                      /\ chk[c.id].head = HeadAfter(free'.tail, Program', c.at)
                      /\ chk[c.id].recover \cap BranchID = IDsBefore(Unresolved', c.at)
    BY <1>2 DEF CheckInv
  <2>1. PICK b \in U : /\ c.id = b.id /\ c.at \in 0 .. T - 1 /\ c.at + 1 = b.at
    BY <1>14
  <2>2. /\ chk[b.id].MT = MapOver(AMT, Program, b.at)
        /\ chk[b.id].head = HeadAfter(tail, Program, b.at)
        /\ chk[b.id].recover \cap BranchID = IDsBefore(U, b.at)
    BY <1>1, <2>1 DEF Tables, CheckInv, U, tail
  <2> QED
    BY <1>8, <1>10, <1>13, <2>1, <2>2
<1>16. IDInv'
  <2>1. GBM \cap BranchID = IDs(U) /\ \A b, c \in U : b.id = c.id => b = c
    BY <1>1 DEF Tables, IDInv, U
  <2>2. \A b, c \in Unresolved' : b.id = c.id => b = c
    BY <1>14, <2>1
  <2> QED
    BY <1>2, <1>13, <2>1, <2>2 DEF IDInv
<1>17. MaskInv'
  <2> SUFFICES ASSUME ~PerfectBranchPred PROVE MaskInv'
    BY DEF MaskInv
  <2>1. /\ \A y \in backend : y.mask \cap BranchID = IDsBefore(U, Age(y.al) + 1)
        /\ \A k \in 1 .. Len(dispatch) : dispatch[k].mask \cap BranchID = IDsBefore(U, Used + k)
    BY <1>1 DEF MaskInv, U
  <2>2. ASSUME NEW y \in backend
        PROVE  y.mask \cap BranchID = IDsBefore(Unresolved', Age(y.al)' + 1)
    <3>1. Age(y.al) \in Int /\ Age(y.al)' = Age(y.al) - 1
      BY <1>1, <1>3, BackendFacts
    <3>2. Age(y.al)' + 1 \in Int /\ (Age(y.al)' + 1) + 1 = Age(y.al) + 1
      BY <3>1
    <3> QED
      BY <1>13, <2>1, <3>2
  <2>3. ASSUME NEW k \in 1 .. Len(dispatch)
        PROVE  dispatch[k].mask \cap BranchID = IDsBefore(Unresolved', Used' + k)
    <3>1. Used' + k \in Int /\ (Used' + k) + 1 = Used + k
      BY <1>3
    <3> QED
      BY <1>13, <2>1, <3>1
  <2> QED
    BY <1>2, <2>2, <2>3 DEF MaskInv
<1> QED
  BY <1>3, <1>11, <1>12, <1>15, <1>16, <1>17 DEF Tables

-----------------------------------------------------------------------------
(* squash(): the tail goes to just before the head, so that the ring is    *)
(* lent to nobody.                                                         *)

LEMMA SquashTables ==
  ASSUME Rings', TypeInv, NEW map \in [Log -> Phys], NEW fl \in FreeList, fl.head \in Slot,
         Partition(fl.list, map), AMT' = map, SquashComplete(map, fl)
  PROVE  BackendInv' /\ Tables' /\ MaskInv'
<1>1. /\ alHead' = -1 /\ dispatch' = <<>> /\ backend' = {}
      /\ free' = SquashFree(fl) /\ RMT' = map /\ GBM' = {}
  BY DEF SquashComplete
<1>2. Used' = 0 /\ Total' = 0 /\ Unresolved' = {} /\ BackendInv'
  BY <1>1, SquashEffect
<1>3. /\ free'.list = fl.list /\ free'.head = fl.head /\ free'.tail \in Slot
      /\ NextSlot(free'.tail) = fl.head
  BY <1>1, Sizes DEF SquashFree, FreeList, NextSlot, Slot
<1>4. FreeInv'
  <2>1. Dests(Program', 0) = 0
    BY DestsZero
  <2>2. Lent(free'.list, free'.tail, Program', 0)
    BY <2>1, Sizes DEF Lent
  <2>3. HeadAfter(free'.tail, Program', 0) = fl.head
    <3>1. Behind(free'.tail, 1) = fl.head
      BY <1>3, BehindFirst
    <3>2. 0 + 1 = 1
      OBVIOUS
    <3> QED
      BY <2>1, <3>1, <3>2 DEF HeadAfter
  <2> QED
    BY <1>2, <1>3, <2>2, <2>3 DEF FreeInv
<1>5. MapInv'
  <2>1. MapOver(map, Program', 0) = map
    BY MapZero
  <2> QED
    BY <1>1, <1>2, <2>1 DEF MapInv
<1>6. CheckInv' /\ IDInv'
  BY <1>1, <1>2 DEF CheckInv, IDInv, IDs
<1>7. MaskInv'
  <2>1. Len(dispatch') = 0
    BY <1>1
  <2> QED
    BY <1>1, <2>1 DEF MaskInv
<1> QED
  BY <1>2, <1>4, <1>5, <1>6, <1>7 DEF Tables

LEMMA RetireTables ==
  ASSUME TablesInv, Rings', RetireCommit \/ RetireSystem \/ RetireViolation \/ RetireException
  PROVE  BackendInv' /\ Tables' /\ MaskInv'
<1>1. TypeInv /\ free \in FreeList /\ free.head \in Slot /\ AMT \in [Log -> Phys]
  BY TailIsSlot DEF TablesInv, Shapes
<1>2. Partition(free.list, AMT)
  BY DEF TablesInv, Tables, FreeInv
<1>3. CASE RetireCommit
  BY <1>3, RetireCommitTables
<1>4. CASE RetireSystem
  <2>1. HeadCompleted /\ alHead # -1
    BY <1>4 DEF RetireSystem, HeadCompleted
  <2>2. /\ CommittedAMT \in [Log -> Phys] /\ CommittedFree \in FreeList
        /\ CommittedFree.head \in Slot
    BY <1>1, <2>1, CommittedType
  <2>3. Partition(CommittedFree.list, CommittedAMT)
    BY <2>1, CommittedIs
  <2>4. AMT' = CommittedAMT /\ SquashComplete(CommittedAMT, CommittedFree)
    BY <1>4 DEF RetireSystem
  <2> QED
    BY <1>1, <2>2, <2>3, <2>4, SquashTables
<1>5. CASE RetireViolation \/ RetireException
  <2>1. AMT' = AMT /\ SquashComplete(AMT, free)
    BY <1>5 DEF RetireViolation, RetireException
  <2> QED
    BY <1>1, <1>2, <2>1, SquashTables
<1> QED
  BY <1>3, <1>4, <1>5

(* The assumptions under which the tables are right: the Free List never   *)
(* runs dry (stall_reg() miscounts it), a branch ID has its own bit, and   *)
(* the Active List is larger than a bundle (stall_dispatch() miscounts a   *)
(* list of one).                                                           *)
Sound == KeepOneFree /\ NumBranches <= IntWidth /\ DispatchWidth < ListSize

LEMMA NextTables == Sound => (TablesInv /\ [Next]_vars => TablesInv')
<1> SUFFICES ASSUME Sound, TablesInv, [Next]_vars PROVE TablesInv'
  OBVIOUS
<1>1. KeepOneFree /\ NumBranches <= IntWidth /\ DispatchWidth < ListSize
  BY DEF Sound
<1>2. TypeInv /\ EntriesInv /\ Rings /\ RingEnds /\ BackendInv
  BY DEF TablesInv, Shapes, Rings
<1>3. TypeInv' /\ EntriesInv' /\ RingEnds'
  BY <1>1, <1>2, NextTypeInv, NextEntries, RingEndsKept
<1>4. Rings'
  BY <1>3 DEF Rings, TypeInv
<1>5. BackendInv' /\ Tables' /\ MaskInv'
  <2>1. CASE UNCHANGED vars
    <3>1. /\ UNCHANGED <<al, alHead, alTail, dispatch, backend>>
          /\ UNCHANGED <<free, AMT, RMT, chk, GBM>>
      BY <2>1 DEF vars
    <3>2. Used' = Used /\ InFlight' = InFlight /\ \A s : Age(s)' = Age(s)
      BY <3>1, SameList
    <3>3. BackendInv' /\ Unresolved' = Unresolved
      <4>1. BackendInv'
        BY <1>2, <3>1, <3>2 DEF BackendInv, BackendIsActiveList, InsnOf
      <4>2. Unresolved' = Unresolved
        BY <3>1, <3>2 DEF InsnOf, Unresolved
      <4> QED
        BY <4>1, <4>2
    <3>4. SameProgram
      BY <1>2, <1>4, <3>1, ProgramKept DEF KeepsEntries, KeepsBundle
    <3>5. Tables'
      BY <3>1, <3>3, <3>4, StableTables DEF TablesInv
    <3>6. MaskInv'
      BY <3>1, <3>3, SameMasks DEF TablesInv
    <3> QED
      BY <3>3, <3>5, <3>6
  <2>2. CASE (\E b \in Bundle : Rename2Begin(b)) \/ DispatchBegin
    BY <1>4, <2>2, BeginTables
  <2>3. CASE RenameOne
    BY <1>1, <1>4, <2>3, RenameOneTables
  <2>4. CASE DispatchOne
    BY <1>4, <2>4, DispatchOneTables
  <2>5. ASSUME NEW x \in backend, Execute(x) \/ LoadReplay(x) \/ Writeback(x)
        PROVE  BackendInv' /\ Tables' /\ MaskInv'
    BY <1>4, <2>5, LanesTables
  <2>6. ASSUME NEW x \in backend, ResolveCorrect(x)
        PROVE  BackendInv' /\ Tables' /\ MaskInv'
    BY <1>1, <1>4, <2>6, ResolveCorrectTables
  <2>7. ASSUME NEW x \in backend, ResolveMispredict(x)
        PROVE  BackendInv' /\ Tables' /\ MaskInv'
    BY <1>4, <2>7, ResolveMispredictTables
  <2>8. CASE RetireCommit \/ RetireSystem \/ RetireViolation \/ RetireException
    BY <1>4, <2>8, RetireTables
  <2> QED
    BY <2>1, <2>2, <2>3, <2>4, <2>5, <2>6, <2>7, <2>8 DEF Next
<1> QED
  BY <1>3, <1>4, <1>5 DEF TablesInv, Shapes

LEMMA AlwaysTables == Sound => (Spec => []TablesInv)
<1> SUFFICES ASSUME Sound PROVE Spec => []TablesInv
  OBVIOUS
<1>1. Init => TablesInv
  BY InitTables
<1>2. TablesInv /\ [Next]_vars => TablesInv'
  BY NextTables
<1> QED
  BY <1>1, <1>2, PTL DEF Spec

-----------------------------------------------------------------------------
(* The theorems.                                                           *)

LEMMA OlderIDsIs == \A k : OlderIDs(k) = IDsBefore(Unresolved, k)
BY DEF OlderIDs, IDsBefore

LEMMA BehindAdd ==
  \A s \in Slot, c \in 0 .. ListSize : \A d \in Nat :
    c + d <= ListSize => Behind(Behind(s, c), d) = Behind(s, c + d)
BY Sizes DEF Behind, Slot

(* The Rename Map Table is the committed map overlaid, in program order,   *)
(* by every instruction in the pipeline, whatever was renamed, recovered   *)
(* from a checkpoint, committed or squashed on the way.                    *)
THEOREM RenamerMap == Sound => (Spec => []MapIsProgramOrder)
<1> SUFFICES ASSUME Sound PROVE Spec => []MapIsProgramOrder
  OBVIOUS
<1>1. TablesInv => MapIsProgramOrder
  <2> SUFFICES ASSUME TablesInv PROVE MapIsProgramOrder
    OBVIOUS
  <2>1. Len(Program) = Total
    BY ProgramShape DEF TablesInv, Shapes
  <2>2. RMT = MapOver(AMT, Program, Total)
    BY DEF TablesInv, Tables, MapInv
  <2> QED
    BY <2>1, <2>2, MapIsOver DEF MapIsProgramOrder
<1> QED
  BY <1>1, AlwaysTables, PTL

(* What resolve() would restore from the checkpoint of an unresolved       *)
(* branch is the state just after that branch: the map, a head of the Free *)
(* List that gives back exactly the registers taken since, and the IDs of  *)
(* the older branches, through any order in which branches are resolved    *)
(* and their IDs used again.                                               *)
THEOREM RenamerCheckpointContents == Sound => (Spec => []CheckpointsExact)
<1> SUFFICES ASSUME Sound PROVE Spec => []CheckpointsExact
  OBVIOUS
<1>1. TablesInv => CheckpointsExact
  <2> SUFFICES ASSUME TablesInv, NEW b \in Unresolved
               PROVE  /\ chk[b.id].MT = MapAfter(Program, b.at)
                      /\ free.head = (chk[b.id].head
                           + Cardinality({j \in b.at + 1 .. Len(Program) : HasDest(Program[j].insn)}))
                           % ListSize
                      /\ chk[b.id].recover \cap BranchID = OlderIDs(b.at)
    BY DEF CheckpointsExact
  <2>1. Rings /\ BackendInv /\ TypeInv /\ FreeInv /\ CheckInv
    BY DEF TablesInv, Shapes, Tables
  <2>2. Len(Program) = Total /\ Total \in Nat /\ b.at \in 1 .. Total
    BY <2>1, ProgramShape, UsedType, UnresolvedFacts
  <2>3. /\ chk[b.id].MT = MapOver(AMT, Program, b.at)
        /\ chk[b.id].head = HeadAfter(free.tail, Program, b.at)
        /\ chk[b.id].recover \cap BranchID = IDsBefore(Unresolved, b.at)
    BY <2>1 DEF CheckInv
  <2> DEFINE taken == Cardinality(WithDest(Program, b.at + 1, Total))
             c == Dests(Program, b.at)
             D == Dests(Program, Total)
  <2>4. b.at \in Nat /\ b.at + 1 \in Int /\ b.at <= Total
    BY <2>2
  <2>5. taken \in Nat /\ D = c + taken /\ c \in Nat /\ D \in Nat
    <3>1. PICK n, i : n = Total /\ i = b.at
      OBVIOUS
    <3>2. n \in Nat /\ n \in Int /\ i \in Nat /\ i + 1 \in Int /\ i <= n
      BY <2>2, <2>4, <3>1
    <3>3. Cardinality(WithDest(Program, i + 1, n)) \in Nat
      BY <3>2, WritersFinite
    <3>4. Dests(Program, n) = Dests(Program, i) + Cardinality(WithDest(Program, i + 1, n))
      BY <3>2, DestsSplit
    <3>5. Dests(Program, n) \in Nat /\ Dests(Program, i) \in Nat
      BY <3>2, DestsType
    <3> QED
      BY <3>1, <3>3, <3>4, <3>5
  <2>6. D < ListSize /\ free.head = Behind(free.tail, D + 1) /\ free.tail \in Slot
    BY <2>1, TailIsSlot DEF FreeInv, Lent, HeadAfter
  <2>7. chk[b.id].head = Behind(free.tail, c + 1)
    BY <2>3 DEF HeadAfter
  <2>8. {j \in b.at + 1 .. Len(Program) : HasDest(Program[j].insn)} = WithDest(Program, b.at + 1, Total)
    BY <2>2 DEF WithDest
  <2>9. Cardinality({j \in b.at + 1 .. Len(Program) : HasDest(Program[j].insn)}) = taken
    BY <2>8
  <2> HIDE DEF taken, c, D
  <2>10. c + 1 \in 0 .. ListSize /\ (c + 1) + taken = D + 1 /\ D + 1 <= ListSize /\ taken \in 0 .. ListSize
    BY <2>5, <2>6, Sizes
  <2>11. Behind(chk[b.id].head, taken) = free.head /\ chk[b.id].head \in Slot
    <3>1. Behind(Behind(free.tail, c + 1), taken) = Behind(free.tail, (c + 1) + taken)
      BY <2>5, <2>6, <2>10, BehindAdd
    <3>2. Behind(free.tail, c + 1) \in Slot
      BY <2>6, <2>10, BehindType
    <3> QED
      BY <2>6, <2>7, <2>10, <3>1, <3>2
  <2>12. free.head = (chk[b.id].head + taken) % ListSize
    BY <2>10, <2>11, BehindMod
  <2> QED
    BY <2>3, <2>9, <2>12, MapIsOver, OlderIDsIs
<1> QED
  BY <1>1, AlwaysTables, PTL

(* The Global Branch Mask holds the IDs of the unresolved branches, no two *)
(* of which share one, and the mask of each instruction those of the older *)
(* branches: an ID that is free is in no mask, so that using it again      *)
(* cannot squash an instruction that did not depend on it.                 *)
THEOREM RenamerBranchMasks == (Sound /\ ~PerfectBranchPred) => (Spec => []BranchMasksExact)
<1> SUFFICES ASSUME Sound, ~PerfectBranchPred PROVE Spec => []BranchMasksExact
  OBVIOUS
<1>1. TablesInv => BranchMasksExact
  <2> SUFFICES ASSUME TablesInv PROVE BranchMasksExact
    OBVIOUS
  <2>1. Rings /\ IDInv /\ MaskInv
    BY DEF TablesInv, Shapes, Tables
  <2>2. DOMAIN dispatch = 1 .. Len(dispatch) /\ Cardinality(InFlight) = Used
    BY <2>1, LenProperties, UsedIsInFlight DEF Rings, TypeOK
  <2>3. /\ \A x \in backend : x.mask \cap BranchID = OlderIDs(Age(x.al) + 1)
        /\ \A k \in DOMAIN dispatch : dispatch[k].mask \cap BranchID = OlderIDs(Cardinality(InFlight) + k)
    BY <2>1, <2>2, OlderIDsIs DEF MaskInv
  <2> QED
    BY <2>1, <2>3 DEF BranchMasksExact, IDInv, IDs
<1> QED
  BY <1>1, AlwaysTables, PTL

(* The issue queue, the lanes and the stalled loads hold the uncompleted   *)
(* entries of the Active List, each once: the squash by branch mask in the *)
(* pipeline and the one by index in the renamer kill the same ones.        *)
THEOREM RenamerBackend == Sound => (Spec => []BackendIsActiveList)
<1> SUFFICES ASSUME Sound PROVE Spec => []BackendIsActiveList
  OBVIOUS
<1>1. TablesInv => BackendIsActiveList
  BY DEF TablesInv, Shapes, BackendInv
<1> QED
  BY <1>1, AlwaysTables, PTL

(* The slots that hold a free register are those behind the lent ones.     *)
LEMMA FreeSlotsAre ==
  TypeInv /\ FreeInv /\ Total \in Nat =>
    \A c \in 1 .. ListSize : Behind(free.tail, c) \in FreeSlots <=> c > Dests(Program, Total)
<1> SUFFICES ASSUME TypeInv, FreeInv, Total \in Nat, NEW c \in 1 .. ListSize
             PROVE  Behind(free.tail, c) \in FreeSlots <=> c > Dests(Program, Total)
  OBVIOUS
<1>1. PICK d : d = Dests(Program, Total)
  OBVIOUS
<1>2. d \in Nat /\ d < ListSize /\ free.head = Behind(free.tail, d + 1)
  BY <1>1, DestsType DEF FreeInv, Lent, HeadAfter
<1>3. free.tail \in Slot /\ free.head \in Slot
  BY TailIsSlot
<1>4. PICK h, t, s : h = free.head /\ t = free.tail /\ s = Behind(free.tail, c)
  OBVIOUS
<1>5. h \in Slot /\ t \in Slot /\ s \in Slot /\ h # -1
  <2>1. c \in 0 .. ListSize
    OBVIOUS
  <2>2. Behind(free.tail, c) \in Slot
    BY <1>3, <2>1, BehindType
  <2>3. -1 \notin Slot
    BY Sizes
  <2> QED
    BY <1>3, <1>4, <2>2, <2>3
<1>6. s \in FreeSlots <=> IF h <= t THEN h <= s /\ s <= t ELSE s >= h \/ s <= t
  BY <1>4, <1>5, Sizes DEF FreeSlots, Slot
<1>7. /\ s = IF t + c < ListSize THEN t + c ELSE t + c - ListSize
      /\ h = IF t + (d + 1) < ListSize THEN t + (d + 1) ELSE t + (d + 1) - ListSize
  BY <1>2, <1>4 DEF Behind
<1>8. s \in FreeSlots <=> c > d
  <2>1. /\ ListSize \in Nat \ {0} /\ h \in 0 .. ListSize - 1 /\ t \in 0 .. ListSize - 1
        /\ s \in 0 .. ListSize - 1 /\ c \in 1 .. ListSize
    BY <1>5, Sizes DEF Slot
  <2>2. CASE h <= t
    BY <1>2, <1>6, <1>7, <2>1, <2>2
  <2>3. CASE ~(h <= t)
    BY <1>2, <1>6, <1>7, <2>1, <2>3
  <2> QED
    BY <2>2, <2>3
<1> QED
  BY <1>1, <1>4, <1>8

(* Where the registers are: for each, one slot that is free or lent to one *)
(* instruction, or one entry of the committed map.                         *)
Holders(p) ==
  {<<"free", s>> : s \in {t \in FreeSlots : free.list[t] = p}}
  \cup {<<"map", l>> : l \in {m \in Log : AMT[m] = p}}
  \cup {<<"pipe", k>> : k \in {j \in 1 .. Total : HasDest(Program[j].insn) /\ Program[j].pdst = p}}

LEMMA OneHolder ==
  ASSUME TypeInv, FreeInv, Total \in Nat, NEW p \in Phys
  PROVE  \E x : Holders(p) = {x}
<1> DEFINE t == free.tail
           D == Dests(Program, Total)
<1>1. Partition(free.list, AMT) /\ Lent(free.list, t, Program, Total)
  BY DEF FreeInv
<1>2. t \in Slot /\ D \in Nat /\ FreeSlots \subseteq Slot
  <2>1. FreeSlots \subseteq Slot
    BY TailIsSlot, Sizes DEF FreeSlots, Slot
  <2> QED
    BY <2>1, TailIsSlot, DestsType
<1>3. \A c \in 1 .. ListSize : Behind(t, c) \in FreeSlots <=> c > D
  BY FreeSlotsAre
<1>4. \A j \in 1 .. Total :
        HasDest(Program[j].insn) =>
          /\ Dests(Program, j) \in 1 .. ListSize /\ Dests(Program, j) <= D
          /\ Program[j].pdst = free.list[Behind(t, Dests(Program, j))]
          /\ \A i \in 1 .. Total : i < j => Dests(Program, i) < Dests(Program, j)
  <2> SUFFICES ASSUME NEW j \in 1 .. Total, HasDest(Program[j].insn)
               PROVE  /\ Dests(Program, j) \in 1 .. ListSize /\ Dests(Program, j) <= D
                      /\ Program[j].pdst = free.list[Behind(t, Dests(Program, j))]
                      /\ \A i \in 1 .. Total : i < j => Dests(Program, i) < Dests(Program, j)
    OBVIOUS
  <2>1. D < ListSize /\ Program[j].pdst = free.list[Behind(t, Dests(Program, j))]
    BY <1>1 DEF Lent
  <2>2. 0 \in Nat /\ j \in Nat /\ j > 0 /\ Dests(Program, 0) = 0
    BY DestsZero
  <2>3. Dests(Program, 0) < Dests(Program, j)
    BY <2>2, DestsMonotone
  <2>4. Dests(Program, j) <= D
    <3>1. j <= Total /\ j \in Nat
      OBVIOUS
    <3> QED
      BY <3>1, DestsMonotone
  <2>5. Dests(Program, j) \in Nat
    BY <2>2, DestsType
  <2>6. ASSUME NEW i \in 1 .. Total, i < j PROVE Dests(Program, i) < Dests(Program, j)
    <3>1. i \in Nat /\ i <= j
      BY <2>6
    <3> QED
      BY <2>2, <2>6, <3>1, DestsMonotone
  <2> HIDE DEF D
  <2>7. Dests(Program, j) \in 1 .. ListSize
    BY <1>2, <2>1, <2>2, <2>3, <2>4, <2>5, Sizes
  <2> QED
    BY <2>1, <2>4, <2>6, <2>7
<1>5. CASE \E s \in Slot : free.list[s] = p
  <2>1. PICK s \in Slot : free.list[s] = p
    BY <1>5
  <2>2. \A u \in Slot : free.list[u] = p => u = s
    BY <1>1, <2>1 DEF Partition
  <2>3. \A l \in Log : AMT[l] # p
    BY <1>1, <2>1 DEF Partition
  <2>4. PICK c \in 1 .. ListSize : s = Behind(t, c)
    BY <1>2, BehindOnto
  <2>5. \A j \in 1 .. Total :
          HasDest(Program[j].insn) /\ Program[j].pdst = p => Dests(Program, j) = c
    <3> TAKE j \in 1 .. Total
    <3> HAVE HasDest(Program[j].insn) /\ Program[j].pdst = p
    <3>1. Dests(Program, j) \in 1 .. ListSize /\ free.list[Behind(t, Dests(Program, j))] = p
      BY <1>4
    <3>2. Dests(Program, j) \in 0 .. ListSize
      BY <3>1
    <3>3. Behind(t, Dests(Program, j)) \in Slot
      BY <1>2, <3>2, BehindType
    <3>4. Behind(t, Dests(Program, j)) = Behind(t, c)
      BY <2>2, <2>4, <3>1, <3>3
    <3> QED
      BY <1>2, <3>1, <3>4, BehindInjective
  <2>6. CASE c > D
    <3>1. {u \in FreeSlots : free.list[u] = p} = {s}
      BY <1>2, <1>3, <2>1, <2>2, <2>4, <2>6
    <3>2. \A j \in 1 .. Total : ~(HasDest(Program[j].insn) /\ Program[j].pdst = p)
      <4> HIDE DEF D
      <4> QED
        BY <1>2, <1>4, <2>5, <2>6
    <3>3. Holders(p) = {<<"free", s>>}
      <4>1. {m \in Log : AMT[m] = p} = {}
        BY <2>3
      <4>2. {j \in 1 .. Total : HasDest(Program[j].insn) /\ Program[j].pdst = p} = {}
        BY <3>2
      <4> QED
        BY <3>1, <4>1, <4>2 DEF Holders
    <3> QED
      BY <3>3
  <2>7. CASE ~(c > D)
    <3>1. c \in Nat \ {0} /\ c <= Dests(Program, Total)
      BY <1>2, <2>7
    <3>2. PICK j \in 1 .. Total : HasDest(Program[j].insn) /\ Dests(Program, j) = c
      BY <3>1, DestsReach
    <3>3. Program[j].pdst = p
      BY <1>4, <2>1, <2>4, <3>2
    <3>4. \A i \in 1 .. Total : HasDest(Program[i].insn) /\ Program[i].pdst = p => i = j
      <4> TAKE i \in 1 .. Total
      <4> HAVE HasDest(Program[i].insn) /\ Program[i].pdst = p
      <4>1. Dests(Program, i) = c
        BY <2>5
      <4>2. ~(i < j) /\ ~(j < i)
        BY <1>4, <3>2, <4>1
      <4> QED
        BY <4>2
    <3>5. {u \in FreeSlots : free.list[u] = p} = {}
      BY <1>2, <1>3, <2>2, <2>4, <2>7
    <3>6. {m \in Log : AMT[m] = p} = {}
      BY <2>3
    <3>7. {i \in 1 .. Total : HasDest(Program[i].insn) /\ Program[i].pdst = p} = {j}
      BY <3>2, <3>3, <3>4
    <3>8. Holders(p) = {<<"pipe", j>>}
      BY <3>5, <3>6, <3>7 DEF Holders
    <3> QED
      BY <3>8
  <2> QED
    BY <2>6, <2>7
<1>6. CASE ~\E s \in Slot : free.list[s] = p
  <2>1. PICK l \in Log : AMT[l] = p
    BY <1>1, <1>6 DEF Partition
  <2>2. {m \in Log : AMT[m] = p} = {l}
    BY <1>1, <2>1 DEF Partition
  <2>3. {u \in FreeSlots : free.list[u] = p} = {}
    BY <1>2, <1>6
  <2>4. {j \in 1 .. Total : HasDest(Program[j].insn) /\ Program[j].pdst = p} = {}
    <3>1. \A j \in 1 .. Total : HasDest(Program[j].insn) => Behind(t, Dests(Program, j)) \in Slot
      <4> TAKE j \in 1 .. Total
      <4> HAVE HasDest(Program[j].insn)
      <4>1. Dests(Program, j) \in 0 .. ListSize
        BY <1>4
      <4> QED
        BY <1>2, <4>1, BehindType
    <3> QED
      BY <1>4, <1>6, <3>1
  <2>5. Holders(p) = {<<"map", l>>}
    BY <2>2, <2>3, <2>4 DEF Holders
  <2> QED
    BY <2>5
<1> QED
  BY <1>5, <1>6

(* Every physical register is in one place and one only, free, committed   *)
(* or the destination of one instruction in flight: commit() and squash()  *)
(* leak none and rename_rdst() hands none out twice.                       *)
THEOREM RenamerFreeList == Sound => (Spec => []FreeListExact)
<1> SUFFICES ASSUME Sound PROVE Spec => []FreeListExact
  OBVIOUS
<1>1. TablesInv => FreeListExact
  <2> SUFFICES ASSUME TablesInv PROVE FreeListExact
    OBVIOUS
  <2>1. Rings /\ TypeInv /\ FreeInv
    BY DEF TablesInv, Shapes, Tables
  <2>2. Total \in Nat /\ DOMAIN Program = 1 .. Total
    BY <2>1, UsedType, ProgramShape
  <2>3. \A p \in Phys : \E x : Holders(p) = {x}
    BY <2>1, <2>2, OneHolder
  <2>4. \A p \in Phys : Cardinality(Holders(p)) = 1
    BY <2>3, FS_Singleton
  <2> QED
    BY <2>2, <2>4 DEF FreeListExact, Holders
<1> QED
  BY <1>1, AlwaysTables, PTL

(* With nothing in flight every register that is not committed is free and *)
(* the two maps agree, which renamer.h asks of squash().                   *)
THEOREM RenamerEmptyPipeline == Sound => (Spec => []EmptyPipelineConsistent)
<1> SUFFICES ASSUME Sound PROVE Spec => []EmptyPipelineConsistent
  OBVIOUS
<1>1. TablesInv => EmptyPipelineConsistent
  <2> SUFFICES ASSUME TablesInv, phase = "idle", alHead = -1, dispatch = <<>>
               PROVE  /\ {free.list[s] : s \in FreeSlots} = Phys \ {AMT[l] : l \in Log}
                      /\ RMT = AMT
    BY DEF EmptyPipelineConsistent
  <2>1. Rings /\ TypeInv /\ FreeInv /\ MapInv
    BY DEF TablesInv, Shapes, Tables
  <2>2. Total = 0 /\ Dests(Program, Total) = 0
    <3>1. Used = 0 /\ Len(dispatch) = 0
      BY DEF Used
    <3>2. Total = 0
      BY <3>1 DEF Total
    <3> QED
      BY <3>2, DestsZero
  <2>3. FreeSlots = Slot
    <3>1. FreeSlots \subseteq Slot
      BY <2>1, TailIsSlot, Sizes DEF FreeSlots, Slot
    <3>2. \A c \in 1 .. ListSize : Behind(free.tail, c) \in FreeSlots
      BY <2>1, <2>2, FreeSlotsAre
    <3>3. free.tail \in Slot
      BY <2>1, TailIsSlot
    <3> QED
      BY <3>1, <3>2, <3>3, BehindOnto
  <2>4. Partition(free.list, AMT) /\ free.list \in [Slot -> Phys]
    BY <2>1, TailIsSlot DEF FreeInv, FreeList
  <2>5. {free.list[s] : s \in FreeSlots} = Phys \ {AMT[l] : l \in Log}
    BY <2>3, <2>4 DEF Partition
  <2>6. RMT = AMT
    BY <2>1, <2>2, TailIsSlot, MapZero DEF MapInv
  <2> QED
    BY <2>5, <2>6
<1> QED
  BY <1>1, AlwaysTables, PTL

-----------------------------------------------------------------------------
(* Ready bits.  A register is written by the instruction it is lent to and *)
(* by no other, which is what the Free List being exact is for.            *)

LEMMA DestsApart ==
  TypeInv /\ FreeInv /\ Total \in Nat =>
    \A j \in 1 .. Total :
      HasDest(Program[j].insn) /\ Program[j].pdst \in Phys =>
        /\ \A l \in Log : AMT[l] # Program[j].pdst
        /\ \A i \in 1 .. Total :
             HasDest(Program[i].insn) /\ Program[i].pdst = Program[j].pdst => i = j
<1> SUFFICES ASSUME TypeInv, FreeInv, Total \in Nat, NEW j \in 1 .. Total,
                    HasDest(Program[j].insn), Program[j].pdst \in Phys
             PROVE  /\ \A l \in Log : AMT[l] # Program[j].pdst
                    /\ \A i \in 1 .. Total :
                         HasDest(Program[i].insn) /\ Program[i].pdst = Program[j].pdst => i = j
  OBVIOUS
<1>1. PICK x : Holders(Program[j].pdst) = {x}
  BY OneHolder
<1>2. <<"pipe", j>> \in Holders(Program[j].pdst)
  BY DEF Holders
<1>3. ASSUME NEW l \in Log PROVE AMT[l] # Program[j].pdst
  <2>1. AMT[l] = Program[j].pdst => <<"map", l>> \in Holders(Program[j].pdst)
    BY DEF Holders
  <2> QED
    BY <1>1, <1>2, <2>1
<1>4. ASSUME NEW i \in 1 .. Total, HasDest(Program[i].insn), Program[i].pdst = Program[j].pdst
      PROVE  i = j
  <2>1. <<"pipe", i>> \in Holders(Program[j].pdst)
    BY <1>4 DEF Holders
  <2>2. <<"pipe", i>> = <<"pipe", j>>
    BY <1>1, <1>2, <2>1
  <2> QED
    BY <2>2
<1> QED
  BY <1>3, <1>4

(* What is in flight, by slot, and the instruction to be dispatched next.  *)
LEMMA OwnRegister ==
  TablesInv =>
    /\ \A s \in InFlight : HasDest(al[s].insn) =>
         /\ \A l \in Log : AMT[l] # al[s].pdst
         /\ \A t \in InFlight : HasDest(al[t].insn) /\ al[t].pdst = al[s].pdst => t = s
    /\ dispatch # <<>> /\ HasDest(Head(dispatch).insn) =>
         /\ \A l \in Log : AMT[l] # Head(dispatch).pdst
         /\ \A t \in InFlight : HasDest(al[t].insn) => al[t].pdst # Head(dispatch).pdst
<1> SUFFICES ASSUME TablesInv
             PROVE  /\ \A s \in InFlight : HasDest(al[s].insn) =>
                         /\ \A l \in Log : AMT[l] # al[s].pdst
                         /\ \A t \in InFlight : HasDest(al[t].insn) /\ al[t].pdst = al[s].pdst => t = s
                    /\ dispatch # <<>> /\ HasDest(Head(dispatch).insn) =>
                         /\ \A l \in Log : AMT[l] # Head(dispatch).pdst
                         /\ \A t \in InFlight : HasDest(al[t].insn) => al[t].pdst # Head(dispatch).pdst
  OBVIOUS
<1>1. Rings /\ TypeInv /\ FreeInv /\ al \in [Slot -> Entry] /\ dispatch \in Seq(Renamed)
  BY DEF TablesInv, Shapes, Tables, Rings, TypeOK
<1>2. Used \in Nat /\ Len(dispatch) \in Nat /\ Total = Used + Len(dispatch) /\ Total \in Nat
  BY <1>1, UsedType, Sizes DEF Total
<1>3. \A j \in 1 .. Total :
        HasDest(Program[j].insn) /\ Program[j].pdst \in Phys =>
          /\ \A l \in Log : AMT[l] # Program[j].pdst
          /\ \A i \in 1 .. Total :
               HasDest(Program[i].insn) /\ Program[i].pdst = Program[j].pdst => i = j
  BY <1>1, <1>2, DestsApart
<1>4. ASSUME NEW s \in InFlight
      PROVE  /\ al[s].pdst \in Phys
             /\ \E j \in 1 .. Total :
                  /\ j <= Used /\ Behind(alHead, j - 1) = s
                  /\ Program[j].insn = al[s].insn /\ Program[j].pdst = al[s].pdst
  <2>1. s \in Slot /\ alHead # -1
    BY <1>1, InFlightSlots
  <2>2. PICK a : a = Age(s)
    OBVIOUS
  <2>3. a \in 0 .. ListSize - 1 /\ a < Used /\ Behind(alHead, a) = s
    BY <1>1, <2>1, <2>2, Ages
  <2>4. a + 1 \in 1 .. Used /\ (a + 1) - 1 = a /\ a + 1 \in 1 .. Total /\ a + 1 <= Used
    BY <1>2, <2>3
  <2>5. Program[a + 1] = [insn |-> al[s].insn, pdst |-> al[s].pdst]
    BY <1>1, <2>3, <2>4, ProgramShape
  <2>6. Program[a + 1].insn = al[s].insn /\ Program[a + 1].pdst = al[s].pdst
    BY <2>5
  <2>7. al[s].pdst \in Phys
    BY <1>1, <2>1 DEF Entry
  <2> QED
    BY <2>3, <2>4, <2>6, <2>7
<1>6. ASSUME NEW s \in InFlight, HasDest(al[s].insn)
      PROVE  /\ \A l \in Log : AMT[l] # al[s].pdst
             /\ \A t \in InFlight : HasDest(al[t].insn) /\ al[t].pdst = al[s].pdst => t = s
  <2>1. PICK j \in 1 .. Total : /\ Behind(alHead, j - 1) = s
                               /\ Program[j].insn = al[s].insn /\ Program[j].pdst = al[s].pdst
    BY <1>4
  <2>2. HasDest(Program[j].insn) /\ Program[j].pdst \in Phys
    BY <1>4, <1>6, <2>1
  <2>3. /\ \A l \in Log : AMT[l] # Program[j].pdst
        /\ \A i \in 1 .. Total :
             HasDest(Program[i].insn) /\ Program[i].pdst = Program[j].pdst => i = j
    BY <1>3, <2>2
  <2>4. ASSUME NEW t \in InFlight, HasDest(al[t].insn), al[t].pdst = al[s].pdst PROVE t = s
    <3>1. PICK i \in 1 .. Total : /\ Behind(alHead, i - 1) = t
                                 /\ Program[i].insn = al[t].insn /\ Program[i].pdst = al[t].pdst
      BY <1>4
    <3>2. i = j
      BY <2>1, <2>3, <2>4, <3>1
    <3> QED
      BY <2>1, <3>1, <3>2
  <2> QED
    BY <2>1, <2>3, <2>4
<1>7. ASSUME dispatch # <<>>, HasDest(Head(dispatch).insn)
      PROVE  /\ \A l \in Log : AMT[l] # Head(dispatch).pdst
             /\ \A t \in InFlight : HasDest(al[t].insn) => al[t].pdst # Head(dispatch).pdst
  <2>1. Len(dispatch) # 0 /\ Head(dispatch) = dispatch[1]
    BY <1>1, <1>7, HeadTailProperties, EmptySeq
  <2>2. 1 \in 1 .. Len(dispatch) /\ Used + 1 \in 1 .. Total
    BY <1>2, <2>1
  <2>3. Program[Used + 1] = [insn |-> Head(dispatch).insn, pdst |-> Head(dispatch).pdst]
    BY <1>1, <2>1, <2>2, ProgramShape
  <2>4. Head(dispatch).pdst \in Phys
    <3>1. dispatch[1] \in Renamed
      BY <1>1, <2>2, ElementOfSeq
    <3> QED
      BY <2>1, <3>1 DEF Renamed
  <2>5. /\ \A l \in Log : AMT[l] # Program[Used + 1].pdst
        /\ \A i \in 1 .. Total :
             HasDest(Program[i].insn) /\ Program[i].pdst = Program[Used + 1].pdst => i = Used + 1
    BY <1>3, <1>7, <2>2, <2>3, <2>4
  <2>6. ASSUME NEW t \in InFlight, HasDest(al[t].insn) PROVE al[t].pdst # Head(dispatch).pdst
    <3>1. PICK i \in 1 .. Total : /\ i <= Used
                                 /\ Program[i].insn = al[t].insn /\ Program[i].pdst = al[t].pdst
      BY <1>4
    <3>2. i # Used + 1
      BY <1>2, <3>1
    <3> QED
      BY <2>3, <2>5, <2>6, <3>1, <3>2
  <2> QED
    BY <2>3, <2>5, <2>6
<1> QED
  BY <1>6, <1>7

Waiting(s) == \E x \in backend : x.al = s /\ x.stage # "done"

(* A step that produces nothing: what leaves the lanes was done.           *)
LEMMA NothingProduced ==
  ASSUME BackendInv, BackendInv', ReadyBitsExact, UNCHANGED ready,
         InFlight' \subseteq InFlight,
         \A l \in Log : ready[AMT'[l]],
         \A s \in InFlight' :
           /\ al'[s].insn = al[s].insn /\ al'[s].pdst = al[s].pdst
           /\ al'[s].completed => al[s].completed \/ \E x \in backend : x.al = s /\ x.stage = "done",
         \A y \in backend' : \E w \in backend : y.al = w.al /\ (y.stage = "done" <=> w.stage = "done")
  PROVE  ReadyBitsExact'
<1>1. ASSUME NEW s \in InFlight' PROVE Waiting(s) <=> \E y \in backend' : y.al = s /\ y.stage # "done"
  <2>1. ASSUME NEW y \in backend', y.al = s, y.stage # "done" PROVE Waiting(s)
    BY <2>1 DEF Waiting
  <2>2. ASSUME NEW x \in backend, x.al = s, x.stage # "done"
        PROVE  \E y \in backend' : y.al = s /\ y.stage # "done"
    <3>1. ~al[s].completed /\ \A z \in backend : z.al = s => z = x
      BY <2>2 DEF BackendInv, BackendIsActiveList
    <3>2. ~al'[s].completed
      BY <2>2, <3>1
    <3>3. PICK y \in backend' : y.al = s
      BY <3>2 DEF BackendInv, BackendIsActiveList
    <3> QED
      BY <2>2, <3>1, <3>3
  <2> QED
    BY <2>1, <2>2 DEF Waiting
<1>2. ASSUME NEW s \in InFlight', HasDest(al'[s].insn)
      PROVE  ready'[al'[s].pdst] <=> ~\E y \in backend' : y.al = s /\ y.stage # "done"
  BY <1>1, <1>2 DEF ReadyBitsExact, Waiting
<1> QED
  BY <1>2 DEF ReadyBitsExact

(* A step in which x produces its value, if it has one to produce.         *)
LEMMA Produced ==
  ASSUME TablesInv, ReadyBitsExact, UNCHANGED <<AMT, alHead, alTail>>, KeepsEntries,
         NEW x \in backend,
         ready' = IF HasDest(InsnOf(x)) THEN [ready EXCEPT ![DestOf(x)] = TRUE] ELSE ready,
         \A y \in backend' : y.al = x.al => y.stage = "done",
         \A y : y.al # x.al => (y \in backend' <=> y \in backend)
  PROVE  ReadyBitsExact'
<1>1. Rings /\ BackendInv /\ ready \in [Phys -> BOOLEAN] /\ AMT \in [Log -> Phys]
  BY DEF TablesInv, Shapes, Rings, TypeOK
<1>2. InFlight' = InFlight /\ InFlight \subseteq Slot
  BY <1>1, SameList, InFlightSlots
<1>3. x.al \in InFlight
  BY <1>1, BackendFacts
<1>4. \A s \in InFlight : HasDest(al[s].insn) =>
         /\ \A l \in Log : AMT[l] # al[s].pdst
         /\ \A t \in InFlight : HasDest(al[t].insn) /\ al[t].pdst = al[s].pdst => t = s
  BY OwnRegister
<1>5. \A l \in Log : ready'[AMT[l]]
  BY <1>1, <1>3, <1>4 DEF ReadyBitsExact, InsnOf, DestOf
<1>6. ASSUME NEW s \in InFlight, HasDest(al[s].insn)
      PROVE  ready'[al[s].pdst] <=> ~\E y \in backend' : y.al = s /\ y.stage # "done"
  <2>1. CASE s = x.al
    <3>1. al[s].pdst \in Phys
      BY <1>1, <1>2 DEF Rings, TypeOK, Entry
    <3>2. ready'[al[s].pdst]
      BY <1>1, <1>6, <2>1, <3>1 DEF InsnOf, DestOf
    <3> QED
      BY <2>1, <3>2
  <2>2. CASE s # x.al
    <3>1. ready'[al[s].pdst] = ready[al[s].pdst]
      <4>1. HasDest(al[x.al].insn) => al[x.al].pdst # al[s].pdst
        BY <1>3, <1>4, <1>6, <2>2
      <4>2. al[s].pdst \in Phys
        BY <1>1, <1>2 DEF Rings, TypeOK, Entry
      <4> QED
        BY <1>1, <4>1, <4>2 DEF InsnOf, DestOf
    <3>2. ready[al[s].pdst] <=> ~\E y \in backend : y.al = s /\ y.stage # "done"
      BY <1>6 DEF ReadyBitsExact
    <3>3. (\E y \in backend : y.al = s /\ y.stage # "done") <=> (\E y \in backend' : y.al = s /\ y.stage # "done")
      BY <2>2
    <3> QED
      BY <3>1, <3>2, <3>3
  <2> QED
    BY <2>1, <2>2
<1>7. \A s \in InFlight : al'[s].insn = al[s].insn /\ al'[s].pdst = al[s].pdst
  BY <1>2 DEF KeepsEntries
<1> QED
  BY <1>2, <1>5, <1>6, <1>7 DEF ReadyBitsExact

LEMMA ExecuteReady ==
  ASSUME "load_x0" \notin Kinds, TablesInv, TablesInv', ReadyBitsExact,
         NEW x \in backend, Execute(x) \/ LoadReplay(x) \/ Writeback(x)
  PROVE  ReadyBitsExact'
<1>1. /\ Rings /\ Rings' /\ BackendInv /\ BackendInv' /\ al \in [Slot -> Entry]
      /\ x \in Flying /\ x.al \in InFlight /\ x.al \in Slot /\ InsnOf(x).kind # "load_x0"
  <2>1. Rings /\ Rings' /\ BackendInv /\ BackendInv' /\ al \in [Slot -> Entry]
    BY DEF TablesInv, Shapes, Rings, TypeOK
  <2>2. x \in Flying /\ x.al \in InFlight /\ x.al \in Slot
    BY <2>1, BackendFacts
  <2> QED
    BY <2>1, <2>2 DEF BackendInv, InsnOf
<1>2. UNCHANGED <<AMT, alHead, alTail>> /\ InFlight' = InFlight /\ InFlight \subseteq Slot
  <2>1. UNCHANGED <<free, alHead, alTail, maps, front>>
    BY <1>1, ExecuteEffect, ReplayWritebackEffect
  <2> QED
    BY <1>1, <2>1, SameList, InFlightSlots DEF maps
<1>3. KeepsEntries
  <2>1. CASE ExecuteStore(x)
    <3>1. CASE UNCHANGED al
      BY <3>1 DEF KeepsEntries
    <3>2. CASE \E s \in ExecutedLoads(x) : al' = [al EXCEPT ![s].load_violation = TRUE]
      <4>1. PICK s \in Slot : al' = [al EXCEPT ![s].load_violation = TRUE]
        BY <1>2, <3>2 DEF ExecutedLoads
      <4> QED
        BY <1>1, <4>1 DEF KeepsEntries, Entry
    <3> QED
      BY <2>1, <3>1, <3>2 DEF ExecuteStore
  <2>2. CASE ExecuteAlu(x) \/ ExecuteSystem(x) \/ ExecuteLoadHit(x) \/ ExecuteLoadMiss(x)
    BY <1>1, <2>2 DEF ExecuteAlu, ExecuteSystem, ExecuteLoadHit, ExecuteLoadMiss, lists,
       KeepsEntries, Entry
  <2>3. CASE LoadReplay(x) \/ Writeback(x)
    BY <1>1, <2>3 DEF LoadReplay, Writeback, Complete, KeepsEntries, Entry
  <2> QED
    BY <2>1, <2>2, <2>3 DEF Execute
<1>4. \A y \in backend : y.al = x.al => y = x
  BY DEF TablesInv, Shapes, BackendInv, BackendIsActiveList
<1>5. ASSUME x.stage = "queued", backend' = MoveTo(x, "done"),
             ready' = IF HasDest(InsnOf(x)) THEN [ready EXCEPT ![DestOf(x)] = TRUE] ELSE ready
      PROVE  ReadyBitsExact'
  <2>1. PICK z : z = [x EXCEPT !.stage = "done"]
    OBVIOUS
  <2>2. z.al = x.al /\ z.stage = "done"
    BY <1>1, <2>1 DEF Flying
  <2>3. \A y : y \in backend' <=> (y \in backend /\ y # x) \/ y = z
    BY <1>5, <2>1 DEF MoveTo
  <2>4. \A y \in backend' : y.al = x.al => y.stage = "done"
    BY <1>4, <2>2, <2>3
  <2>5. \A y : y.al # x.al => (y \in backend' <=> y \in backend)
    BY <2>2, <2>3
  <2> QED
    BY <1>2, <1>3, <1>5, <2>4, <2>5, Produced
<1>6. CASE ExecuteAlu(x) \/ ExecuteSystem(x) \/ ExecuteLoadHit(x) \/ ExecuteStore(x)
  <2>1. x.stage = "queued" /\ backend' = MoveTo(x, "done")
    BY <1>6 DEF ExecuteAlu, ExecuteSystem, ExecuteLoadHit, ExecuteStore, Issues
  <2>2. ready' = IF HasDest(InsnOf(x)) THEN [ready EXCEPT ![DestOf(x)] = TRUE] ELSE ready
    <3>1. CASE ExecuteAlu(x)
      BY <3>1 DEF ExecuteAlu, WriteRegister
    <3>2. CASE ExecuteSystem(x)
      BY <3>2 DEF ExecuteSystem, WriteRegister, IsSystem, HasDest
    <3>3. CASE ExecuteLoadHit(x)
      <4>1. HasDest(InsnOf(x))
        BY <1>1, <3>3 DEF ExecuteLoadHit, IsLoad, HasDest
      <4> QED
        BY <3>3, <4>1 DEF ExecuteLoadHit, LoadTarget, WriteRegister
    <3>4. CASE ExecuteStore(x)
      BY <3>4 DEF ExecuteStore, HasDest
    <3> QED
      BY <1>6, <3>1, <3>2, <3>3, <3>4
  <2> QED
    BY <1>5, <2>1, <2>2
<1>7. CASE LoadReplay(x)
  <2>1. /\ backend' = backend \ {x} /\ HasDest(InsnOf(x))
        /\ ready' = [ready EXCEPT ![DestOf(x)] = TRUE]
    BY <1>7 DEF LoadReplay, WriteRegister
  <2>2. \A y \in backend' : y.al = x.al => y.stage = "done"
    BY <1>4, <2>1
  <2>3. \A y : y.al # x.al => (y \in backend' <=> y \in backend)
    BY <2>1
  <2> QED
    BY <1>2, <1>3, <2>1, <2>2, <2>3, Produced
<1>8. /\ \A l \in Log : ready[AMT'[l]]
      /\ \A s \in InFlight' : al'[s].insn = al[s].insn /\ al'[s].pdst = al[s].pdst
  BY <1>2, <1>3 DEF ReadyBitsExact, KeepsEntries
<1>9. CASE ExecuteLoadMiss(x)
  <2>1. x.stage = "queued" /\ backend' = MoveTo(x, "missed") /\ UNCHANGED <<ready, al>>
    BY <1>9 DEF ExecuteLoadMiss, Issues, lists
  <2>2. PICK z : z = [x EXCEPT !.stage = "missed"]
    OBVIOUS
  <2>3. z.al = x.al /\ z.stage = "missed"
    BY <1>1, <2>2 DEF Flying
  <2>4. \A y \in backend' : \E w \in backend : y.al = w.al /\ (y.stage = "done" <=> w.stage = "done")
    BY <2>1, <2>2, <2>3 DEF MoveTo
  <2> QED
    BY <1>1, <1>2, <1>8, <2>1, <2>4, NothingProduced
<1>10. CASE Writeback(x)
  <2>1. x.stage = "done" /\ backend' = backend \ {x} /\ Complete(x) /\ UNCHANGED ready
    BY <1>10 DEF Writeback
  <2>2. \A s \in Slot : s # x.al => al'[s].completed = al[s].completed
    BY <1>1, <2>1 DEF Complete
  <2>3. \A s \in InFlight' : al'[s].completed =>
           al[s].completed \/ \E w \in backend : w.al = s /\ w.stage = "done"
    BY <1>2, <2>1, <2>2
  <2>4. \A y \in backend' : \E w \in backend : y.al = w.al /\ (y.stage = "done" <=> w.stage = "done")
    BY <2>1
  <2> QED
    BY <1>1, <1>2, <1>8, <2>1, <2>3, <2>4, NothingProduced
<1> QED
  BY <1>6, <1>7, <1>9, <1>10 DEF Execute

LEMMA ResolveReady ==
  ASSUME TablesInv, TablesInv', ReadyBitsExact,
         NEW x \in backend, ResolveCorrect(x) \/ ResolveMispredict(x)
  PROVE  ReadyBitsExact'
<1>1. /\ Rings /\ Rings' /\ BackendInv /\ BackendInv' /\ al \in [Slot -> Entry]
      /\ backend \subseteq Flying
  BY DEF TablesInv, Shapes, Rings, TypeOK
<1>2. x.stage = "done" /\ Complete(x) /\ UNCHANGED <<ready, AMT>>
  BY DEF ResolveCorrect, ResolveMispredict
<1>3. InFlight' \subseteq InFlight /\ InFlight \subseteq Slot
  <2>1. InFlight \subseteq Slot /\ InFlight' \subseteq Slot
    BY <1>1, InFlightSlots, AfterStep
  <2>2. CASE ResolveCorrect(x)
    BY <2>1, <2>2, SameList DEF ResolveCorrect
  <2>3. CASE ResolveMispredict(x)
    <3>1. \A s \in Slot : s \in InFlight' <=> Age(s) <= Age(x.al)
      BY <1>1, <2>3, MispredictRing
    <3>2. alHead # -1 /\ Age(x.al) < Used /\ Age(x.al) \in Nat /\ Used \in Nat
      BY <1>1, <2>3, MispredictRing, UsedType, Sizes
    <3>3. \A s \in Slot : Age(s) \in 0 .. ListSize - 1 /\ (s \in InFlight <=> Age(s) < Used)
      BY <1>1, <3>2, Ages
    <3>4. ASSUME NEW s \in InFlight' PROVE s \in InFlight
      <4>1. PICK a, b, u : a = Age(s) /\ b = Age(x.al) /\ u = Used
        OBVIOUS
      <4>2. a <= b /\ b < u /\ a \in Int /\ b \in Int /\ u \in Int
        BY <2>1, <3>1, <3>2, <3>3, <4>1
      <4>3. a < u
        BY <4>2
      <4> QED
        BY <2>1, <3>3, <4>1, <4>3
    <3> QED
      BY <2>1, <3>4
  <2> QED
    BY <2>2, <2>3
<1>4. /\ \A s \in Slot : al'[s].insn = al[s].insn /\ al'[s].pdst = al[s].pdst
      /\ \A s \in Slot : s # x.al => al'[s].completed = al[s].completed
  BY <1>1, <1>2 DEF Complete, Entry
<1>5. \A s \in InFlight' :
        /\ al'[s].insn = al[s].insn /\ al'[s].pdst = al[s].pdst
        /\ al'[s].completed => al[s].completed \/ \E w \in backend : w.al = s /\ w.stage = "done"
  BY <1>2, <1>3, <1>4
<1>6. \A y \in backend' : \E w \in backend : y.al = w.al /\ (y.stage = "done" <=> w.stage = "done")
  <2>1. CASE ResolveCorrect(x)
    <3>1. \A y \in backend : Unmask(y, x.id).al = y.al /\ Unmask(y, x.id).stage = y.stage
      BY <1>1 DEF Unmask, Flying
    <3> QED
      BY <2>1, <3>1 DEF ResolveCorrect
  <2>2. CASE ResolveMispredict(x)
    BY <2>2 DEF ResolveMispredict, Survivors
  <2> QED
    BY <2>1, <2>2
<1>7. \A l \in Log : ready[AMT'[l]]
  BY <1>2 DEF ReadyBitsExact
<1> QED
  BY <1>1, <1>2, <1>3, <1>5, <1>6, <1>7, NothingProduced

LEMMA DispatchOneReady ==
  ASSUME TablesInv, TablesInv', ReadyBitsExact, DispatchOne
  PROVE  ReadyBitsExact'
<1>1. /\ Rings /\ Rings' /\ BackendInv /\ al \in [Slot -> Entry] /\ AMT \in [Log -> Phys]
      /\ ready \in [Phys -> BOOLEAN] /\ dispatch # <<>> /\ dispatch \in Seq(Renamed)
  BY DEF TablesInv, Shapes, Rings, TypeOK, TypeInv, LoopsHaveWork, DispatchOne
<1>2. Used < ListSize
  <2>1. Len(dispatch) \in Nat \ {0}
    BY <1>1, DispatchedInstruction
  <2>2. Used + Len(dispatch) <= ListSize
    BY DEF TablesInv, Shapes, EntriesInv, DispatchOne
  <2>3. Used \in Int /\ ListSize \in Int
    BY <1>1, UsedType, Sizes
  <2> QED
    BY <2>1, <2>2, <2>3
<1>3. PICK s, d : s = DispatchSlot /\ d = Head(dispatch)
  OBVIOUS
<1>4. s \in Slot /\ s \notin InFlight /\ InFlight' = InFlight \cup {s} /\ InFlight \subseteq Slot
  BY <1>1, <1>2, <1>3, DispatchRing, InFlightSlots
<1>5. /\ d \in Renamed
      /\ \A t \in Slot : t # s => al'[t] = al[t]
      /\ al'[s].insn = d.insn /\ (HasDest(d.insn) => al'[s].pdst = d.pdst)
  BY <1>1, <1>3, <1>4, DispatchedInstruction
<1>6. /\ AMT' = AMT
      /\ ready' = IF HasDest(d.insn) THEN [ready EXCEPT ![d.pdst] = FALSE] ELSE ready
      /\ backend' = IF SkipsIQ(d.insn) THEN backend
                    ELSE backend \cup {[al |-> s, psrc |-> d.psrc, mask |-> d.mask,
                                        id |-> d.id, stage |-> "queued"]}
  BY <1>3 DEF DispatchOne, ReadyAtDispatch, maps
<1>7. HasDest(d.insn) =>
        /\ \A l \in Log : AMT[l] # d.pdst
        /\ \A t \in InFlight : HasDest(al[t].insn) => al[t].pdst # d.pdst
  BY <1>1, <1>3, OwnRegister
<1>8. \A l \in Log : ready'[AMT[l]]
  BY <1>1, <1>6, <1>7 DEF ReadyBitsExact
<1>9. ASSUME NEW t \in InFlight, HasDest(al[t].insn)
      PROVE  ready'[al[t].pdst] <=> ~\E y \in backend' : y.al = t /\ y.stage # "done"
  <2>1. al[t].pdst \in Phys /\ t # s
    BY <1>1, <1>4 DEF Entry
  <2>2. ready'[al[t].pdst] = ready[al[t].pdst]
    BY <1>1, <1>6, <1>7, <1>9, <2>1
  <2>3. (\E y \in backend : y.al = t /\ y.stage # "done") <=> (\E y \in backend' : y.al = t /\ y.stage # "done")
    BY <1>6, <2>1
  <2> QED
    BY <1>9, <2>2, <2>3 DEF ReadyBitsExact
<1>10. ASSUME HasDest(d.insn)
       PROVE  ready'[d.pdst] <=> ~\E y \in backend' : y.al = s /\ y.stage # "done"
  <2>1. d.pdst \in Phys /\ ~SkipsIQ(d.insn)
    BY <1>5, <1>10 DEF Renamed, HasDest, SkipsIQ
  <2>2. ~ready'[d.pdst]
    BY <1>1, <1>6, <1>10, <2>1
  <2>3. \E y \in backend' : y.al = s /\ y.stage # "done"
    <3>1. PICK z : z = [al |-> s, psrc |-> d.psrc, mask |-> d.mask, id |-> d.id, stage |-> "queued"]
      OBVIOUS
    <3>2. z.al = s /\ z.stage = "queued"
      BY <3>1
    <3>3. z \in backend'
      BY <1>6, <2>1, <3>1
    <3> QED
      BY <3>2, <3>3
  <2> QED
    BY <2>2, <2>3
<1>11. ASSUME NEW t \in InFlight', HasDest(al'[t].insn)
       PROVE  ready'[al'[t].pdst] <=> ~\E y \in backend' : y.al = t /\ y.stage # "done"
  <2>1. CASE t = s
    BY <1>5, <1>10, <1>11, <2>1
  <2>2. CASE t # s
    <3>1. t \in InFlight /\ al'[t] = al[t]
      BY <1>4, <1>5, <2>2
    <3> QED
      BY <1>9, <1>11, <3>1
  <2> QED
    BY <2>1, <2>2
<1> QED
  BY <1>6, <1>8, <1>11 DEF ReadyBitsExact

LEMMA RetireReady ==
  ASSUME TablesInv, TablesInv', ReadyBitsExact,
         RetireCommit \/ RetireSystem \/ RetireViolation \/ RetireException
  PROVE  ReadyBitsExact'
<1>1. /\ Rings /\ Rings' /\ BackendInv /\ BackendInv' /\ al \in [Slot -> Entry]
      /\ AMT \in [Log -> Phys] /\ AMT' \in [Log -> Phys]
  BY DEF TablesInv, Shapes, Rings, TypeOK
<1>2. CASE RetireCommit
  <2>1. /\ HeadCompleted /\ AdvanceHead /\ AMT' = CommittedAMT
        /\ UNCHANGED <<al, ready, backend>>
    BY <1>2 DEF RetireCommit
  <2>2. alHead # -1 /\ al[alHead].completed
    BY <2>1 DEF HeadCompleted, HeadOf
  <2>3. alHead \in InFlight /\ InFlight' = InFlight \ {alHead}
    BY <1>1, <2>1, <2>2, RetireRing
  <2>4. HasDest(HeadOf.insn) => ready[HeadOf.pdst]
    <3>1. ~\E y \in backend : y.al = alHead
      BY <1>1, <2>2 DEF BackendInv, BackendIsActiveList
    <3> QED
      BY <2>3, <3>1 DEF ReadyBitsExact, HeadOf
  <2>5. \A l \in Log : ready[AMT'[l]]
    BY <1>1, <2>1, <2>4 DEF ReadyBitsExact, CommittedAMT
  <2>6. \A s \in InFlight' :
          /\ al'[s].insn = al[s].insn /\ al'[s].pdst = al[s].pdst
          /\ al'[s].completed => al[s].completed \/ \E x \in backend : x.al = s /\ x.stage = "done"
    BY <2>1
  <2>7. \A y \in backend' : \E w \in backend : y.al = w.al /\ (y.stage = "done" <=> w.stage = "done")
    BY <2>1
  <2> QED
    BY <1>1, <2>1, <2>3, <2>5, <2>6, <2>7, NothingProduced
<1>3. CASE RetireSystem \/ RetireViolation \/ RetireException
  <2>1. alHead' = -1 /\ ready' = [p \in Phys |-> TRUE]
    BY <1>3 DEF RetireSystem, RetireViolation, RetireException, SquashComplete
  <2>2. InFlight' = {}
    BY <2>1 DEF InFlight
  <2> QED
    BY <1>1, <2>1, <2>2 DEF ReadyBitsExact
<1> QED
  BY <1>2, <1>3

(* The registers of the committed map are ready, and the destination of an *)
(* instruction in flight is ready when that instruction has produced it,   *)
(* whatever recovered, retired or was squashed since its last holder wrote *)
(* it.  A load to x0 is left out: execute() lets it write the register its *)
(* reused payload entry was left with.                                     *)
THEOREM RenamerReadyBits == (Sound /\ "load_x0" \notin Kinds) => (Spec => []ReadyBitsExact)
<1> SUFFICES ASSUME Sound, "load_x0" \notin Kinds PROVE Spec => []ReadyBitsExact
  OBVIOUS
<1>1. Init => ReadyBitsExact
  <2> SUFFICES ASSUME Init PROVE ReadyBitsExact
    OBVIOUS
  <2>1. ready = [p \in Phys |-> TRUE] /\ AMT \in [Log -> Phys] /\ InFlight = {}
    BY Sizes DEF Init, InFlight
  <2> QED
    BY <2>1 DEF ReadyBitsExact
<1>2. TablesInv /\ TablesInv' /\ ReadyBitsExact /\ [Next]_vars => ReadyBitsExact'
  <2> SUFFICES ASSUME TablesInv, TablesInv', ReadyBitsExact, [Next]_vars PROVE ReadyBitsExact'
    OBVIOUS
  <2>1. ASSUME UNCHANGED <<al, alHead, alTail, AMT, ready, backend>> PROVE ReadyBitsExact'
    <3>1. InFlight' = InFlight
      BY <2>1, SameList
    <3> QED
      BY <2>1, <3>1 DEF ReadyBitsExact
  <2>2. CASE UNCHANGED vars
    BY <2>1, <2>2 DEF vars
  <2>3. CASE (\E b \in Bundle : Rename2Begin(b)) \/ RenameOne \/ DispatchBegin
    BY <2>1, <2>3 DEF Rename2Begin, RenameOne, DispatchBegin, lists, maps
  <2>4. CASE DispatchOne
    BY <2>4, DispatchOneReady
  <2>5. ASSUME NEW x \in backend, Execute(x) \/ LoadReplay(x) \/ Writeback(x)
        PROVE  ReadyBitsExact'
    BY <2>5, ExecuteReady
  <2>6. ASSUME NEW x \in backend, ResolveCorrect(x) \/ ResolveMispredict(x)
        PROVE  ReadyBitsExact'
    BY <2>6, ResolveReady
  <2>7. CASE RetireCommit \/ RetireSystem \/ RetireViolation \/ RetireException
    BY <2>7, RetireReady
  <2> QED
    BY <2>2, <2>3, <2>4, <2>5, <2>6, <2>7 DEF Next
<1> QED
  BY <1>1, <1>2, AlwaysTables, PTL DEF Spec

-----------------------------------------------------------------------------
(***************************************************************************)
(* Renamer.tla implements InOrder.tla: the core executes its program as if *)
(* each instruction did its work in one step as it leaves the window, in   *)
(* program order.                                                          *)
(***************************************************************************)

(* The invariant: where an instruction finds its source, when it may read  *)
(* it, and what it has computed.                                           *)

(* The register that holds the source of the j-th instruction of P: the    *)
(* committed map A overlaid by the instructions before it.                 *)
SourceIn(A, P, j) == MapOver(A, P, j - 1)[P[j].insn.src]
Source(j) == SourceIn(AMT, Program, j)
SourceOf(s) == Source(Age(s) + 1)

Queued(s) == \E x \in backend : x.al = s /\ x.stage = "queued"

(* Sources were looked up in program order.                                *)
SourceInv ==
  /\ \A x \in backend : x.psrc = SourceOf(x.al)
  /\ \A k \in 1 .. Len(dispatch) : dispatch[k].psrc = Source(Used + k)

(* What has left the queue had its source, which has not changed since,    *)
(* and what has finished computed its result from it.                      *)
Right(s) ==
  /\ ~Queued(s) => ready[SourceOf(s)]
  /\ ~Waiting(s) => IF IsSystem(al[s].insn) THEN al[s].a_value = value[SourceOf(s)]
                    ELSE value[al[s].pdst] = Op(value[SourceOf(s)])
ResultInv == \A s \in InFlight : HasDest(al[s].insn) => Right(s)

ValuesInv == SourceInv /\ ResultInv

LEMMA AbstractInit == Init => Abstract!Init
<1> SUFFICES ASSUME Init PROVE Abstract!Init
  OBVIOUS
<1>1. CommittedRegs = [r \in Log |-> 0]
  BY DEF Init, CommittedRegs
<1>2. Rings /\ Total = 0
  <2>1. Rings
    BY InitTables DEF TablesInv, Shapes
  <2>2. Used = 0 /\ Len(dispatch) = 0
    BY DEF Init, Used
  <2> QED
    BY <2>1, <2>2 DEF Total
<1>3. DOMAIN Program = {}
  BY <1>2, ProgramShape
<1>4. [k \in DOMAIN Program |-> Program[k].insn] = <<>>
  BY <1>3
<1> QED
  BY <1>1, <1>4 DEF Abstract!Init

-----------------------------------------------------------------------------
(* Where sources are.                                                      *)

(* A map holds a committed register or a destination of the program.       *)
LEMMA MapFrom ==
  ASSUME NEW A, NEW P, NEW k \in Nat, NEW l \in Log
  PROVE  \/ MapOver(A, P, k)[l] = A[l]
         \/ \E i \in 1 .. k : HasDest(P[i].insn) /\ MapOver(A, P, k)[l] = P[i].pdst
<1> DEFINE W == Writers(P, k, l)
<1>1. CASE W = {}
  BY <1>1, MapAtNone
<1>2. CASE W # {}
  <2>1. W \subseteq 1 .. k
    BY DEF Writers
  <2>2. PICK j \in W : Youngest(W, j)
    <3> HIDE DEF W
    <3> QED
      BY <1>2, <2>1, YoungestExists
  <2>3. MapOver(A, P, k)[l] = P[j].pdst /\ HasDest(P[j].insn) /\ j \in 1 .. k
    BY <2>1, <2>2, MapAtYoungest DEF Writers
  <2> QED
    BY <2>3
<1> QED
  BY <1>1, <1>2

LEMMA SourceSame ==
  ASSUME NEW A, NEW P, NEW Q, NEW n \in Nat, Follows(P, Q, 0, n), NEW j \in 1 .. n
  PROVE  SourceIn(A, Q, j) = SourceIn(A, P, j)
<1>1. j - 1 \in 0 .. n /\ j + 0 = j
  OBVIOUS
<1>2. Q[j].insn = P[j].insn
  BY <1>1 DEF Follows
<1>3. MapOver(A, Q, j - 1) = MapOver(A, P, j - 1)
  BY <1>1, MapSame
<1> QED
  BY <1>2, <1>3 DEF SourceIn

LEMMA SourceTail ==
  ASSUME NEW A \in [Log -> Phys], NEW P, NEW Q, NEW n \in Nat, Follows(P, Q, 1, n), NEW j \in 1 .. n
  PROVE  SourceIn(CommitFirst(A, P), Q, j) = SourceIn(A, P, j + 1)
<1>1. j - 1 \in 0 .. n /\ (j - 1) + 1 = j /\ (j + 1) - 1 = j
  OBVIOUS
<1>2. Q[j].insn = P[j + 1].insn
  BY DEF Follows
<1>3. MapOver(CommitFirst(A, P), Q, j - 1) = MapOver(A, P, (j - 1) + 1)
  BY <1>1, MapTail
<1> QED
  BY <1>1, <1>2, <1>3 DEF SourceIn

LEMMA ItemType ==
  TablesInv => \A j \in 1 .. Total : Program[j].insn.src \in Log /\ Program[j].pdst \in Phys
<1> SUFFICES ASSUME TablesInv, NEW j \in 1 .. Total
             PROVE  Program[j].insn.src \in Log /\ Program[j].pdst \in Phys
  OBVIOUS
<1>1. Rings /\ al \in [Slot -> Entry] /\ dispatch \in Seq(Renamed)
  BY DEF TablesInv, Shapes, Rings, TypeOK
<1>2. Used \in Nat /\ Used <= ListSize /\ Len(dispatch) \in Nat /\ Total = Used + Len(dispatch)
  BY <1>1, UsedType, Sizes DEF Total
<1>3. CASE j <= Used
  <2>1. j \in 1 .. Used /\ j - 1 \in 0 .. ListSize - 1 /\ Used # 0
    BY <1>2, <1>3, Sizes
  <2>2. Behind(alHead, j - 1) \in Slot
    BY <1>1, <2>1, UsedType, Ages
  <2>3. al[Behind(alHead, j - 1)] \in Entry
    BY <1>1, <2>2
  <2>4. Program[j] = [insn |-> al[Behind(alHead, j - 1)].insn,
                      pdst |-> al[Behind(alHead, j - 1)].pdst]
    BY <1>1, <2>1, ProgramShape
  <2> QED
    BY <2>3, <2>4 DEF Entry
<1>4. CASE ~(j <= Used)
  <2>1. PICK k \in 1 .. Len(dispatch) : j = Used + k
    <3>1. j - Used \in 1 .. Len(dispatch) /\ j = Used + (j - Used)
      BY <1>2, <1>4
    <3> QED
      BY <3>1
  <2>2. dispatch[k] \in Renamed
    BY <1>1, ElementOfSeq
  <2>3. Program[j] = [insn |-> dispatch[k].insn, pdst |-> dispatch[k].pdst]
    BY <1>1, <2>1, ProgramShape
  <2> QED
    BY <2>2, <2>3 DEF Renamed, Insn
<1> QED
  BY <1>3, <1>4

LEMMA SourceFacts ==
  TablesInv => \A j \in 1 .. Total :
    /\ Source(j) \in Phys
    /\ \/ \E l \in Log : Source(j) = AMT[l]
       \/ \E i \in 1 .. Total : i < j /\ HasDest(Program[i].insn) /\ Source(j) = Program[i].pdst
<1> SUFFICES ASSUME TablesInv, NEW j \in 1 .. Total
             PROVE  /\ Source(j) \in Phys
                    /\ \/ \E l \in Log : Source(j) = AMT[l]
                       \/ \E i \in 1 .. Total :
                            i < j /\ HasDest(Program[i].insn) /\ Source(j) = Program[i].pdst
  OBVIOUS
<1>1. Rings /\ AMT \in [Log -> Phys] /\ Total \in Nat
  BY UsedType DEF TablesInv, Shapes, Rings, TypeOK
<1>2. PICK l : l = Program[j].insn.src
  OBVIOUS
<1>3. l \in Log /\ Source(j) = MapOver(AMT, Program, j - 1)[l] /\ j - 1 \in Nat
  BY <1>1, <1>2, ItemType DEF Source, SourceIn
<1>4. \/ Source(j) = AMT[l]
      \/ \E i \in 1 .. j - 1 : HasDest(Program[i].insn) /\ Source(j) = Program[i].pdst
  BY <1>3, MapFrom
<1>5. \A i \in 1 .. j - 1 : i \in 1 .. Total /\ i < j
  BY <1>1
<1> QED
  BY <1>1, <1>3, <1>4, <1>5, ItemType

LEMMA InFlightItem ==
  TablesInv => \A s \in InFlight :
    /\ s \in Slot /\ Age(s) \in Nat /\ Age(s) < Used
    /\ Age(s) + 1 \in 1 .. Used /\ Age(s) + 1 \in 1 .. Total
    /\ Program[Age(s) + 1].insn = al[s].insn /\ Program[Age(s) + 1].pdst = al[s].pdst
    /\ SourceOf(s) \in Phys
<1> SUFFICES ASSUME TablesInv, NEW s \in InFlight
             PROVE  /\ s \in Slot /\ Age(s) \in Nat /\ Age(s) < Used
                    /\ Age(s) + 1 \in 1 .. Used /\ Age(s) + 1 \in 1 .. Total
                    /\ Program[Age(s) + 1].insn = al[s].insn /\ Program[Age(s) + 1].pdst = al[s].pdst
                    /\ SourceOf(s) \in Phys
  OBVIOUS
<1>1. Rings /\ Used \in Nat /\ Len(dispatch) \in Nat /\ Total = Used + Len(dispatch)
  BY UsedType, Sizes DEF TablesInv, Shapes, Total
<1>2. s \in Slot /\ alHead # -1
  BY <1>1, InFlightSlots
<1>3. PICK a : a = Age(s)
  OBVIOUS
<1>4. a \in 0 .. ListSize - 1 /\ a < Used /\ Behind(alHead, a) = s
  BY <1>1, <1>2, <1>3, Ages
<1>5. a + 1 \in 1 .. Used /\ (a + 1) - 1 = a /\ a + 1 \in 1 .. Total /\ a \in Nat
  BY <1>1, <1>4
<1>6. Program[a + 1] = [insn |-> al[s].insn, pdst |-> al[s].pdst]
  BY <1>1, <1>4, <1>5, ProgramShape
<1>7. Program[a + 1].insn = al[s].insn /\ Program[a + 1].pdst = al[s].pdst
  BY <1>6
<1>8. SourceOf(s) \in Phys
  BY <1>3, <1>5, SourceFacts DEF SourceOf
<1> QED
  BY <1>2, <1>3, <1>4, <1>5, <1>7, <1>8

(* The same source, when the committed map and the instructions so far are *)
(* the same.                                                               *)
LEMMA SourceKept ==
  ASSUME TablesInv, AMT' = AMT, NEW n \in Nat, Follows(Program, Program', 0, n)
  PROVE  \A j \in 1 .. n : Source(j)' = Source(j)
BY SourceSame DEF Source

LEMMA SourceOfKept ==
  ASSUME TablesInv, AMT' = AMT, NEW n \in Nat, Follows(Program, Program', 0, n),
         NEW s \in InFlight, Age(s)' = Age(s), Age(s) < n
  PROVE  SourceOf(s)' = SourceOf(s)
<1>1. PICK j : j = Age(s) + 1
  OBVIOUS
<1>2. j \in 1 .. n
  BY <1>1, InFlightItem
<1>3. Source(j)' = Source(j)
  BY <1>2, SourceKept
<1> QED
  BY <1>1, <1>3 DEF SourceOf

-----------------------------------------------------------------------------
(* What has been computed stays right.                                     *)

(* A register that is ready stays so and is not written.                   *)
KeepsReady(q) == ready[q] => ready'[q] /\ value'[q] = value[q]

LEMMA StillRight ==
  ASSUME TablesInv, ReadyBitsExact, NEW s \in InFlight, HasDest(al[s].insn), Right(s),
         SourceOf(s)' = SourceOf(s), KeepsReady(SourceOf(s)), KeepsReady(al[s].pdst),
         al'[s].insn = al[s].insn, al'[s].pdst = al[s].pdst, al'[s].a_value = al[s].a_value,
         Queued(s) => Queued(s)', Waiting(s) => Waiting(s)'
  PROVE  Right(s)'
<1>1. SourceOf(s) \in Phys /\ al[s].pdst \in Phys
  BY InFlightItem DEF TablesInv, Shapes, Rings, TypeOK, Entry
<1>2. ~Waiting(s) => ready[al[s].pdst]
  BY DEF ReadyBitsExact, Waiting
<1>3. ~Waiting(s) => ~Queued(s)
  BY DEF Waiting, Queued
<1>4. ~Queued(s)' => ready'[SourceOf(s)']
  BY <1>1 DEF Right, KeepsReady
<1>5. ~Waiting(s)' => ~Waiting(s) /\ value'[SourceOf(s)'] = value[SourceOf(s)] /\ value'[al'[s].pdst] = value[al[s].pdst]
  BY <1>1, <1>2, <1>3 DEF Right, KeepsReady
<1> QED
  BY <1>4, <1>5 DEF Right

LEMMA WaitingKept ==
  ASSUME BackendInv, BackendInv', InFlight' \subseteq InFlight,
         \A s \in InFlight' : al'[s].completed =>
            al[s].completed \/ \E x \in backend : x.al = s /\ x.stage = "done",
         \A y \in backend' : \E w \in backend : y.al = w.al /\ y.stage = w.stage
  PROVE  \A s \in InFlight' : (Queued(s)' <=> Queued(s)) /\ (Waiting(s)' <=> Waiting(s))
<1> SUFFICES ASSUME NEW s \in InFlight'
             PROVE  (Queued(s)' <=> Queued(s)) /\ (Waiting(s)' <=> Waiting(s))
  OBVIOUS
<1>1. ASSUME NEW x \in backend, x.al = s, x.stage # "done"
      PROVE  \E y \in backend' : y.al = s /\ y.stage = x.stage
  <2>1. ~al[s].completed /\ \A z \in backend : z.al = s => z = x
    BY <1>1 DEF BackendInv, BackendIsActiveList
  <2>2. ~al'[s].completed
    BY <1>1, <2>1
  <2>3. PICK y \in backend' : y.al = s
    BY <2>2 DEF BackendInv, BackendIsActiveList
  <2> QED
    BY <1>1, <2>1, <2>3
<1>2. Queued(s) => Queued(s)'
  BY <1>1 DEF Queued
<1>3. Waiting(s) => Waiting(s)'
  BY <1>1 DEF Waiting
<1>4. (Queued(s)' => Queued(s)) /\ (Waiting(s)' => Waiting(s))
  BY DEF Queued, Waiting
<1> QED
  BY <1>2, <1>3, <1>4

(* A step that computes nothing and leaves the committed map and the       *)
(* instructions that stay in flight as they are.                           *)
LEMMA NothingComputed ==
  ASSUME TablesInv, TablesInv', ReadyBitsExact, ResultInv,
         UNCHANGED <<ready, value>>, InFlight' \subseteq InFlight,
         \A s \in InFlight' :
           /\ al'[s].insn = al[s].insn /\ al'[s].pdst = al[s].pdst
           /\ al'[s].a_value = al[s].a_value
           /\ al'[s].completed => al[s].completed \/ \E x \in backend : x.al = s /\ x.stage = "done",
         \A s \in InFlight' : SourceOf(s)' = SourceOf(s),
         \A y \in backend' : \E w \in backend : y.al = w.al /\ y.stage = w.stage
  PROVE  ResultInv'
<1>1. \A s \in InFlight' : (Queued(s)' <=> Queued(s)) /\ (Waiting(s)' <=> Waiting(s))
  BY WaitingKept DEF TablesInv, Shapes
<1>2. \A q : KeepsReady(q)
  BY DEF KeepsReady
<1>3. ASSUME NEW s \in InFlight', HasDest(al'[s].insn) PROVE Right(s)'
  BY <1>1, <1>2, <1>3, StillRight DEF ResultInv
<1> QED
  BY <1>3 DEF ResultInv

-----------------------------------------------------------------------------
(* What the machine shows of itself, and what it may do.                   *)

Window == [k \in DOMAIN Program |-> Program[k].insn]

LEMMA WindowShape ==
  Rings => /\ DOMAIN Window = 1 .. Total /\ Len(Window) = Total
           /\ \A k \in 1 .. Total : Window[k] = Program[k].insn
           /\ Window = [k \in 1 .. Total |-> Program[k].insn]
<1> SUFFICES ASSUME Rings
             PROVE  /\ DOMAIN Window = 1 .. Total /\ Len(Window) = Total
                    /\ \A k \in 1 .. Total : Window[k] = Program[k].insn
                    /\ Window = [k \in 1 .. Total |-> Program[k].insn]
  OBVIOUS
<1>1. DOMAIN Program = 1 .. Total /\ Total \in Nat
  BY ProgramShape, UsedType
<1>2. Window = [k \in 1 .. Total |-> Program[k].insn]
  BY <1>1 DEF Window
<1> QED
  BY <1>1, <1>2

LEMMA WindowAfter ==
  Rings' => (/\ DOMAIN Window = 1 .. Total /\ Len(Window) = Total
             /\ \A k \in 1 .. Total : Window[k] = Program[k].insn
             /\ Window = [k \in 1 .. Total |-> Program[k].insn])'
BY WindowShape, PTL

Step == [Abstract!Next]_(Abstract!vars)

LEMMA IsStutter ==
  ASSUME CommittedRegs' = CommittedRegs, Window' = Window
  PROVE  Step
BY DEF Step, Abstract!vars, Window

LEMMA IsFetch ==
  ASSUME NEW i \in Insn, CommittedRegs' = CommittedRegs, Window' = Append(Window, i)
  PROVE  Step
<1>1. Abstract!Fetch(i)
  BY DEF Abstract!Fetch, Window
<1> QED
  BY <1>1 DEF Step, Abstract!Next

LEMMA IsRedirect ==
  ASSUME NEW k \in 1 .. Len(Window), NeedsChk(Window[k]),
         CommittedRegs' = CommittedRegs, Window' = SubSeq(Window, 1, k)
  PROVE  Step
<1>1. Abstract!Redirect(k)
  BY DEF Abstract!Redirect, Window
<1> QED
  BY <1>1 DEF Step, Abstract!Next, Window

LEMMA IsFlush ==
  ASSUME Window # <<>>, CommittedRegs' = CommittedRegs, Window' = <<>>
  PROVE  Step
<1>1. Abstract!Flush
  BY DEF Abstract!Flush, Window
<1> QED
  BY <1>1 DEF Step, Abstract!Next

LEMMA IsCommit ==
  ASSUME Window # <<>>,
         CommittedRegs' = IF HasDest(Head(Window))
                            THEN [CommittedRegs EXCEPT ![Head(Window).dst] =
                                    Op(CommittedRegs[Head(Window).src])]
                            ELSE CommittedRegs,
         Window' = IF IsSystem(Head(Window)) THEN <<>> ELSE Tail(Window)
  PROVE  Step
<1>1. Abstract!Commit
  BY DEF Abstract!Commit, Abstract!Effect, Window
<1> QED
  BY <1>1 DEF Step, Abstract!Next

LEMMA SameWindow ==
  ASSUME Rings, Rings', SameProgram
  PROVE  Window' = Window
<1>1. Total' = Total /\ \A k \in 1 .. Total : k + 0 = k
  BY UsedType DEF SameProgram
<1>2. \A k \in 1 .. Total : Program'[k].insn = Program[k].insn
  BY <1>1 DEF SameProgram, Follows
<1>3. Window' = [k \in 1 .. Total |-> Program'[k].insn]
  BY <1>1, WindowAfter
<1> QED
  BY <1>2, <1>3, WindowShape

LEMMA SameRegs ==
  ASSUME AMT' = AMT, \A l \in Log : value'[AMT[l]] = value[AMT[l]]
  PROVE  CommittedRegs' = CommittedRegs
BY DEF CommittedRegs

LEMMA NoWindow ==
  ASSUME Rings', Total' = 0
  PROVE  Window' = <<>>
BY WindowAfter

-----------------------------------------------------------------------------
(* Steps that compute nothing and keep the program.                        *)

(* Nothing changes but bits of the entries.                                *)
LEMMA SameSources ==
  ASSUME TablesInv, Rings', SourceInv, AMT' = AMT, SameProgram,
         UNCHANGED <<alHead, alTail>>, Len(dispatch') = Len(dispatch),
         \A k \in 1 .. Len(dispatch) : dispatch'[k].psrc = dispatch[k].psrc,
         \A y \in backend' : \E w \in backend : y.al = w.al /\ y.psrc = w.psrc
  PROVE  SourceInv' /\ \A s \in InFlight : SourceOf(s)' = SourceOf(s)
<1>1. Rings /\ BackendInv /\ Used \in Nat /\ Len(dispatch) \in Nat /\ Total = Used + Len(dispatch)
  BY UsedType, Sizes DEF TablesInv, Shapes, Total
<1>2. Total \in Nat /\ Used <= Total /\ Follows(Program, Program', 0, Total)
  BY <1>1 DEF SameProgram
<1>3. Used' = Used /\ \A s : Age(s)' = Age(s)
  BY SameList
<1>4. ASSUME NEW s \in InFlight PROVE SourceOf(s)' = SourceOf(s)
  <2>1. Age(s) < Total
    BY <1>1, <1>2, InFlightItem
  <2> QED
    BY <1>2, <1>3, <2>1, SourceOfKept
<1>5. ASSUME NEW y \in backend' PROVE y.psrc = SourceOf(y.al)'
  <2>1. PICK w \in backend : y.al = w.al /\ y.psrc = w.psrc
    OBVIOUS
  <2>2. PICK s : s = y.al
    OBVIOUS
  <2>3. s \in InFlight /\ y.psrc = SourceOf(s)
    BY <1>1, <2>1, <2>2, BackendFacts DEF SourceInv
  <2> QED
    BY <1>4, <2>2, <2>3
<1>6. ASSUME NEW k \in 1 .. Len(dispatch') PROVE dispatch'[k].psrc = Source(Used + k)'
  <2>1. PICK j : j = Used + k
    OBVIOUS
  <2>2. j \in 1 .. Total /\ k \in 1 .. Len(dispatch)
    BY <1>1, <2>1
  <2>3. Source(j)' = Source(j)
    BY <1>2, <2>2, SourceKept
  <2>4. dispatch'[k].psrc = Source(j)
    BY <2>1, <2>2 DEF SourceInv
  <2> QED
    BY <1>3, <2>1, <2>3, <2>4
<1> QED
  BY <1>4, <1>5, <1>6 DEF SourceInv

LEMMA QuietStep ==
  ASSUME TablesInv, TablesInv', ReadyBitsExact, ValuesInv,
         UNCHANGED <<AMT, alHead, alTail, ready, value>>, SameProgram,
         Len(dispatch') = Len(dispatch),
         \A k \in 1 .. Len(dispatch) : dispatch'[k].psrc = dispatch[k].psrc,
         \A y \in backend' : \E w \in backend : y.al = w.al /\ y.psrc = w.psrc /\ y.stage = w.stage,
         \A s \in InFlight :
           /\ al'[s].insn = al[s].insn /\ al'[s].pdst = al[s].pdst
           /\ al'[s].a_value = al[s].a_value
           /\ al'[s].completed => al[s].completed \/ \E x \in backend : x.al = s /\ x.stage = "done"
  PROVE  ValuesInv' /\ Step
<1>1. Rings /\ Rings'
  BY DEF TablesInv, Shapes
<1>2. SourceInv' /\ \A s \in InFlight : SourceOf(s)' = SourceOf(s)
  <2>1. \A y \in backend' : \E w \in backend : y.al = w.al /\ y.psrc = w.psrc
    OBVIOUS
  <2> QED
    BY <1>1, <2>1, SameSources DEF ValuesInv
<1>3. InFlight' = InFlight
  BY SameList
<1>4. ResultInv'
  <2>1. \A y \in backend' : \E w \in backend : y.al = w.al /\ y.stage = w.stage
    OBVIOUS
  <2> QED
    BY <1>2, <1>3, <2>1, NothingComputed DEF ValuesInv
<1>5. CommittedRegs' = CommittedRegs /\ Window' = Window
  BY <1>1, SameWindow, SameRegs
<1> QED
  BY <1>2, <1>4, <1>5, IsStutter DEF ValuesInv

LEMMA BeginValues ==
  ASSUME TablesInv, TablesInv', ReadyBitsExact, ValuesInv,
         (\E b \in Bundle : Rename2Begin(b)) \/ DispatchBegin
  PROVE  ValuesInv' /\ Step
<1>1. UNCHANGED <<lists, maps, ready, value, dispatch, backend>> /\ SameProgram
  BY BeginEffect DEF TablesInv, Shapes
<1> QED
  BY <1>1, QuietStep DEF lists, maps

LEMMA StutterValues ==
  ASSUME TablesInv, TablesInv', ReadyBitsExact, ValuesInv, UNCHANGED vars
  PROVE  ValuesInv' /\ Step
<1>1. UNCHANGED <<alHead, alTail, AMT, ready, value, dispatch, backend, al>>
  BY DEF vars
<1>2. SameProgram
  BY <1>1, ProgramKept DEF TablesInv, Shapes, KeepsEntries, KeepsBundle
<1> QED
  BY <1>1, <1>2, QuietStep

LEMMA WritebackValues ==
  ASSUME TablesInv, TablesInv', ReadyBitsExact, ValuesInv, NEW x \in backend, Writeback(x)
  PROVE  ValuesInv' /\ Step
<1>1. Rings /\ Rings' /\ BackendInv /\ x.al \in Slot /\ al \in [Slot -> Entry]
  BY BackendFacts DEF TablesInv, Shapes, Rings, TypeOK
<1>2. UNCHANGED <<free, alHead, alTail, maps, front>> /\ SameProgram
  BY <1>1, ReplayWritebackEffect
<1>3. UNCHANGED <<ready, value>> /\ backend' = backend \ {x} /\ x.stage = "done"
      /\ al' = [al EXCEPT ![x.al].completed = TRUE]
  BY DEF Writeback, Complete
<1>4. ASSUME NEW s \in InFlight
      PROVE  /\ al'[s].insn = al[s].insn /\ al'[s].pdst = al[s].pdst
             /\ al'[s].a_value = al[s].a_value
             /\ al'[s].completed => al[s].completed \/ \E y \in backend : y.al = s /\ y.stage = "done"
  <2>1. s \in Slot
    BY <1>1, InFlightSlots
  <2>2. CASE s = x.al
    BY <1>1, <1>3, <2>1, <2>2 DEF Entry
  <2>3. CASE s # x.al
    BY <1>1, <1>3, <2>1, <2>3
  <2> QED
    BY <2>2, <2>3
<1> QED
  BY <1>2, <1>3, <1>4, QuietStep DEF maps, front

LEMMA ResolveCorrectValues ==
  ASSUME TablesInv, TablesInv', ReadyBitsExact, ValuesInv, NEW x \in backend, ResolveCorrect(x)
  PROVE  ValuesInv' /\ Step
<1>1. /\ Rings /\ Rings' /\ TypeInv /\ BackendInv /\ x.al \in Slot /\ al \in [Slot -> Entry]
      /\ backend \subseteq Flying /\ dispatch \in Seq(Renamed)
  BY BackendFacts DEF TablesInv, Shapes, Rings, TypeOK
<1>2. SameProgram
  BY <1>1, ResolveCorrectEffect
<1>3. UNCHANGED <<AMT, alHead, alTail, ready, value>> /\ x.stage = "done"
      /\ al' = [al EXCEPT ![x.al].completed = TRUE]
      /\ backend' = {Unmask(y, x.id) : y \in backend \ {x}}
      /\ dispatch' = [k \in DOMAIN dispatch |-> Unmask(dispatch[k], x.id)]
  BY DEF ResolveCorrect, Complete
<1>4. ASSUME NEW s \in InFlight
      PROVE  /\ al'[s].insn = al[s].insn /\ al'[s].pdst = al[s].pdst
             /\ al'[s].a_value = al[s].a_value
             /\ al'[s].completed => al[s].completed \/ \E y \in backend : y.al = s /\ y.stage = "done"
  <2>1. s \in Slot
    BY <1>1, InFlightSlots
  <2>2. CASE s = x.al
    BY <1>1, <1>3, <2>1, <2>2 DEF Entry
  <2>3. CASE s # x.al
    BY <1>1, <1>3, <2>1, <2>3
  <2> QED
    BY <2>2, <2>3
<1>5. \A y \in backend' : \E w \in backend : y.al = w.al /\ y.psrc = w.psrc /\ y.stage = w.stage
  <2>1. \A w \in backend : /\ Unmask(w, x.id).al = w.al /\ Unmask(w, x.id).psrc = w.psrc
                           /\ Unmask(w, x.id).stage = w.stage
    BY <1>1 DEF Unmask, Flying
  <2> QED
    BY <1>3, <2>1
<1>6. Len(dispatch') = Len(dispatch) /\ DOMAIN dispatch = 1 .. Len(dispatch)
  BY <1>1, ResolveCorrectLen
<1>7. ASSUME NEW k \in 1 .. Len(dispatch) PROVE dispatch'[k].psrc = dispatch[k].psrc
  <2>1. dispatch[k] \in Renamed
    BY <1>1, ElementOfSeq
  <2>2. Unmask(dispatch[k], x.id).psrc = dispatch[k].psrc
    BY <2>1 DEF Unmask, Renamed
  <2>3. dispatch'[k] = Unmask(dispatch[k], x.id)
    BY <1>3, <1>6
  <2> QED
    BY <2>2, <2>3
<1> QED
  BY <1>2, <1>3, <1>4, <1>5, <1>6, <1>7, QuietStep

-----------------------------------------------------------------------------
(* rename2() and dispatch().                                               *)

LEMMA RenameOneSources ==
  ASSUME TablesInv, TablesInv', SourceInv, RenameOne
  PROVE  SourceInv' /\ \A s \in InFlight : SourceOf(s)' = SourceOf(s)
<1>1. /\ Rings /\ Rings' /\ TypeInv /\ BackendInv /\ MapInv
      /\ Used \in Nat /\ Len(dispatch) \in Nat /\ Total = Used + Len(dispatch) /\ Total \in Nat
  BY UsedType, Sizes DEF TablesInv, Shapes, Tables, Total
<1>2. AMT' = AMT /\ backend' = backend
  BY DEF RenameOne
<1>3. /\ Used' = Used /\ Total' = Total + 1 /\ \A s : Age(s)' = Age(s)
      /\ Follows(Program, Program', 0, Total)
      /\ Program'[Total + 1] = [insn |-> Renaming, pdst |-> Allocated]
  BY <1>1, RenameOneEffect
<1>4. /\ Len(dispatch') = Len(dispatch) + 1
      /\ \A k \in 1 .. Len(dispatch) : dispatch'[k] = dispatch[k]
      /\ dispatch'[Len(dispatch) + 1] = NewEntry
  BY <1>1, RenamedInstruction
<1>5. ASSUME NEW s \in InFlight PROVE SourceOf(s)' = SourceOf(s)
  <2>1. Age(s) < Total
    BY <1>1, InFlightItem
  <2> QED
    BY <1>1, <1>2, <1>3, <2>1, SourceOfKept
<1>6. ASSUME NEW y \in backend' PROVE y.psrc = SourceOf(y.al)'
  <2>1. PICK s : s = y.al
    OBVIOUS
  <2>2. s \in InFlight /\ y.psrc = SourceOf(s)
    BY <1>1, <1>2, <2>1, BackendFacts DEF SourceInv
  <2> QED
    BY <1>5, <2>1, <2>2
<1>7. ASSUME NEW k \in 1 .. Len(dispatch) PROVE dispatch'[k].psrc = Source(Used + k)'
  <2>1. PICK j : j = Used + k
    OBVIOUS
  <2>2. j \in 1 .. Total
    BY <1>1, <2>1
  <2>3. Source(j)' = Source(j)
    BY <1>1, <1>2, <1>3, <2>2, SourceKept
  <2>4. dispatch'[k].psrc = Source(j)
    BY <1>4, <2>1, <2>2 DEF SourceInv
  <2> QED
    BY <1>3, <2>1, <2>3, <2>4
<1>8. ASSUME NEW j, j = Total + 1
      PROVE  NewEntry.psrc = Source(j)'
  <2>1. j - 1 = Total /\ Total \in 0 .. Total
    BY <1>1, <1>8
  <2>2. MapOver(AMT', Program', j - 1) = RMT
    BY <1>1, <1>2, <1>3, <2>1, MapSame DEF MapInv
  <2>3. Program'[j].insn = Renaming
    BY <1>3, <1>8
  <2>4. SourceIn(AMT', Program', j) = RMT[Renaming.src]
    BY <2>2, <2>3 DEF SourceIn
  <2> QED
    BY <2>4 DEF Source, NewEntry
<1>9. ASSUME NEW k \in 1 .. Len(dispatch') PROVE dispatch'[k].psrc = Source(Used + k)'
  <2>1. CASE k \in 1 .. Len(dispatch)
    BY <1>7, <2>1
  <2>2. CASE k \notin 1 .. Len(dispatch)
    <3>1. k = Len(dispatch) + 1
      BY <1>1, <1>4, <2>2
    <3>2. PICK j : j = Used + k
      OBVIOUS
    <3>3. j = Total + 1
      BY <1>1, <3>1, <3>2
    <3>4. NewEntry.psrc = Source(j)'
      BY <1>8, <3>3
    <3>5. dispatch'[k] = NewEntry
      BY <1>4, <3>1
    <3> QED
      BY <1>3, <3>2, <3>4, <3>5
  <2> QED
    BY <2>1, <2>2
<1> QED
  BY <1>5, <1>6, <1>9 DEF SourceInv

LEMMA RenameOneValues ==
  ASSUME TablesInv, TablesInv', ReadyBitsExact, ValuesInv, RenameOne
  PROVE  ValuesInv' /\ Step
<1>1. Rings /\ Rings' /\ TypeInv /\ BackendInv /\ Total \in Nat
  BY UsedType DEF TablesInv, Shapes
<1>2. UNCHANGED <<AMT, al, alHead, alTail, ready, value, backend>>
  BY DEF RenameOne
<1>3. SourceInv' /\ \A s \in InFlight : SourceOf(s)' = SourceOf(s)
  BY RenameOneSources DEF ValuesInv
<1>4. InFlight' = InFlight
  BY <1>2, SameList
<1>5. ResultInv'
  <2>1. \A y \in backend' : \E w \in backend : y.al = w.al /\ y.stage = w.stage
    BY <1>2
  <2> QED
    BY <1>2, <1>3, <1>4, <2>1, NothingComputed DEF ValuesInv
<1>6. /\ Total' = Total + 1 /\ Follows(Program, Program', 0, Total)
      /\ Program'[Total + 1] = [insn |-> Renaming, pdst |-> Allocated] /\ Renaming \in Insn
  BY <1>1, RenameOneEffect, RenamedInstruction
<1>7. Window' = Append(Window, Renaming)
  <2>1. \A k \in 1 .. Total : Window'[k] = Window[k]
    <3>1. SUFFICES ASSUME NEW k \in 1 .. Total PROVE Window'[k] = Window[k]
      OBVIOUS
    <3>2. k + 0 = k /\ k \in 1 .. Total'
      BY <1>1, <1>6
    <3>3. Program'[k].insn = Program[k].insn
      BY <1>6, <3>2 DEF Follows
    <3> QED
      BY <1>1, <3>2, <3>3, WindowShape, WindowAfter
  <2>2. Window'[Total + 1] = Renaming
    <3>1. Total + 1 \in 1 .. Total'
      BY <1>1, <1>6
    <3> QED
      BY <1>1, <1>6, <3>1, WindowAfter
  <2>3. Window = [k \in 1 .. Total |-> Window[k]] /\ Window' = [k \in 1 .. Total + 1 |-> Window'[k]]
        /\ Len(Window) = Total
    BY <1>1, <1>6, WindowShape, WindowAfter
  <2> HIDE DEF Window
  <2> QED
    BY <1>1, <2>1, <2>2, <2>3
<1>8. CommittedRegs' = CommittedRegs
  BY <1>2, SameRegs
<1> QED
  BY <1>3, <1>5, <1>6, <1>7, <1>8, IsFetch DEF ValuesInv

(* A source is the destination of an older instruction, or a committed     *)
(* register; so it is never the destination of a younger one.              *)
LEMMA SourceIsOlder ==
  TablesInv => \A i, j \in 1 .. Total :
    HasDest(Program[i].insn) /\ Source(j) = Program[i].pdst => i < j
<1> SUFFICES ASSUME TablesInv, NEW i \in 1 .. Total, NEW j \in 1 .. Total,
                    HasDest(Program[i].insn), Source(j) = Program[i].pdst
             PROVE  i < j
  OBVIOUS
<1>1. TypeInv /\ FreeInv /\ Total \in Nat /\ Program[i].pdst \in Phys
  BY UsedType, ItemType DEF TablesInv, Shapes, Tables
<1>2. \A l \in Log : AMT[l] # Program[i].pdst
  BY <1>1, DestsApart
<1>3. PICK m \in 1 .. Total : m < j /\ HasDest(Program[m].insn) /\ Source(j) = Program[m].pdst
  BY <1>2, SourceFacts
<1>4. m = i
  BY <1>1, <1>3, DestsApart
<1> QED
  BY <1>3, <1>4

LEMMA DispatchOneValues ==
  ASSUME TablesInv, TablesInv', ReadyBitsExact, ValuesInv, DispatchOne
  PROVE  ValuesInv' /\ Step
<1>1. /\ Rings /\ Rings' /\ BackendInv /\ al \in [Slot -> Entry] /\ AMT \in [Log -> Phys]
      /\ ready \in [Phys -> BOOLEAN] /\ dispatch # <<>> /\ dispatch \in Seq(Renamed)
  BY DEF TablesInv, Shapes, Rings, TypeOK, TypeInv, LoopsHaveWork, DispatchOne
<1>2. /\ Used \in Nat /\ Len(dispatch) \in Nat \ {0} /\ Used < ListSize
      /\ Total \in Nat /\ Total = Used + Len(dispatch) /\ Used + 1 \in 1 .. Total
  <2>1. Len(dispatch) \in Nat \ {0}
    BY <1>1, DispatchedInstruction
  <2>2. Used + Len(dispatch) <= ListSize
    BY DEF TablesInv, Shapes, EntriesInv, DispatchOne
  <2>3. Used \in Nat /\ ListSize \in Int
    BY <1>1, UsedType, Sizes
  <2> QED
    BY <2>1, <2>2, <2>3 DEF Total
<1>3. PICK s, d : s = DispatchSlot /\ d = Head(dispatch)
  OBVIOUS
<1>4. /\ s \in Slot /\ s \notin InFlight /\ InFlight' = InFlight \cup {s} /\ InFlight \subseteq Slot
      /\ Used' = Used + 1 /\ Age(s)' = Used /\ \A t \in InFlight : Age(t)' = Age(t)
  BY <1>1, <1>2, <1>3, DispatchRing, InFlightSlots
<1>5. /\ d \in Renamed /\ d = dispatch[1]
      /\ Len(dispatch') = Len(dispatch) - 1
      /\ \A k \in 1 .. Len(dispatch) - 1 : dispatch'[k] = dispatch[k + 1]
      /\ \A t \in Slot : t # s => al'[t] = al[t]
      /\ al'[s].insn = d.insn
  BY <1>1, <1>3, <1>4, DispatchedInstruction
<1>6. /\ AMT' = AMT /\ value' = value
      /\ ready' = IF HasDest(d.insn) THEN [ready EXCEPT ![d.pdst] = FALSE] ELSE ready
      /\ backend' = IF SkipsIQ(d.insn) THEN backend
                    ELSE backend \cup {[al |-> s, psrc |-> d.psrc, mask |-> d.mask,
                                        id |-> d.id, stage |-> "queued"]}
  BY <1>3 DEF DispatchOne, ReadyAtDispatch, maps
<1>7. SameProgram /\ Total' = Total /\ Follows(Program, Program', 0, Total)
  BY <1>1, <1>2, DispatchOneProgram DEF SameProgram
<1>8. d.insn = Program[Used + 1].insn /\ d.pdst = Program[Used + 1].pdst
  <2>1. 1 \in 1 .. Len(dispatch)
    BY <1>2
  <2>2. Program[Used + 1] = [insn |-> dispatch[1].insn, pdst |-> dispatch[1].pdst]
    BY <1>1, <2>1, ProgramShape
  <2> QED
    BY <1>5, <2>2
<1>9. \A j \in 1 .. Total : Source(j)' = Source(j)
  BY <1>2, <1>6, <1>7, SourceKept
<1>10. ASSUME NEW t \in InFlight PROVE SourceOf(t)' = SourceOf(t)
  <2>1. Age(t) < Total
    BY <1>2, InFlightItem
  <2> QED
    BY <1>2, <1>4, <1>6, <1>7, <2>1, SourceOfKept
<1>11. d.psrc = SourceOf(s)'
  <2>1. PICK j : j = Used + 1
    OBVIOUS
  <2>2. Source(j)' = Source(j)
    BY <1>2, <1>9, <2>1
  <2>3. d.psrc = Source(j)
    BY <1>2, <1>5, <2>1 DEF ValuesInv, SourceInv
  <2> QED
    BY <1>4, <2>1, <2>2, <2>3 DEF SourceOf
<1>12. SourceInv'
  <2>1. ASSUME NEW y \in backend' PROVE y.psrc = SourceOf(y.al)'
    <3>1. CASE y \in backend
      <4>1. PICK t : t = y.al
        OBVIOUS
      <4>2. t \in InFlight /\ y.psrc = SourceOf(t)
        BY <1>1, <3>1, <4>1, BackendFacts DEF ValuesInv, SourceInv
      <4> QED
        BY <1>10, <4>1, <4>2
    <3>2. CASE y \notin backend
      <4>1. y = [al |-> s, psrc |-> d.psrc, mask |-> d.mask, id |-> d.id, stage |-> "queued"]
        BY <1>6, <3>2
      <4>2. y.al = s /\ y.psrc = d.psrc
        BY <4>1
      <4> QED
        BY <1>11, <4>2
    <3> QED
      BY <3>1, <3>2
  <2>2. ASSUME NEW k \in 1 .. Len(dispatch') PROVE dispatch'[k].psrc = Source(Used + k)'
    <3>1. PICK j : j = Used + (k + 1)
      OBVIOUS
    <3>2. j \in 1 .. Total /\ k \in 1 .. Len(dispatch) - 1 /\ k + 1 \in 1 .. Len(dispatch)
          /\ j = Used' + k
      BY <1>2, <1>4, <1>5, <3>1
    <3>3. dispatch'[k].psrc = Source(j)
      BY <1>5, <3>1, <3>2 DEF ValuesInv, SourceInv
    <3>4. Source(j)' = Source(j)
      BY <1>9, <3>2
    <3> QED
      BY <3>2, <3>3, <3>4
  <2> QED
    BY <2>1, <2>2 DEF SourceInv
<1>13. ASSUME NEW t \in InFlight, HasDest(al[t].insn) PROVE Right(t)'
  <2>1. t \in Slot /\ t # s /\ al'[t] = al[t] /\ al[t].pdst \in Phys /\ SourceOf(t) \in Phys
    BY <1>1, <1>4, <1>5, InFlightItem DEF Entry
  <2>2. HasDest(d.insn) => SourceOf(t) # d.pdst
    <3>1. PICK j : j = Age(t) + 1
      OBVIOUS
    <3>2. j \in 1 .. Total /\ j <= Used
      BY <1>2, <3>1, InFlightItem
    <3>3. HasDest(d.insn) /\ Source(j) = d.pdst => Used + 1 < j
      BY <1>2, <1>8, <3>2, SourceIsOlder
    <3> QED
      BY <1>2, <3>1, <3>2, <3>3 DEF SourceOf
  <2>3. HasDest(d.insn) => al[t].pdst # d.pdst
    BY <1>1, <1>3, <1>13, OwnRegister
  <2>4. KeepsReady(SourceOf(t)) /\ KeepsReady(al[t].pdst)
    BY <1>1, <1>6, <2>1, <2>2, <2>3 DEF KeepsReady
  <2>5. (Queued(t) => Queued(t)') /\ (Waiting(t) => Waiting(t)')
    BY <1>6 DEF Queued, Waiting
  <2>6. Right(t)
    BY <1>13 DEF ValuesInv, ResultInv
  <2> QED
    BY <1>10, <1>13, <2>1, <2>4, <2>5, <2>6, StillRight
<1>14. ASSUME HasDest(d.insn) PROVE Right(s)'
  <2>1. PICK z : z = [al |-> s, psrc |-> d.psrc, mask |-> d.mask, id |-> d.id, stage |-> "queued"]
    OBVIOUS
  <2>2. z.al = s /\ z.stage = "queued"
    BY <2>1
  <2>3. z \in backend'
    BY <1>6, <1>14, <2>1 DEF HasDest, SkipsIQ
  <2>4. Queued(s)' /\ Waiting(s)'
    BY <2>2, <2>3 DEF Queued, Waiting
  <2> QED
    BY <2>4 DEF Right
<1>15. ResultInv'
  <2>1. ASSUME NEW t \in InFlight', HasDest(al'[t].insn) PROVE Right(t)'
    <3>1. CASE t = s
      BY <1>5, <1>14, <2>1, <3>1
    <3>2. CASE t # s
      <4>1. t \in InFlight /\ al'[t] = al[t]
        BY <1>4, <1>5, <3>2
      <4> QED
        BY <1>13, <2>1, <4>1
    <3> QED
      BY <3>1, <3>2
  <2> QED
    BY <2>1 DEF ResultInv
<1>16. CommittedRegs' = CommittedRegs /\ Window' = Window
  BY <1>1, <1>6, <1>7, SameWindow, SameRegs
<1> QED
  BY <1>12, <1>15, <1>16, IsStutter DEF ValuesInv

-----------------------------------------------------------------------------
(* execute() and load_replay().                                            *)

(* The instruction x writes its destination, once, when its source is      *)
(* there; every other instruction is left alone.                           *)
LEMMA Computes ==
  ASSUME TablesInv, TablesInv', ReadyBitsExact, ValuesInv, NEW x \in backend,
         UNCHANGED <<AMT, alHead, alTail, dispatch>>, SameProgram, KeepsEntries,
         \A s \in Slot : s # x.al => al'[s].a_value = al[s].a_value,
         \A y \in backend' : \E w \in backend : y.al = w.al /\ y.psrc = w.psrc,
         \A y : y.al # x.al => (y \in backend' <=> y \in backend),
         \A q \in Phys : (HasDest(InsnOf(x)) => q # DestOf(x)) =>
                           ready'[q] = ready[q] /\ value'[q] = value[q],
         HasDest(InsnOf(x)) =>
           /\ x.stage # "done" /\ ready[x.psrc]
           /\ \/ Waiting(x.al)'
              \/ IF IsSystem(InsnOf(x)) THEN al'[x.al].a_value = value[x.psrc]
                 ELSE value'[DestOf(x)] = Op(value[x.psrc])
  PROVE  ValuesInv' /\ Step
<1>1. /\ Rings /\ Rings' /\ BackendInv /\ al \in [Slot -> Entry] /\ AMT \in [Log -> Phys]
      /\ x.al \in InFlight /\ x.al \in Slot /\ InFlight \subseteq Slot
  <2>1. Rings /\ Rings' /\ BackendInv /\ al \in [Slot -> Entry] /\ AMT \in [Log -> Phys]
    BY DEF TablesInv, Shapes, Rings, TypeOK
  <2> QED
    BY <2>1, BackendFacts, InFlightSlots
<1>2. InFlight' = InFlight
  BY SameList
<1>3. SourceInv' /\ \A s \in InFlight : SourceOf(s)' = SourceOf(s)
  BY <1>1, SameSources DEF ValuesInv
<1>4. DestOf(x) \in Phys /\ (HasDest(InsnOf(x)) => ~ready[DestOf(x)])
  <2>1. DestOf(x) \in Phys
    BY <1>1 DEF Entry, DestOf
  <2>2. HasDest(InsnOf(x)) => ~ready[DestOf(x)]
    BY <1>1 DEF ReadyBitsExact, InsnOf, DestOf
  <2> QED
    BY <2>1, <2>2
<1>5. \A q \in Phys : KeepsReady(q)
  BY <1>4 DEF KeepsReady
<1>6. x.psrc = SourceOf(x.al) /\ x.psrc \in Phys
  BY <1>1, InFlightItem DEF ValuesInv, SourceInv
<1>7. ASSUME NEW s \in InFlight, HasDest(al[s].insn), s # x.al PROVE Right(s)'
  <2>1. s \in Slot /\ al'[s].insn = al[s].insn /\ al'[s].pdst = al[s].pdst /\ al'[s].a_value = al[s].a_value
    BY <1>1, <1>7 DEF KeepsEntries
  <2>2. al[s].pdst \in Phys /\ SourceOf(s) \in Phys
    BY <1>1, <2>1, InFlightItem DEF Entry
  <2>3. (Queued(s) => Queued(s)') /\ (Waiting(s) => Waiting(s)')
    BY <1>7 DEF Queued, Waiting
  <2>4. Right(s)
    BY <1>7 DEF ValuesInv, ResultInv
  <2> QED
    BY <1>3, <1>5, <1>7, <2>1, <2>2, <2>3, <2>4, StillRight
<1>8. ASSUME HasDest(InsnOf(x)) PROVE Right(x.al)'
  <2>1. PICK s : s = x.al
    OBVIOUS
  <2>2. al'[s].insn = InsnOf(x) /\ al'[s].pdst = DestOf(x) /\ SourceOf(s)' = x.psrc
    BY <1>1, <1>3, <1>6, <2>1 DEF KeepsEntries, InsnOf, DestOf
  <2>3. ready[x.psrc] /\ ready'[x.psrc] /\ value'[x.psrc] = value[x.psrc]
    BY <1>5, <1>6, <1>8 DEF KeepsReady
  <2>4. \/ Waiting(s)'
        \/ IF IsSystem(InsnOf(x)) THEN al'[s].a_value = value[x.psrc]
           ELSE value'[DestOf(x)] = Op(value[x.psrc])
    BY <1>8, <2>1
  <2>5. Right(s)'
    BY <2>2, <2>3, <2>4 DEF Right
  <2> QED
    BY <2>1, <2>5
<1>9. ResultInv'
  <2>1. ASSUME NEW t \in InFlight', HasDest(al'[t].insn) PROVE Right(t)'
    <3>1. t \in InFlight /\ HasDest(al[t].insn)
      BY <1>1, <1>2, <2>1 DEF KeepsEntries
    <3>2. CASE t = x.al
      BY <1>8, <3>1, <3>2 DEF InsnOf
    <3>3. CASE t # x.al
      BY <1>7, <3>1, <3>3
    <3> QED
      BY <3>2, <3>3
  <2> QED
    BY <2>1 DEF ResultInv
<1>10. \A l \in Log : value'[AMT[l]] = value[AMT[l]]
  <2>1. \A l \in Log : AMT[l] \in Phys /\ ready[AMT[l]]
    BY <1>1 DEF ReadyBitsExact
  <2> QED
    BY <1>5, <2>1 DEF KeepsReady
<1>11. CommittedRegs' = CommittedRegs /\ Window' = Window
  BY <1>1, <1>10, SameWindow, SameRegs
<1> QED
  BY <1>3, <1>9, <1>11, IsStutter DEF ValuesInv

LEMMA Moved ==
  ASSUME TablesInv, NEW x \in backend, NEW st, backend' = MoveTo(x, st)
  PROVE  /\ \A y \in backend' : \E w \in backend : y.al = w.al /\ y.psrc = w.psrc
         /\ \A y : y.al # x.al => (y \in backend' <=> y \in backend)
         /\ st # "done" => Waiting(x.al)'
<1>1. x \in Flying
  BY BackendFacts DEF TablesInv, Shapes
<1>2. PICK z : z = [x EXCEPT !.stage = st]
  OBVIOUS
<1>3. z.al = x.al /\ z.psrc = x.psrc /\ z.stage = st
  BY <1>1, <1>2 DEF Flying
<1>4. \A y : y \in backend' <=> (y \in backend /\ y # x) \/ y = z
  BY <1>2 DEF MoveTo
<1>5. \A y : y.al # x.al => (y \in backend' <=> y \in backend)
  BY <1>3, <1>4
<1>6. st # "done" => Waiting(x.al)'
  BY <1>3, <1>4 DEF Waiting
<1> QED
  BY <1>3, <1>4, <1>5, <1>6

(* What an instruction of the lanes does to the entries, as far as they    *)
(* matter here.                                                            *)
LEMMA LaneEntries ==
  ASSUME TablesInv, NEW x \in backend, Execute(x) \/ LoadReplay(x)
  PROVE  KeepsEntries /\ \A s \in Slot : s # x.al => al'[s].a_value = al[s].a_value
<1>1. al \in [Slot -> Entry] /\ x.al \in Slot /\ InFlight \subseteq Slot
  BY BackendFacts, InFlightSlots DEF TablesInv, Shapes, Rings, TypeOK
<1>2. CASE ExecuteStore(x)
  <2>1. CASE UNCHANGED al
    BY <2>1 DEF KeepsEntries
  <2>2. CASE \E s \in ExecutedLoads(x) : al' = [al EXCEPT ![s].load_violation = TRUE]
    <3>1. PICK s \in Slot : al' = [al EXCEPT ![s].load_violation = TRUE]
      BY <1>1, <2>2 DEF ExecutedLoads
    <3> QED
      BY <1>1, <3>1 DEF KeepsEntries, Entry
  <2> QED
    BY <1>2, <2>1, <2>2 DEF ExecuteStore
<1>3. CASE ExecuteAlu(x) \/ ExecuteSystem(x) \/ ExecuteLoadHit(x) \/ ExecuteLoadMiss(x)
  BY <1>1, <1>3 DEF ExecuteAlu, ExecuteSystem, ExecuteLoadHit, ExecuteLoadMiss, lists,
     KeepsEntries, Entry
<1>4. CASE LoadReplay(x)
  BY <1>1, <1>4 DEF LoadReplay, KeepsEntries, Entry
<1> QED
  BY <1>2, <1>3, <1>4 DEF Execute

LEMMA ExecuteValues ==
  ASSUME "load_x0" \notin Kinds, TablesInv, TablesInv', ReadyBitsExact, ValuesInv,
         NEW x \in backend, Execute(x)
  PROVE  ValuesInv' /\ Step
<1>1. /\ Rings /\ Rings' /\ BackendInv /\ al \in [Slot -> Entry] /\ x.al \in Slot
      /\ ready \in [Phys -> BOOLEAN] /\ value \in [Phys -> Val]
      /\ x.al \in InFlight /\ InsnOf(x).kind # "load_x0" /\ DestOf(x) \in Phys
  <2>1. /\ Rings /\ Rings' /\ BackendInv /\ al \in [Slot -> Entry]
        /\ ready \in [Phys -> BOOLEAN] /\ value \in [Phys -> Val]
    BY DEF TablesInv, Shapes, Rings, TypeOK
  <2>2. x.al \in InFlight /\ x.al \in Slot
    BY <2>1, BackendFacts
  <2> QED
    BY <2>1, <2>2 DEF BackendInv, InsnOf, DestOf, Entry
<1>2. UNCHANGED <<AMT, alHead, alTail, dispatch>> /\ SameProgram
  BY <1>1, ExecuteEffect DEF maps, front
<1>3. KeepsEntries /\ \A s \in Slot : s # x.al => al'[s].a_value = al[s].a_value
  BY LaneEntries
<1>4. x.stage = "queued" /\ ready[x.psrc]
  BY DEF Execute, ExecuteAlu, ExecuteSystem, ExecuteLoadHit, ExecuteLoadMiss, ExecuteStore, Issues
<1>5. CASE ExecuteLoadMiss(x)
  <2>1. UNCHANGED <<ready, value>> /\ backend' = MoveTo(x, "missed")
    BY <1>5 DEF ExecuteLoadMiss
  <2>2. /\ \A y \in backend' : \E w \in backend : y.al = w.al /\ y.psrc = w.psrc
        /\ \A y : y.al # x.al => (y \in backend' <=> y \in backend)
        /\ Waiting(x.al)'
    BY <2>1, Moved
  <2> QED
    BY <1>2, <1>3, <1>4, <2>1, <2>2, Computes
<1>6. CASE ExecuteAlu(x) \/ ExecuteSystem(x) \/ ExecuteLoadHit(x) \/ ExecuteStore(x)
  <2>1. backend' = MoveTo(x, "done")
    BY <1>6 DEF ExecuteAlu, ExecuteSystem, ExecuteLoadHit, ExecuteStore
  <2>2. /\ \A y \in backend' : \E w \in backend : y.al = w.al /\ y.psrc = w.psrc
        /\ \A y : y.al # x.al => (y \in backend' <=> y \in backend)
    BY <2>1, Moved
  <2>3. \/ UNCHANGED <<ready, value>> /\ ~HasDest(InsnOf(x))
        \/ /\ HasDest(InsnOf(x)) /\ ~IsSystem(InsnOf(x))
           /\ WriteRegister(DestOf(x), Op(value[x.psrc]))
        \/ /\ HasDest(InsnOf(x)) /\ IsSystem(InsnOf(x)) /\ al'[x.al].a_value = value[x.psrc]
           /\ \E junk \in Val : WriteRegister(DestOf(x), junk)
    <3>1. CASE ExecuteAlu(x)
      BY <3>1 DEF ExecuteAlu, IsSystem
    <3>2. CASE ExecuteSystem(x)
      <4>1. al'[x.al].a_value = value[x.psrc]
        BY <1>1, <3>2 DEF ExecuteSystem, Entry
      <4> QED
        BY <3>2, <4>1 DEF ExecuteSystem, IsSystem, HasDest
    <3>3. CASE ExecuteLoadHit(x)
      <4>1. HasDest(InsnOf(x)) /\ ~IsSystem(InsnOf(x))
        BY <1>1, <3>3 DEF ExecuteLoadHit, IsLoad, HasDest, IsSystem
      <4> QED
        BY <3>3, <4>1 DEF ExecuteLoadHit, LoadTarget
    <3>4. CASE ExecuteStore(x)
      BY <3>4 DEF ExecuteStore, HasDest
    <3> QED
      BY <1>6, <3>1, <3>2, <3>3, <3>4
  <2>4. \A q \in Phys : (HasDest(InsnOf(x)) => q # DestOf(x)) =>
                           ready'[q] = ready[q] /\ value'[q] = value[q]
    BY <1>1, <2>3 DEF WriteRegister
  <2>5. HasDest(InsnOf(x)) => IF IsSystem(InsnOf(x)) THEN al'[x.al].a_value = value[x.psrc]
                              ELSE value'[DestOf(x)] = Op(value[x.psrc])
    BY <1>1, <2>3 DEF WriteRegister
  <2> QED
    BY <1>2, <1>3, <1>4, <2>2, <2>4, <2>5, Computes
<1> QED
  BY <1>5, <1>6 DEF Execute

LEMMA LoadReplayValues ==
  ASSUME TablesInv, TablesInv', ReadyBitsExact, ValuesInv, NEW x \in backend, LoadReplay(x)
  PROVE  ValuesInv' /\ Step
<1>1. /\ Rings /\ Rings' /\ BackendInv /\ al \in [Slot -> Entry] /\ x.al \in Slot
      /\ ready \in [Phys -> BOOLEAN] /\ value \in [Phys -> Val]
      /\ x.al \in InFlight /\ DestOf(x) \in Phys
  <2>1. /\ Rings /\ Rings' /\ BackendInv /\ al \in [Slot -> Entry]
        /\ ready \in [Phys -> BOOLEAN] /\ value \in [Phys -> Val]
    BY DEF TablesInv, Shapes, Rings, TypeOK
  <2>2. x.al \in InFlight /\ x.al \in Slot
    BY <2>1, BackendFacts
  <2> QED
    BY <2>1, <2>2 DEF DestOf, Entry
<1>2. UNCHANGED <<AMT, alHead, alTail, dispatch>> /\ SameProgram
  BY <1>1, ReplayWritebackEffect DEF maps, front
<1>3. KeepsEntries /\ \A s \in Slot : s # x.al => al'[s].a_value = al[s].a_value
  BY LaneEntries
<1>4. /\ x.stage = "missed" /\ HasDest(InsnOf(x)) /\ backend' = backend \ {x}
      /\ ready' = [ready EXCEPT ![DestOf(x)] = TRUE]
      /\ value' = [value EXCEPT ![DestOf(x)] = Op(value[x.psrc])]
  BY DEF LoadReplay, WriteRegister
<1>5. ready[x.psrc]
  <2>1. \A y \in backend : y.al = x.al => y = x
    BY <1>1 DEF BackendInv, BackendIsActiveList
  <2>2. ~Queued(x.al)
    BY <1>4, <2>1 DEF Queued
  <2>3. Right(x.al) /\ x.psrc = SourceOf(x.al)
    BY <1>1, <1>4 DEF ValuesInv, ResultInv, SourceInv, InsnOf
  <2> QED
    BY <2>2, <2>3 DEF Right
<1>6. ~IsSystem(InsnOf(x))
  BY <1>1, <1>4 DEF BackendInv, IsLoad, IsSystem
<1>7. /\ \A y \in backend' : \E w \in backend : y.al = w.al /\ y.psrc = w.psrc
      /\ \A y : y.al # x.al => (y \in backend' <=> y \in backend)
  BY <1>4
<1>8. \A q \in Phys : q # DestOf(x) => ready'[q] = ready[q] /\ value'[q] = value[q]
  BY <1>1, <1>4
<1>9. value'[DestOf(x)] = Op(value[x.psrc])
  BY <1>1, <1>4
<1> QED
  BY <1>2, <1>3, <1>4, <1>5, <1>6, <1>7, <1>8, <1>9, Computes

-----------------------------------------------------------------------------
(* A mispredicted branch.                                                  *)

LEMMA WindowIsSeq == Rings => \E S : Window \in Seq(S)
<1> SUFFICES ASSUME Rings PROVE \E S : Window \in Seq(S)
  OBVIOUS
<1>1. PICK S : S = {Window[k] : k \in 1 .. Total}
  OBVIOUS
<1>2. Window = [k \in 1 .. Total |-> Window[k]] /\ Total \in Nat
  BY WindowShape, UsedType
<1>3. Window \in [1 .. Total -> S]
  <2> HIDE DEF Window
  <2> QED
    BY <1>1, <1>2
<1> QED
  BY <1>2, <1>3, FunctionIsSeq

LEMMA ResolveMispredictValues ==
  ASSUME TablesInv, TablesInv', ReadyBitsExact, ValuesInv, NEW x \in backend, ResolveMispredict(x)
  PROVE  ValuesInv' /\ Step
<1>1. /\ Rings /\ Rings' /\ TypeInv /\ BackendInv /\ BackendInv' /\ al \in [Slot -> Entry]
      /\ x.al \in Slot /\ Total \in Nat /\ InFlight \subseteq Slot
  <2>1. Rings /\ Rings' /\ TypeInv /\ BackendInv /\ BackendInv' /\ al \in [Slot -> Entry]
    BY DEF TablesInv, Shapes, Rings, TypeOK
  <2> QED
    BY <2>1, BackendFacts, UsedType, InFlightSlots
<1>2. PICK n : n = Age(x.al) + 1
  OBVIOUS
<1>3. /\ Used' = n /\ Total' = n /\ n <= Total /\ n \in Nat \ {0} /\ n <= Used /\ Used \in Nat
      /\ \A s : Age(s)' = Age(s)
      /\ \A s \in Slot : s \in InFlight' <=> Age(s) < n
  <2>1. /\ Used' = n /\ Total' = n /\ n <= Total /\ Age(x.al) \in Nat /\ Age(x.al) < Used
        /\ \A s : Age(s)' = Age(s) /\ alHead # -1
        /\ \A s \in Slot : s \in InFlight' <=> Age(s) <= Age(x.al)
    BY <1>1, <1>2, MispredictRing
  <2>2. \A s \in Slot : Age(s) \in Int
    BY <1>1, <2>1, Ages
  <2>3. Used \in Nat
    BY <1>1, UsedType
  <2>4. n \in Nat \ {0} /\ n <= Used
    BY <1>2, <2>1, <2>3
  <2>5. \A s \in Slot : s \in InFlight' <=> Age(s) < n
    BY <1>2, <2>1, <2>2
  <2> QED
    BY <2>1, <2>3, <2>4, <2>5
<1>4. Follows(Program, Program', 0, n)
  <2>1. NeedsChk(InsnOf(x)) /\ ~PerfectBranchPred
    BY DEF ResolveMispredict
  <2>2. \A y \in backend : x.id \notin y.mask <=> Age(y.al) <= Age(x.al)
    BY <2>1, MaskSaysYounger
  <2> QED
    BY <1>1, <1>2, <2>2, ResolveMispredictEffect
<1>5. /\ UNCHANGED <<AMT, ready, value>> /\ x.stage = "done" /\ NeedsChk(InsnOf(x))
      /\ al' = [al EXCEPT ![x.al].completed = TRUE] /\ dispatch' = <<>>
      /\ backend' \subseteq backend
  BY DEF ResolveMispredict, Complete, Survivors
<1>6. InFlight' \subseteq InFlight /\ \A s \in InFlight' : SourceOf(s)' = SourceOf(s)
  <2>1. InFlight' \subseteq Slot
    BY <1>1, AfterStep
  <2>2. \A s \in Slot : s \in InFlight' => s \in InFlight
    <3>1. \A s \in Slot : Age(s) \in Int /\ (s \in InFlight <=> Age(s) < Used)
      <4>1. alHead # -1
        BY <1>1, MispredictRing
      <4> QED
        BY <1>1, <4>1, Ages
    <3> QED
      BY <1>3, <3>1
  <2>3. InFlight' \subseteq InFlight
    BY <2>1, <2>2
  <2>4. ASSUME NEW s \in InFlight' PROVE SourceOf(s)' = SourceOf(s)
    <3>1. s \in InFlight /\ Age(s) < n /\ Age(s)' = Age(s)
      BY <1>3, <2>1, <2>3
    <3> QED
      BY <1>3, <1>4, <1>5, <3>1, SourceOfKept
  <2> QED
    BY <2>3, <2>4
<1>7. SourceInv'
  <2>1. ASSUME NEW y \in backend' PROVE y.psrc = SourceOf(y.al)'
    <3>1. PICK s : s = y.al
      OBVIOUS
    <3>2. s \in InFlight'
      BY <1>1, <3>1 DEF BackendInv, BackendIsActiveList
    <3>3. y \in backend /\ y.psrc = SourceOf(s)
      BY <1>5, <3>1 DEF ValuesInv, SourceInv
    <3> QED
      BY <1>6, <3>1, <3>2, <3>3
  <2>2. 1 .. Len(dispatch') = {}
    BY <1>5
  <2> QED
    BY <2>1, <2>2 DEF SourceInv
<1>8. ResultInv'
  <2>1. ASSUME NEW s \in InFlight'
        PROVE  /\ al'[s].insn = al[s].insn /\ al'[s].pdst = al[s].pdst
               /\ al'[s].a_value = al[s].a_value
               /\ al'[s].completed => al[s].completed \/ \E y \in backend : y.al = s /\ y.stage = "done"
    <3>1. s \in Slot
      BY <1>1, <1>6
    <3>2. CASE s = x.al
      BY <1>1, <1>5, <3>1, <3>2 DEF Entry
    <3>3. CASE s # x.al
      BY <1>1, <1>5, <3>1, <3>3
    <3> QED
      BY <3>2, <3>3
  <2>2. \A y \in backend' : \E w \in backend : y.al = w.al /\ y.stage = w.stage
    BY <1>5
  <2> QED
    BY <1>5, <1>6, <2>1, <2>2, NothingComputed DEF ValuesInv
<1>9. CommittedRegs' = CommittedRegs
  BY <1>5, SameRegs
<1>10. n \in 1 .. Len(Window) /\ NeedsChk(Window[n])
  <2>1. InsnOf(x) = Program[n].insn
    BY <1>1, <1>2, BackendFacts
  <2>2. n \in 1 .. Total
    BY <1>1, <1>3
  <2> QED
    BY <1>1, <1>5, <2>1, <2>2, WindowShape
<1>11. Window' = SubSeq(Window, 1, n)
  <2>1. PICK S : Window \in Seq(S)
    BY <1>1, WindowIsSeq
  <2>2. Len(Window) = Total
    BY <1>1, WindowShape
  <2>3. 1 \in 1 .. Len(Window) + 1 /\ n \in 1 - 1 .. Len(Window)
    BY <1>1, <1>3, <2>2
  <2>4. PICK w : w = SubSeq(Window, 1, n)
    OBVIOUS
  <2>5. w \in Seq(S) /\ Len(w) = n - 1 + 1 /\ \A k \in 1 .. n - 1 + 1 : w[k] = Window[1 + k - 1]
    BY <2>1, <2>3, <2>4, SubSeqProperties
  <2>6. n - 1 + 1 = n /\ \A k \in 1 .. n : 1 + k - 1 = k /\ k \in 1 .. Total /\ k + 0 = k
    BY <1>1, <1>3
  <2>7. w = [k \in 1 .. n |-> w[k]]
    BY <2>5, <2>6
  <2>8. \A k \in 1 .. n : w[k] = Program[k].insn
    BY <1>1, <2>5, <2>6, WindowShape
  <2>9. \A k \in 1 .. n : Program'[k].insn = Program[k].insn
    BY <1>4, <2>6 DEF Follows
  <2>10. Window' = [k \in 1 .. n |-> Program'[k].insn]
    BY <1>1, <1>3, WindowAfter
  <2> QED
    BY <2>4, <2>7, <2>8, <2>9, <2>10
<1> QED
  BY <1>7, <1>8, <1>9, <1>10, <1>11, IsRedirect DEF ValuesInv

-----------------------------------------------------------------------------
(* retire().                                                               *)

(* The head has computed its result from the committed registers.          *)
LEMMA HeadComputed ==
  ASSUME TablesInv, ValuesInv, HeadCompleted
  PROVE  /\ alHead \in InFlight /\ Age(alHead) = 0 /\ Total \in Nat \ {0}
         /\ Program[1].insn = HeadOf.insn /\ Program[1].pdst = HeadOf.pdst
         /\ HeadOf.insn.src \in Log /\ HeadOf.insn.dst \in Log /\ HeadOf.pdst \in Phys
         /\ Window # <<>> /\ Head(Window) = HeadOf.insn
         /\ HasDest(HeadOf.insn) =>
              IF IsSystem(HeadOf.insn) THEN HeadOf.a_value = CommittedRegs[HeadOf.insn.src]
              ELSE value[HeadOf.pdst] = Op(CommittedRegs[HeadOf.insn.src])
<1>1. /\ Rings /\ BackendInv /\ al \in [Slot -> Entry] /\ AMT \in [Log -> Phys] /\ alHead # -1
      /\ HeadOf.completed
  BY DEF TablesInv, Shapes, Rings, TypeOK, HeadCompleted
<1>2. /\ alHead \in Slot /\ Used \in Nat \ {0} /\ Total \in Nat \ {0}
      /\ 0 < Used
  <2>1. Used \in Nat /\ Used # 0 /\ alHead \in Slot /\ Len(dispatch) \in Nat
    BY <1>1, UsedType, Sizes
  <2> QED
    BY <2>1 DEF Total
<1>3. Age(alHead) = 0
  BY <1>2 DEF Age, Slot
<1>4. alHead \in InFlight
  BY <1>1, <1>2, <1>3, Ages
<1>5. Program[1].insn = HeadOf.insn /\ Program[1].pdst = HeadOf.pdst
  <2>1. 0 + 1 = 1
    OBVIOUS
  <2> QED
    BY <1>3, <1>4, <2>1, InFlightItem DEF HeadOf
<1>6. HeadOf.insn.src \in Log /\ HeadOf.insn.dst \in Log /\ HeadOf.pdst \in Phys
  BY <1>1, <1>2 DEF HeadOf, Entry
<1>7. SourceOf(alHead) = AMT[HeadOf.insn.src]
  <2>1. MapOver(AMT, Program, 0) = AMT
    BY <1>1, MapZero
  <2>2. (0 + 1) - 1 = 0 /\ 0 + 1 = 1
    OBVIOUS
  <2> QED
    BY <1>3, <1>5, <2>1, <2>2 DEF SourceOf, Source, SourceIn
<1>8. value[SourceOf(alHead)] = CommittedRegs[HeadOf.insn.src]
  BY <1>6, <1>7 DEF CommittedRegs
<1>9. ~Waiting(alHead)
  BY <1>1, <1>4 DEF Waiting, BackendInv, BackendIsActiveList, HeadOf
<1>10. HasDest(HeadOf.insn) =>
         IF IsSystem(HeadOf.insn) THEN HeadOf.a_value = CommittedRegs[HeadOf.insn.src]
         ELSE value[HeadOf.pdst] = Op(CommittedRegs[HeadOf.insn.src])
  BY <1>4, <1>8, <1>9 DEF ValuesInv, ResultInv, Right, HeadOf
<1>11. Window # <<>> /\ Head(Window) = HeadOf.insn
  <2>1. 1 \in 1 .. Total
    BY <1>2
  <2>2. Window[1] = HeadOf.insn /\ Len(Window) = Total
    BY <1>1, <1>5, <2>1, WindowShape
  <2>3. Len(<<>>) = 0
    OBVIOUS
  <2>4. Window # <<>>
    BY <1>2, <2>2, <2>3
  <2>5. Head(Window) = Window[1]
    <3>1. PICK S : Window \in Seq(S)
      BY <1>1, WindowIsSeq
    <3> HIDE DEF Window
    <3> QED
      BY <2>4, <3>1
  <2> QED
    BY <2>2, <2>4, <2>5
<1> QED
  BY <1>2, <1>3, <1>4, <1>5, <1>6, <1>10, <1>11

LEMMA RetireCommitValues ==
  ASSUME TablesInv, TablesInv', ReadyBitsExact, ValuesInv, RetireCommit
  PROVE  ValuesInv' /\ Step
<1>1. /\ Rings /\ Rings' /\ BackendInv /\ BackendInv' /\ AMT \in [Log -> Phys]
      /\ alHead # -1 /\ HeadCompleted /\ ~IsSystem(HeadOf.insn)
      /\ UNCHANGED <<al, dispatch, backend, ready, value>> /\ AdvanceHead
      /\ AMT' = CommittedAMT
  BY DEF TablesInv, Shapes, Rings, TypeOK, RetireCommit, HeadCompleted, front
<1>2. /\ alHead \in InFlight /\ Age(alHead) = 0 /\ Total \in Nat \ {0}
      /\ Program[1].insn = HeadOf.insn /\ Program[1].pdst = HeadOf.pdst
      /\ HeadOf.insn.src \in Log /\ HeadOf.insn.dst \in Log
      /\ Window # <<>> /\ Head(Window) = HeadOf.insn
      /\ HasDest(HeadOf.insn) => value[HeadOf.pdst] = Op(CommittedRegs[HeadOf.insn.src])
  BY <1>1, HeadComputed
<1>3. /\ Used \in Nat \ {0} /\ Used' = Used - 1 /\ Total' = Total - 1
      /\ Follows(Program, Program', 1, Total - 1)
  BY <1>1, RetireCommitEffect
<1>4. /\ InFlight' = InFlight \ {alHead}
      /\ \A t \in InFlight : t # alHead => Age(t) \in Nat \ {0} /\ Age(t)' = Age(t) - 1
  BY <1>1, RetireRing
<1>5. AMT' = CommitFirst(AMT, Program)
  BY <1>1, <1>2 DEF CommittedAMT, CommitFirst
<1>6. ASSUME NEW j \in 1 .. Total - 1 PROVE Source(j)' = Source(j + 1)
  <2>1. Total - 1 \in Nat
    BY <1>2
  <2>2. SourceIn(CommitFirst(AMT, Program), Program', j) = SourceIn(AMT, Program, j + 1)
    BY <1>1, <1>3, <2>1, SourceTail
  <2> QED
    BY <1>5, <2>2 DEF Source
<1>7. ASSUME NEW s \in InFlight' PROVE SourceOf(s)' = SourceOf(s)
  <2>1. s \in InFlight /\ s # alHead
    BY <1>4
  <2>2. PICK a : a = Age(s)
    OBVIOUS
  <2>3. a \in Nat \ {0} /\ Age(s)' = a - 1 /\ a + 1 \in 1 .. Total
    BY <1>4, <2>1, <2>2, InFlightItem
  <2>4. PICK b : b = a - 1
    OBVIOUS
  <2>5. b + 1 \in 1 .. Total - 1 /\ (b + 1) + 1 = a + 1
    BY <1>2, <2>3, <2>4
  <2>6. PICK c : c = b + 1
    OBVIOUS
  <2>7. Source(c)' = Source(c + 1)
    BY <1>6, <2>5, <2>6
  <2>8. SourceOf(s)' = Source(c)'
    BY <2>3, <2>4, <2>6 DEF SourceOf
  <2>9. SourceOf(s) = Source(c + 1)
    BY <2>2, <2>5, <2>6 DEF SourceOf
  <2> QED
    BY <2>7, <2>8, <2>9
<1>8. SourceInv'
  <2>1. ASSUME NEW y \in backend' PROVE y.psrc = SourceOf(y.al)'
    <3>1. PICK s : s = y.al
      OBVIOUS
    <3>2. s \in InFlight'
      BY <1>1, <3>1 DEF BackendInv, BackendIsActiveList
    <3>3. y \in backend /\ y.psrc = SourceOf(s)
      BY <1>1, <3>1 DEF ValuesInv, SourceInv
    <3> QED
      BY <1>7, <3>1, <3>2, <3>3
  <2>2. ASSUME NEW k \in 1 .. Len(dispatch') PROVE dispatch'[k].psrc = Source(Used + k)'
    <3>1. PICK j : j = (Used - 1) + k
      OBVIOUS
    <3>2. k \in 1 .. Len(dispatch) /\ Len(dispatch) \in Nat /\ Total = Used + Len(dispatch)
      BY <1>1, UsedType DEF Total
    <3>3. j \in 1 .. Total - 1 /\ j + 1 = Used + k /\ j = Used' + k
      BY <1>3, <3>1, <3>2
    <3>4. dispatch'[k].psrc = Source(j + 1)
      BY <1>1, <3>2, <3>3 DEF ValuesInv, SourceInv
    <3>5. Source(j)' = Source(j + 1)
      BY <1>6, <3>3
    <3> QED
      BY <3>3, <3>4, <3>5
  <2> QED
    BY <2>1, <2>2 DEF SourceInv
<1>9. ResultInv'
  <2>1. InFlight' \subseteq InFlight
    BY <1>4
  <2>2. \A y \in backend' : \E w \in backend : y.al = w.al /\ y.stage = w.stage
    BY <1>1
  <2> QED
    BY <1>1, <1>7, <2>1, <2>2, NothingComputed DEF ValuesInv
<1>10. CommittedRegs' = IF HasDest(Head(Window))
                          THEN [CommittedRegs EXCEPT ![Head(Window).dst] =
                                  Op(CommittedRegs[Head(Window).src])]
                          ELSE CommittedRegs
  <2>1. CASE HasDest(HeadOf.insn)
    <3>1. AMT' = [AMT EXCEPT ![HeadOf.insn.dst] = HeadOf.pdst]
      BY <1>1, <2>1 DEF CommittedAMT
    <3>2. PICK v : v = Op(CommittedRegs[HeadOf.insn.src])
      OBVIOUS
    <3>3. value[HeadOf.pdst] = v
      BY <1>2, <2>1, <3>2
    <3>4. CommittedRegs' = [CommittedRegs EXCEPT ![HeadOf.insn.dst] = v]
      BY <1>1, <1>2, <3>1, <3>3 DEF CommittedRegs
    <3> QED
      BY <1>2, <2>1, <3>2, <3>4
  <2>2. CASE ~HasDest(HeadOf.insn)
    BY <1>1, <1>2, <2>2 DEF CommittedAMT, CommittedRegs
  <2> QED
    BY <2>1, <2>2
<1>11. Window' = Tail(Window)
  <2>1. PICK S : Window \in Seq(S)
    BY <1>1, WindowIsSeq
  <2>2. Len(Window) = Total
    BY <1>1, WindowShape
  <2>3. PICK w : w = Tail(Window)
    OBVIOUS
  <2>4. w \in Seq(S) /\ Len(w) = Total - 1 /\ \A k \in 1 .. Total - 1 : w[k] = Window[k + 1]
    BY <1>2, <2>1, <2>2, <2>3, HeadTailProperties
  <2>5. w = [k \in 1 .. Total - 1 |-> w[k]]
    BY <2>4
  <2>6. \A k \in 1 .. Total - 1 : k + 1 \in 1 .. Total
    BY <1>2
  <2>7. \A k \in 1 .. Total - 1 : w[k] = Program[k + 1].insn
    BY <1>1, <2>4, <2>6, WindowShape
  <2>8. \A k \in 1 .. Total - 1 : Program'[k].insn = Program[k + 1].insn
    BY <1>3 DEF Follows
  <2>9. Window' = [k \in 1 .. Total - 1 |-> Program'[k].insn]
    BY <1>1, <1>3, WindowAfter
  <2> QED
    BY <2>3, <2>5, <2>7, <2>8, <2>9
<1>12. ~IsSystem(Head(Window))
  BY <1>1, <1>2
<1> QED
  BY <1>2, <1>8, <1>9, <1>10, <1>11, <1>12, IsCommit DEF ValuesInv

LEMMA SquashValues ==
  ASSUME Rings', alHead' = -1, dispatch' = <<>>, backend' = {}
  PROVE  ValuesInv' /\ Window' = <<>>
<1>1. Total' = 0
  BY SquashEffect
<1>2. InFlight' = {}
  BY AfterStep
<1>3. 1 .. Len(dispatch') = {}
  OBVIOUS
<1>4. Window' = <<>>
  BY <1>1, NoWindow
<1> QED
  BY <1>2, <1>3, <1>4 DEF ValuesInv, SourceInv, ResultInv

LEMMA RetireSystemValues ==
  ASSUME TablesInv, TablesInv', ValuesInv, RetireSystem
  PROVE  ValuesInv' /\ Step
<1>1. /\ Rings /\ Rings' /\ AMT \in [Log -> Phys] /\ value \in [Phys -> Val]
      /\ alHead # -1 /\ HeadCompleted /\ IsSystem(HeadOf.insn) /\ HasDest(HeadOf.insn)
      /\ alHead' = -1 /\ dispatch' = <<>> /\ backend' = {}
      /\ AMT' = CommittedAMT /\ value' = [value EXCEPT ![HeadOf.pdst] = Op(HeadOf.a_value)]
  BY DEF TablesInv, Shapes, Rings, TypeOK, RetireSystem, HeadCompleted, SquashComplete,
     IsSystem, HasDest
<1>2. /\ alHead \in InFlight
      /\ HeadOf.insn.src \in Log /\ HeadOf.insn.dst \in Log /\ HeadOf.pdst \in Phys
      /\ Window # <<>> /\ Head(Window) = HeadOf.insn
      /\ HeadOf.a_value = CommittedRegs[HeadOf.insn.src]
  BY <1>1, HeadComputed
<1>3. ValuesInv' /\ Window' = <<>>
  BY <1>1, SquashValues
<1>4. \A l \in Log : AMT[l] # HeadOf.pdst
  BY <1>1, <1>2, OwnRegister DEF HeadOf
<1>5. CommittedRegs' = [CommittedRegs EXCEPT ![HeadOf.insn.dst] = Op(CommittedRegs[HeadOf.insn.src])]
  <2>1. AMT' = [AMT EXCEPT ![HeadOf.insn.dst] = HeadOf.pdst]
    BY <1>1 DEF CommittedAMT
  <2>2. PICK v : v = Op(CommittedRegs[HeadOf.insn.src])
    OBVIOUS
  <2>3. value' = [value EXCEPT ![HeadOf.pdst] = v]
    BY <1>1, <1>2, <2>2
  <2>4. ASSUME NEW l \in Log
        PROVE  value'[AMT'[l]] = IF l = HeadOf.insn.dst THEN v ELSE value[AMT[l]]
    BY <1>1, <1>2, <1>4, <2>1, <2>3
  <2>5. CommittedRegs' = [l \in Log |-> value'[AMT'[l]]]
    BY DEF CommittedRegs
  <2>6. CommittedRegs = [l \in Log |-> value[AMT[l]]]
    BY DEF CommittedRegs
  <2>7. CommittedRegs' = [CommittedRegs EXCEPT ![HeadOf.insn.dst] = v]
    BY <1>2, <2>4, <2>5, <2>6
  <2> QED
    BY <2>2, <2>7
<1> QED
  BY <1>1, <1>2, <1>3, <1>5, IsCommit

LEMMA RetireFlushValues ==
  ASSUME TablesInv, TablesInv', ValuesInv, RetireViolation \/ RetireException
  PROVE  ValuesInv' /\ Step
<1>1. /\ Rings' /\ HeadCompleted
      /\ alHead' = -1 /\ dispatch' = <<>> /\ backend' = {} /\ UNCHANGED <<AMT, value>>
  BY DEF TablesInv, Shapes, RetireViolation, RetireException, SquashComplete
<1>2. Window # <<>>
  BY <1>1, HeadComputed
<1>3. ValuesInv' /\ Window' = <<>>
  BY <1>1, SquashValues
<1>4. CommittedRegs' = CommittedRegs
  BY <1>1, SameRegs
<1> QED
  BY <1>2, <1>3, <1>4, IsFlush

-----------------------------------------------------------------------------
LEMMA NextValues ==
  ASSUME "load_x0" \notin Kinds, TablesInv, TablesInv', ReadyBitsExact, ValuesInv, [Next]_vars
  PROVE  ValuesInv' /\ Step
<1>1. CASE UNCHANGED vars
  BY <1>1, StutterValues
<1>2. CASE (\E b \in Bundle : Rename2Begin(b)) \/ DispatchBegin
  BY <1>2, BeginValues
<1>3. CASE RenameOne
  BY <1>3, RenameOneValues
<1>4. CASE DispatchOne
  BY <1>4, DispatchOneValues
<1>5. ASSUME NEW x \in backend,
             Execute(x) \/ LoadReplay(x) \/ Writeback(x) \/ ResolveCorrect(x) \/ ResolveMispredict(x)
      PROVE  ValuesInv' /\ Step
  <2>1. CASE Execute(x)
    BY <2>1, ExecuteValues
  <2>2. CASE LoadReplay(x)
    BY <2>2, LoadReplayValues
  <2>3. CASE Writeback(x)
    BY <2>3, WritebackValues
  <2>4. CASE ResolveCorrect(x)
    BY <2>4, ResolveCorrectValues
  <2>5. CASE ResolveMispredict(x)
    BY <2>5, ResolveMispredictValues
  <2> QED
    BY <1>5, <2>1, <2>2, <2>3, <2>4, <2>5
<1>6. CASE RetireCommit
  BY <1>6, RetireCommitValues
<1>7. CASE RetireSystem
  BY <1>7, RetireSystemValues
<1>8. CASE RetireViolation \/ RetireException
  BY <1>8, RetireFlushValues
<1> QED
  BY <1>1, <1>2, <1>3, <1>4, <1>5, <1>6, <1>7, <1>8 DEF Next

(* The core implements the in-order machine: with the committed registers  *)
(* and the instructions in flight as its state, every step of renaming,    *)
(* execution, recovery and retirement is a step of that machine or none,   *)
(* for every number of registers, checkpoints and instructions.  A program *)
(* with loads to x0 is left out: such a load writes a register it does not *)
(* own.                                                                    *)
THEOREM CoreExecutesInOrder ==
  (Sound /\ "load_x0" \notin Kinds) => (Spec => ImplementsInOrder)
<1> SUFFICES ASSUME Sound, "load_x0" \notin Kinds PROVE Spec => ImplementsInOrder
  OBVIOUS
<1>1. Init => ValuesInv
  <2> SUFFICES ASSUME Init PROVE ValuesInv
    OBVIOUS
  <2>1. backend = {} /\ InFlight = {} /\ 1 .. Len(dispatch) = {}
    BY DEF Init, InFlight
  <2> QED
    BY <2>1 DEF ValuesInv, SourceInv, ResultInv
<1>2. TablesInv /\ TablesInv' /\ ReadyBitsExact /\ ValuesInv /\ [Next]_vars => ValuesInv' /\ Step
  BY NextValues
<1>3. Spec => []TablesInv
  BY AlwaysTables
<1>4. Spec => []ReadyBitsExact
  BY RenamerReadyBits
<1>5. Spec => [][Abstract!Next]_(Abstract!vars)
  BY <1>1, <1>2, <1>3, <1>4, PTL DEF Spec, Step
<1>6. Spec => Abstract!Init
  BY AbstractInit DEF Spec
<1> QED
  BY <1>5, <1>6 DEF ImplementsInOrder, Abstract!Spec
=============================================================================
