----------------------------- MODULE Arithmetic -----------------------------
(***************************************************************************)
(* Execution in the core (ALU, AtRetirement) beside the functional         *)
(* simulator (Instructions, FloatInstructions).  The operation and A_value *)
(* of an instruction are chosen, and alu() runs once for every second      *)
(* operand it may have: B is B_value or the immediate, C and c_next_pc are *)
(* functions of it.  Operations of the head of the Active List run once for*)
(* each memory, or CSR with its privileges, that they may meet.            *)
(***************************************************************************)
EXTENDS ALU, AtRetirement, FloatInstructions

CONSTANTS
  Operations,      (* the operations that are executed                     *)
  SecondOperands,  (* second operands of operations on words               *)
  DoubleOperands,  (* second operands of operations on doubles             *)
  Addends,         (* third operands of multiply-adds                      *)
  WideS, WideD,    (* wider formats, for what begins with an estimate      *)
  Contained        (* what the memory of an AMO or a CSR contains          *)

FusedOps == {"FMADD_S", "FMSUB_S", "FNMADD_S", "FNMSUB_S"}
FunctionalOps == FusedOps \cup {"FSQRT_S", "FSQRT_D", "FMIN_S", "FMIN_D", "FMAX_S", "FMAX_D"}
AllOps == IntegerOps \cup SingleOps \cup DoubleOps \cup FunctionalOps \cup AmoOps \cup CsrOps
ASSUME OperationsAssumption == Operations \subseteq AllOps
ASSUME OperandsAssumption ==
  /\ Contained \cup SecondOperands \cup DoubleOperands \cup Addends \subseteq Words
  /\ Readable \subseteq 0 .. X + 3
  /\ {WideS, WideD} \subseteq Formats
\* What begins with an estimate has words that can be halved, and halves too for double.
ASSUME WidthsAssumption ==
  /\ \A f \in {S, WideS} : Width(f) % 2 = 0
  /\ \A f \in {D, WideD} : Width(f) % 4 = 0

PC == 4
Imm == 8           (* of branches                                          *)

VARIABLES op, A_value, done,
          C_value,   (* for each B, of what alu() leaves in the payload:   *)
          c_next_pc  (* the result, and where control goes                 *)

vars == <<op, A_value, done, C_value, c_next_pc>>

\* Immediates are shorter than a word and sign-extended.
Immediates == {sext32(i) : i \in 0 .. 2^H - 1}
Floats == 0 .. 2^Width(S) - 1
\* Of these operations the upper half of a register with a float may matter.
HalfOps == {"FSGNJ_S", "FSGNJN_S", "FSGNJX_S", "FMV_S_X", "FMV_X_S"}
OneOperandOps ==
  {"FSQRT_S", "FSQRT_D", "FCLASS_S", "FCLASS_D", "FCVT_W_S", "FCVT_WU_S", "FCVT_L_S", "FCVT_LU_S",
   "FCVT_W_D", "FCVT_WU_D", "FCVT_L_D", "FCVT_LU_D", "FCVT_S_W", "FCVT_S_WU", "FCVT_S_L",
   "FCVT_S_LU", "FCVT_D_W", "FCVT_D_WU", "FCVT_D_L", "FCVT_D_LU", "FCVT_S_D", "FCVT_D_S",
   "FMV_X_S", "FMV_S_X", "FMV_X_D", "FMV_D_X"}
FloatOps == SingleOps \cup DoubleOps \cup FunctionalOps

FirstOperands(o) ==
  IF o \in AmoOps THEN Readable
  ELSE IF o \in CsrOps THEN Contained
  ELSE IF o \in (SingleOps \cup FunctionalOps)
                \ (HalfOps \cup {"FCVT_S_W", "FCVT_S_WU", "FCVT_S_L", "FCVT_S_LU", "FCVT_S_D",
                                 "FSQRT_D", "FMIN_D", "FMAX_D"}) THEN Floats
  ELSE Words
Operands(o) ==
  IF o \in ImmOps \cup OtherOps THEN Immediates
  ELSE IF o \in CsrOps THEN Contained
  ELSE IF o \in {"SLLIW", "SRLIW", "SRAIW"} THEN 0 .. H - 1
  ELSE IF o \in ShiftImmOps THEN 0 .. X - 1
  ELSE IF o \in OneOperandOps THEN {0}
  ELSE IF o \in DoubleOps \cup {"FMIN_D", "FMAX_D"} THEN DoubleOperands
  ELSE IF o \in SingleOps \cup FunctionalOps THEN Floats
  ELSE SecondOperands

\* The context in which the functional simulator executes the same instruction.
Context(o, a, b) ==
  [xlen |-> X, pc |-> PC, npc |-> Wrap(PC + 4), rs1 |-> 1, RS1 |-> a, RS2 |-> b,
   imm |-> IF o \in BranchOps THEN Imm ELSE b, rd |-> <<>>, trap |-> "none",
   mem |-> <<>>, load_reservation |-> NoReservation, pcr |-> 0,
   csr |-> [kind |-> "plain", read |-> 0, write |-> 0], serialized |-> FALSE,
   sr |-> [S |-> FALSE, EI |-> FALSE, PS |-> FALSE, PEI |-> FALSE, EF |-> TRUE],
   epc |-> 0, FRS1 |-> a, FRS2 |-> b, FRS3 |-> 0, rm |-> RNE, frm |-> RNE, fflags |-> {},
   frd |-> <<>>]

\* The memory of an AMO.
MemoryOf(v) == [x \in Readable |-> (v \div 2^(x % X)) % 2]
\* A CSR is written from register 0 or another, by who may and who may not, with
\* floating point on or off and before or after serialize() has been called.
Accesses ==
  {p \in [rs1 : {0, 1}, kind : {"plain", "fp", "timer"}, read : {0, 1, 3}, write : {0, 1},
          S : BOOLEAN, PS : BOOLEAN, EF : BOOLEAN, serialized : BOOLEAN] :
     (p.EF \/ p.kind = "fp") /\ (p.serialized => p.kind = "timer")}
CsrContext(o, a, b, p) ==
  [Context(o, IF p.rs1 = 0 THEN 0 ELSE a, 0) EXCEPT
     !.rs1 = p.rs1, !.pcr = b, !.csr = [kind |-> p.kind, read |-> p.read, write |-> p.write],
     !.sr.S = p.S, !.sr.PS = p.PS, !.sr.EF = p.EF, !.serialized = p.serialized]
-----------------------------------------------------------------------------
Init ==
  /\ op \in Operations /\ A_value \in FirstOperands(op) /\ done = FALSE
  /\ C_value = <<>> /\ c_next_pc = <<>>

\* alu(), agen(), and what only the functional simulator executes: the core copies
\* fused operations from it and stops at the others.
Execute ==
  /\ ~done
  /\ done' = TRUE
  /\ C_value' = IF op \in FunctionalOps THEN <<>>
                ELSE [b \in Operands(op) |->
                        IF op \in AmoOps
                        THEN [v \in Contained |-> execute_amo(op, A_value, b, MemoryOf(v))]
                        ELSE IF op \in CsrOps
                        THEN [p \in Accesses |-> execute_csr(op, CsrContext(op, A_value, b, p))]
                        ELSE Result(op, A_value, b, PC)]
  /\ c_next_pc' = IF op \in ControlOps
                   THEN [b \in Operands(op) |-> NextPC(op, A_value, b, PC, Imm)]
                   ELSE c_next_pc
  /\ UNCHANGED <<op, A_value>>

Next == Execute
Spec == Init /\ [][Next]_vars
-----------------------------------------------------------------------------
\* Of an operand, what a multiplication takes it for.
Factors(o, a, b) ==
  CASE o = "MULH"   -> <<Signed(a), Signed(b)>>
    [] o = "MULHSU" -> <<Signed(a), b>>
    [] OTHER        -> <<a, b>>

\* The upper word mulhi.h puts together from half words, and the lower word MUL
\* gives, are the product of the factors.
ProductOf(o) ==
  done /\ op = o =>
    \A b \in SecondOperands :
      LET f == Factors(o, A_value, b)
      IN C_value[b] * 2^X + Multiply("MUL", A_value, b) = (f[1] * f[2]) % 2^(2*X)
ProductsAreWhole == \A o \in {"MULH", "MULHU"} : ProductOf(o)

\* Each division has its remainder and the number it is read as.
RemainderOp == [DIV |-> "REM", DIVU |-> "REMU", DIVW |-> "REMW", DIVUW |-> "REMUW"]
Number(o, w) ==
  CASE o = "DIV" -> Signed(w) [] o = "DIVU" -> w
    [] o = "DIVW" -> SignedLow(w) [] o = "DIVUW" -> Low(w)

\* A quotient and its remainder belong together, for zero divisors and for the
\* quotient that overflows too: dividend = quotient * divisor + remainder in a
\* word, the remainder is smaller than the divisor, and has the dividend's sign.
DivisionLaw ==
  done /\ op \in DOMAIN RemainderOp =>
    \A b \in SecondOperands :
      LET N(w) == Number(op, w)
          q == N(C_value[b])
          whole == op \in {"DIV", "DIVU"}
          r == N(IF whole THEN Divide(RemainderOp[op], A_value, b)
                 ELSE Divide32(RemainderOp[op], A_value, b))
          bits == IF whole THEN X ELSE H
      IN /\ (q * N(b) + r - N(A_value)) % 2^bits = 0
         /\ N(b) # 0 => Magnitude(r) < Magnitude(N(b))
         /\ r # 0 => (r < 0) = (N(A_value) < 0)

\* Multiplication and division are those of the integers, cut to words.
IntegerArithmetic == ProductsAreWhole /\ DivisionLaw

MemoryOps == {"LOAD", "STORE", "AMO"}

\* The destination, the next PC and the address of a memory operation.
IntegerAgrees ==
  op \in IntegerOps => \A b \in Operands(op) :
    LET c == Context(op, A_value, b)
        r == execute_insn(op, c)
    IN IF op \in MemoryOps THEN C_value[b] = (IF op = "AMO" THEN c.RS1 ELSE Address(c))
       ELSE /\ op \notin BranchOps => r.rd = <<C_value[b]>>
            /\ r.npc = (IF op \in ControlOps THEN c_next_pc[b] ELSE INCREMENT_PC(PC))
            /\ r.trap = "none"

\* What the core is known to do otherwise: it rounds to nearest, and to zero to an
\* integer, whatever the instruction says; to an unsigned integer of half a word it
\* does not extend the sign; FSGNJX_S has no upper half.
HostDiffers(o, a, r) ==
  \/ o \in {"FCVT_WU_S", "FCVT_WU_D"} /\ r.rd[1] >= 2^(X-1)
  \/ o = "FSGNJX_S" /\ a # float(a)

FloatAgrees ==
  op \in SingleOps \cup DoubleOps => \A b \in Operands(op) :
    LET integer == op \in {"FCVT_W_S", "FCVT_WU_S", "FCVT_L_S", "FCVT_LU_S",
                           "FCVT_W_D", "FCVT_WU_D", "FCVT_L_D", "FCVT_LU_D"}
        c == [Context(op, A_value, b) EXCEPT !.rm = IF integer THEN RTZ ELSE RNE]
    IN \E r \in {execute_float(op, c)} :
       \/ C_value[b] = NotTold
       \/ C_value[b] = (IF r.rd # <<>> THEN r.rd[1] ELSE r.frd[1])
       \/ HostDiffers(op, A_value, r)

\* The memory, the destination and the trap of an AMO; the assert of execute_amo()
\* is met where the functional simulator takes the trap of a load.
AmoAgrees ==
  op \in AmoOps => \A b \in SecondOperands, v \in Contained :
    LET c == C_value[b][v]
        r == execute_insn(op, [Context(op, A_value, b) EXCEPT !.mem = MemoryOf(v)])
    IN IF c.stops THEN r.trap \in {"load_address_misaligned", "load_access_fault"}
       ELSE /\ c.trap = r.trap /\ c.mem = r.mem
            /\ c.trap = "none" => r.rd = <<c.C_value>>

\* The destination and the trap of a CSR access, and the registers after it.
CsrAgrees ==
  op \in CsrOps => \A b \in Contained, p \in Accesses :
    LET c == C_value[b][p]
        r == execute_insn(op, CsrContext(op, A_value, b, p))
    IN /\ c.pcr = r.pcr /\ c.rd = r.rd /\ c.sr = r.sr /\ c.serialized = r.serialized
       /\ c.trap = Caught(r).trap

\* The operations on words of H bits and what they do when the machine has only those.
WordForm ==
  [ADD |-> "ADDW", SUB |-> "SUBW", SLL |-> "SLLW", SRL |-> "SRLW", SRA |-> "SRAW",
   MUL |-> "MULW", DIV |-> "DIVW", DIVU |-> "DIVUW", REM |-> "REMW", REMU |-> "REMUW"]
NarrowIsWordForm ==
  op \in DOMAIN WordForm /\ A_value = sext32(A_value) =>
    \A b \in Immediates :
      execute_insn(op, [Context(op, A_value, b) EXCEPT !.xlen = H]).rd
        = execute_insn(WordForm[op], Context(op, A_value, b)).rd

\* On 64 bits the core computes what the functional simulator computes, for all
\* operands, but for the differences named above.  The checker of the core compares
\* them only when a program happens to reach them.  One file gives the functions of a
\* machine of 32 and of 64 bits: the one of the narrow machine is the word form of
\* the wide one on sign-extended operands.
FunctionalAgrees ==
  done => IntegerAgrees /\ NarrowIsWordForm /\ FloatAgrees /\ AmoAgrees /\ CsrAgrees

\* What an operation is to return in format f, told from the exact result.
Exactly(o, f, x, y, z, rm) ==
  CASE o \in {"FADD_S", "FADD_D"} -> Add(f, x, y, rm)
    [] o \in {"FSUB_S", "FSUB_D"} -> Sub(f, x, y, rm)
    [] o \in {"FMUL_S", "FMUL_D"} -> Mul(f, x, y, rm)
    [] o \in {"FDIV_S", "FDIV_D"} -> Div(f, x, y, rm)
    [] o \in {"FSQRT_S", "FSQRT_D"} -> Sqrt(f, x, rm)
    [] o = "FMADD_S" -> MulAdd(f, x, y, z, rm)
    [] o = "FMSUB_S" -> MulAdd(f, x, y, Opposite(f, z), rm)
    [] o = "FNMADD_S" -> MulAdd(f, Opposite(f, x), y, Opposite(f, z), rm)
    [] o = "FNMSUB_S" -> MulAdd(f, Opposite(f, x), y, z, rm)
    [] o = "FCVT_S_D" -> Converted(D, S, x, rm)
    [] o = "FCVT_D_S" -> Converted(S, D, x, rm)
    [] o \in {"FCVT_S_W", "FCVT_D_W"} -> FromInteger(f, SignedLow(x), rm)
    [] o \in {"FCVT_S_WU", "FCVT_D_WU"} -> FromInteger(f, Low(x), rm)
    [] o \in {"FCVT_S_L", "FCVT_D_L"} -> FromInteger(f, Signed(x), rm)
    [] o \in {"FCVT_S_LU", "FCVT_D_LU"} -> FromInteger(f, x, rm)

RoundedOps == {"FADD_S", "FADD_D", "FSUB_S", "FSUB_D", "FMUL_S", "FMUL_D", "FDIV_S", "FDIV_D",
               "FSQRT_S", "FSQRT_D", "FCVT_S_D", "FCVT_D_S", "FCVT_S_W", "FCVT_D_W", "FCVT_S_WU",
               "FCVT_D_WU", "FCVT_S_L", "FCVT_D_L", "FCVT_S_LU", "FCVT_D_LU"} \cup FusedOps
IntegerFrom(o, f, x, rm) ==
  CASE o \in {"FCVT_W_S", "FCVT_W_D"} -> ToInteger(f, x, -(2^(H-1)), 2^(H-1) - 1, rm)
    [] o \in {"FCVT_WU_S", "FCVT_WU_D"} -> ToInteger(f, x, 0, 2^H - 1, rm)
    [] o \in {"FCVT_L_S", "FCVT_L_D"} -> ToInteger(f, x, -(2^(X-1)), 2^(X-1) - 1, rm)
    [] o \in {"FCVT_LU_S", "FCVT_LU_D"} -> ToInteger(f, x, 0, 2^X - 1, rm)
HalfIntegerOps == {"FCVT_W_S", "FCVT_W_D", "FCVT_WU_S", "FCVT_WU_D"}
ToIntegerOps == HalfIntegerOps \cup {"FCVT_L_S", "FCVT_L_D", "FCVT_LU_S", "FCVT_LU_D"}

\* c is the exact result r.
IsRounded(f, c, r) ==
  c.flags = r.flags /\ (IF r.ui = NaN THEN isNaN(f, c.ui) ELSE c.ui = r.ui)
\* In format f, the root of every number that has these bits lowest.
RootsOf(f, double, low, numbers) ==
  \A k \in 0 .. 2^Width(f) \div numbers - 1, rm \in Modes :
    LET a == low + k * numbers IN IsRounded(f, softfloat_sqrt(f, double, a, rm), Sqrt(f, a, rm))
\* The quotients of this fraction by all: the exponents are those of one.
QuotientsOf(f, fraction) ==
  LET Plain(n) == packToUI(f, 0, Bias(f), n)
  IN \A b \in {Plain(n) : n \in 0 .. 2^f.s - 1}, rm \in Modes :
       IsRounded(f, softfloat_div(f, TRUE, Plain(fraction), b, rm),
                 Div(f, Plain(fraction), b, rm))
WideEstimates ==
  /\ op = "FSQRT_S" => RootsOf(WideS, FALSE, A_value, 2^Width(S))
  /\ op = "FSQRT_D" => RootsOf(WideD, TRUE, A_value, 2^X)
  /\ op = "FDIV_D" /\ A_value < 2^WideD.s => QuotientsOf(WideD, A_value)

\* softfloat rounds once, in every mode: sums, products, quotients, roots, fused
\* operations and conversions are the exact result rounded, and raise the flags that
\* belong to it; a NaN is told as one.  Quotients of double and roots are right
\* whether their estimate is corrected or left: with few bits most are corrected, so
\* they are taken in wider formats too.
SoftFloatRounds ==
  /\ done => WideEstimates
  /\ done /\ op \in RoundedOps \cup ToIntegerOps =>
      LET f == IF op \in DoubleOps \cup {"FSQRT_D"} THEN D ELSE S
      IN \A b \in Operands(op), z \in (IF op \in FusedOps THEN Addends ELSE {0}), rm \in Modes :
           \E c \in {execute_float(op, [Context(op, A_value, b) EXCEPT !.FRS3 = z, !.rm = rm])},
              r \in {IF op \in ToIntegerOps THEN IntegerFrom(op, f, A_value, rm)
                     ELSE Exactly(op, f, A_value, b, z, rm)} :
              /\ c.fflags = r.flags
              /\ IF op \in ToIntegerOps
                 THEN c.rd = <<IF op \in HalfIntegerOps THEN sext32(r.ui) ELSE Wrap(r.ui)>>
                 ELSE IF r.ui = NaN THEN isNaN(f, c.frd[1]) ELSE c.frd = <<r.ui>>

=============================================================================
