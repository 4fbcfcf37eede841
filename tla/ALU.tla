-------------------------------- MODULE ALU --------------------------------
(***************************************************************************)
(* pipeline_t::alu() and agen(): what an operation makes of A_value, of its*)
(* second operand (B_value or the immediate) and of the PC.                *)
(***************************************************************************)
EXTENDS Words, IEEE, FiniteSets, Bitwise

ImmOps == {"ADDI", "SLTI", "SLTIU", "XORI", "ORI", "ANDI", "ADDIW"}
ShiftImmOps == {"SLLI", "SRLI", "SRAI", "SLLIW", "SRLIW", "SRAIW"}
OpOps == {"ADD", "SUB", "SLL", "SLT", "SLTU", "XOR", "SRL", "SRA", "OR", "AND"}
MulDivOps == {"MUL", "MULH", "MULHSU", "MULHU", "DIV", "DIVU", "REM", "REMU"}
Op32Ops == {"ADDW", "SUBW", "SLLW", "SRLW", "SRAW", "MULW", "DIVW", "DIVUW", "REMW", "REMUW"}
BranchOps == {"BEQ", "BNE", "BLT", "BGE", "BLTU", "BGEU"}
OtherOps == {"JAL", "JALR", "LUI", "AUIPC", "LOAD", "STORE", "AMO"}
IntegerOps == ImmOps \cup ShiftImmOps \cup OpOps \cup MulDivOps \cup Op32Ops \cup BranchOps \cup OtherOps

-----------------------------------------------------------------------------
(* The cases of alu().                                                     *)

OP_OP_IMM(o, a, imm) ==
  CASE o = "ADDI"  -> Wrap(Signed(a) + Signed(imm))
    [] o = "SLTI"  -> Bool(Signed(a) < Signed(imm))
    [] o = "SLTIU" -> Bool(a < imm)
    [] o = "XORI"  -> a ^^ imm
    [] o = "ORI"   -> a | imm
    [] o = "ANDI"  -> a & imm
    [] o = "SLLI"  -> Wrap(a * 2^imm)
    [] o = "SRLI"  -> a \div 2^imm
    [] o = "SRAI"  -> Wrap(Signed(a) \div 2^imm)

OP_OP_IMM_32(o, a, imm) ==
  CASE o = "ADDIW" -> sext32(Signed(a) + Signed(imm))
    [] o = "SLLIW" -> sext32(a * 2^(imm % H))
    [] o = "SRLIW" -> sext32(w0(a) \div 2^(imm % H))
    [] o = "SRAIW" -> sext32(SignedLow(a) \div 2^(imm % H))

OP_OP(o, a, b) ==
  CASE o = "ADD"  -> Wrap(Signed(a) + Signed(b))
    [] o = "SUB"  -> Wrap(Signed(a) - Signed(b))
    [] o = "SLL"  -> Wrap(a * 2^(b % X))
    [] o = "SLT"  -> Bool(Signed(a) < Signed(b))
    [] o = "SLTU" -> Bool(a < b)
    [] o = "XOR"  -> a ^^ b
    [] o = "SRL"  -> a \div 2^(b % X)
    [] o = "SRA"  -> Wrap(Signed(a) \div 2^(b % X))
    [] o = "OR"   -> a | b
    [] o = "AND"  -> a & b

\* The case of MULHSU has no break: it goes on into that of MULHU.
Multiply(o, a, b) ==
  CASE o = "MUL"  -> Wrap(a * b)
    [] o = "MULH" -> mulh(Signed(a), Signed(b))
    [] o \in {"MULHSU", "MULHU"} -> mulhu(a, b)

Overflows(a, b) == a = -(2^(X-1)) /\ b = -1
RemainderByZero(a) == a
Divide(o, a, b) ==
  CASE o = "DIV"  -> IF b = 0 THEN 2^X - 1
                     ELSE IF Overflows(Signed(a), Signed(b)) THEN a
                     ELSE Wrap(Quotient(Signed(a), Signed(b)))
    [] o = "DIVU" -> IF b = 0 THEN 2^X - 1 ELSE a \div b
    [] o = "REM"  -> IF b = 0 THEN RemainderByZero(a)
                     ELSE IF Overflows(Signed(a), Signed(b)) THEN 0
                     ELSE Wrap(Remainder(Signed(a), Signed(b)))
    [] o = "REMU" -> IF b = 0 THEN a ELSE a % b

OP_OP_32(o, a, b) ==
  CASE o = "ADDW"  -> sext32(Signed(a) + Signed(b))
    [] o = "SUBW"  -> sext32(Signed(a) - Signed(b))
    [] o = "SLLW"  -> sext32(w0(a) * 2^(b % H))
    [] o = "SRLW"  -> sext32(w0(a) \div 2^(b % H))
    [] o = "SRAW"  -> sext32(SignedLow(a) \div 2^(b % H))
    [] o = "MULW"  -> sext32(a * b)

Divide32(o, a, b) ==
  CASE o = "DIVW"  -> IF SignedLow(b) = 0 THEN 2^X - 1 ELSE sext32(Quotient(SignedLow(a), SignedLow(b)))
    [] o = "DIVUW" -> IF w0(b) = 0 THEN 2^X - 1 ELSE sext32(w0(a) \div w0(b))
    [] o = "REMW"  -> IF SignedLow(b) = 0 THEN sext32(a) ELSE sext32(Remainder(SignedLow(a), SignedLow(b)))
    [] o = "REMUW" -> IF w0(b) = 0 THEN sext32(a) ELSE sext32(w0(a) % w0(b))

-----------------------------------------------------------------------------
(* Floating point: alu() computes with float and double of the host, to the*)
(* nearest whatever the instruction says.  NotTold stands for what the host*)
(* leaves open, the pattern of a NaN and an integer out of range, and for  *)
(* the value from before that FCLASS leaves.                               *)

NotTold == NaN
DoubleOps == {"FADD_D", "FSUB_D", "FMUL_D", "FDIV_D", "FSGNJ_D", "FSGNJN_D", "FSGNJX_D",
              "FEQ_D", "FLT_D", "FLE_D", "FCLASS_D", "FCVT_W_D", "FCVT_WU_D", "FCVT_L_D",
              "FCVT_LU_D", "FCVT_D_W", "FCVT_D_WU", "FCVT_D_L", "FCVT_D_LU", "FCVT_D_S",
              "FMV_X_D", "FMV_D_X"}
SingleOps == {"FADD_S", "FSUB_S", "FMUL_S", "FDIV_S", "FSGNJ_S", "FSGNJN_S", "FSGNJX_S",
              "FEQ_S", "FLT_S", "FLE_S", "FCLASS_S", "FCVT_W_S", "FCVT_WU_S", "FCVT_L_S",
              "FCVT_LU_S", "FCVT_S_W", "FCVT_S_WU", "FCVT_S_L", "FCVT_S_LU", "FCVT_S_D",
              "FMV_X_S", "FMV_S_X"}

Truncated(f, u, least, greatest) ==
  LET r == ToInteger(f, u, least, greatest, RTZ) IN IF r.flags = {"invalid"} THEN NotTold ELSE r.ui
Cast(i, cast(_)) == IF i = NotTold THEN NotTold ELSE cast(i)

\* Of an operation's two names, one for each format f: x and y are the operands
\* as numbers of it.
FloatResult(o, f, x, y) ==
  CASE o \in {"FADD_S", "FADD_D"} -> Add(f, x, y, RNE).ui
    [] o \in {"FSUB_S", "FSUB_D"} -> Sub(f, x, y, RNE).ui
    [] o \in {"FMUL_S", "FMUL_D"} -> Mul(f, x, y, RNE).ui
    [] o \in {"FDIV_S", "FDIV_D"} -> Div(f, x, y, RNE).ui
    [] o \in {"FEQ_S", "FEQ_D"} -> Bool(Equal(f, x, y))
    [] o \in {"FLT_S", "FLT_D"} -> Bool(Less(f, x, y))
    [] o \in {"FLE_S", "FLE_D"} -> Bool(Less(f, x, y) \/ Equal(f, x, y))
    [] o \in {"FSGNJ_S", "FSGNJ_D"} -> packToUI(f, sign(f, y), exp(f, x), frac(f, x))
    [] o \in {"FSGNJN_S", "FSGNJN_D"} -> packToUI(f, 1 - sign(f, y), exp(f, x), frac(f, x))
    [] o \in {"FSGNJX_S", "FSGNJX_D"} ->
         packToUI(f, (sign(f, x) + sign(f, y)) % 2, exp(f, x), frac(f, x))
    [] o \in {"FCLASS_S", "FCLASS_D"} -> NotTold
    [] o \in {"FCVT_W_S", "FCVT_W_D"} -> Cast(Truncated(f, x, -(2^(H-1)), 2^(H-1) - 1), sext32)
    [] o = "FCVT_WU_S" -> Truncated(f, x, 0, 2^X - 1)
    [] o = "FCVT_WU_D" -> Truncated(f, x, 0, 2^H - 1)
    [] o \in {"FCVT_L_S", "FCVT_L_D"} -> Cast(Truncated(f, x, -(2^(X-1)), 2^(X-1) - 1), Wrap)
    [] o \in {"FCVT_LU_S", "FCVT_LU_D"} -> Truncated(f, x, 0, 2^X - 1)
    [] o = "FMV_X_S" -> SignExtend(x, Width(S))
    [] o = "FMV_X_D" -> x

OP_OP_FP(o, a, b) ==
  LET f == IF o \in DoubleOps THEN D ELSE S
      single(w) == w % 2^Width(S)
  IN CASE o \in {"FMV_S_X", "FMV_D_X"} -> a
       [] o \in {"FCVT_S_W", "FCVT_D_W"} -> FromInteger(f, SignedLow(a), RNE).ui
       [] o \in {"FCVT_S_WU", "FCVT_D_WU"} -> FromInteger(f, Low(a), RNE).ui
       [] o \in {"FCVT_S_L", "FCVT_D_L"} -> FromInteger(f, Signed(a), RNE).ui
       [] o \in {"FCVT_S_LU", "FCVT_D_LU"} -> FromInteger(f, a, RNE).ui
       [] o = "FCVT_S_D" -> Converted(D, S, a, RNE).ui
       [] o = "FCVT_D_S" -> Converted(S, D, single(a), RNE).ui
       [] OTHER -> FloatResult(o, f, IF f = D THEN a ELSE single(a), IF f = D THEN b ELSE single(b))
-----------------------------------------------------------------------------
INCREMENT_PC(p) == Wrap(p + 4)
Taken(o, a, b) ==
  CASE o = "BEQ"  -> a = b
    [] o = "BNE"  -> a # b
    [] o = "BLT"  -> Signed(a) < Signed(b)
    [] o = "BGE"  -> Signed(a) >= Signed(b)
    [] o = "BLTU" -> a < b
    [] o = "BGEU" -> a >= b

ControlOps == BranchOps \cup {"JAL", "JALR"}
NextPC(o, a, b, pc, imm) ==
  CASE o \in BranchOps -> IF Taken(o, a, b) THEN Wrap(pc + imm) ELSE INCREMENT_PC(pc)
    [] o = "JAL"  -> Wrap(pc + b)
    [] o = "JALR" -> LET t == Wrap(a + b) IN t - (t % 2)

\* agen(): AMO operations have no displacement.
agen(o, a, imm) == IF o = "AMO" THEN a ELSE Wrap(a + imm)

Result(o, a, b, pc) ==
  CASE o \in {"ADDIW", "SLLIW", "SRLIW", "SRAIW"} -> OP_OP_IMM_32(o, a, b)
    [] o \in (ImmOps \cup ShiftImmOps) \ {"ADDIW", "SLLIW", "SRLIW", "SRAIW"} -> OP_OP_IMM(o, a, b)
    [] o \in OpOps -> OP_OP(o, a, b)
    [] o \in {"MUL", "MULH", "MULHSU", "MULHU"} -> Multiply(o, a, b)
    [] o \in {"DIV", "DIVU", "REM", "REMU"} -> Divide(o, a, b)
    [] o \in {"DIVW", "DIVUW", "REMW", "REMUW"} -> Divide32(o, a, b)
    [] o \in Op32Ops \ {"DIVW", "DIVUW", "REMW", "REMUW"} -> OP_OP_32(o, a, b)
    [] o \in {"JAL", "JALR"} -> INCREMENT_PC(pc)
    [] o \in SingleOps \cup DoubleOps -> OP_OP_FP(o, a, b)
    [] o = "LUI" -> b
    [] o = "AUIPC" -> Wrap(pc + b)
    [] o \in {"LOAD", "STORE", "AMO"} -> agen(o, a, b)
    [] o \in BranchOps -> 0       (* no destination                        *)

=============================================================================
