------------------------------- MODULE Decode -------------------------------
(***************************************************************************)
(* One instruction word on its way through the core: what decode(),        *)
(* dispatch(), alu(), the load/store path and retire() take it for, each by*)
(* its own switches on the fields of the word, beside the one search in a  *)
(* table of the functional simulator (decode_insn of Encoding).            *)
(*                                                                         *)
(* Register numbers are those of the payload: floating-point registers     *)
(* come behind the NXPR integer ones.  The fields of a payload slot keep   *)
(* what the instruction before left in them until they are assigned.       *)
(***************************************************************************)
EXTENDS Encoding, Sequences, TLC

CONSTANTS
  InstWords,        (* the words, records as in Encoding                   *)
  OldFlags          (* flags that a payload slot may be left with          *)

ASSUME DecodeAssumption == InstWords # {} /\ OldFlags # {}

NXPR == 32
FetchedFP == {OP.OP_FP, OP.MADD, OP.MSUB, OP.NMADD, OP.NMSUB}
NoOperands == [A |-> <<>>, B |-> <<>>, C |-> <<>>, D |-> <<>>]

VARIABLES
  inst, flags, iq, operands,   (* of the payload slot                      *)
  SR_EF,                       (* floating point is enabled                *)
  op,       (* what is done: the name of an instruction, "COPIED" from the *)
            (* functional simulator, "NOTHING", or "STALE" where no case of*)
            (* a switch assigns a result                                   *)
  trap, stage

vars == <<inst, flags, iq, operands, SR_EF, op, trap, stage>>
-----------------------------------------------------------------------------
(* Decode.                                                                 *)

Flags(w, old) ==
  CASE w.opcode \in {OP.JAL, OP.JALR} -> {"CTRL", "UNCOND"}
    [] w.opcode = OP.BRANCH -> {"CTRL", "COND"}
    [] w.opcode = OP.LOAD -> {"MEM", "LOAD"}
    [] w.opcode = OP.STORE -> {"MEM", "STORE"}
    [] w.opcode \in {OP.OP, OP.OP_32, OP.OP_IMM, OP.OP_IMM_32, OP.LUI, OP.AUIPC} -> {"ICOMP"}
    [] w.opcode = OP.LOAD_FP -> {"MEM", "FMEM", "LOAD"}
    [] w.opcode = OP.STORE_FP -> {"MEM", "FMEM", "STORE"}
    [] w.opcode \in FetchedFP -> {"FCOMP"}
    [] w.opcode = OP.SYSTEM -> {"TRAP", "CSR"}
    [] w.opcode = OP.MISC_MEM -> {"TRAP"}
    [] w.opcode = OP.AMO /\ funct5(w) = FN5.AMO_LR -> {"MEM", "LOAD", "AMO"}
    [] w.opcode = OP.AMO /\ funct5(w) = FN5.AMO_SC -> {"MEM", "STORE", "AMO"}
    [] w.opcode = OP.AMO /\ funct5(w) \notin {FN5.AMO_LR, FN5.AMO_SC} -> {"AMO"}
    [] OTHER -> old

\* Of an operand, the integer or the floating-point register n.
X(n) == <<n>>
F(n) == <<n + NXPR>>
None == <<>>
Regs(a, b, c) == [NoOperands EXCEPT !.A = a, !.B = b, !.C = c]

OperandsFP(w) ==
  LET f5 == funct5(w)
  IN CASE f5 \in {FN5.FADD, FN5.FSUB, FN5.FMUL, FN5.FDIV, FN5.FSGNJ, FN5.FMIN_MAX}
            -> Regs(F(w.rs1), F(w.rs2), F(w.rd))
       [] f5 = FN5.FCOMP -> Regs(F(w.rs1), F(w.rs2), X(w.rd))
       [] f5 \in {FN5.FSQRT, FN5.FCVT_DS} -> Regs(F(w.rs1), None, F(w.rd))
       [] f5 \in {FN5.FCVT_I2FP, FN5.FMV_I2FP} -> Regs(X(w.rs1), None, F(w.rd))
       [] f5 \in {FN5.FCVT_FP2I, FN5.FMV_FP2I} -> Regs(F(w.rs1), None, X(w.rd))
       [] OTHER -> NoOperands

OperandsSystem(w) ==
  CASE w.funct3 \in {FN3.CLR, FN3.RW, FN3.SET} -> Regs(X(w.rs1), None, X(w.rd))
    [] w.funct3 \in {FN3.CLR_IMM, FN3.RW_IMM, FN3.SET_IMM} -> Regs(None, None, X(w.rd))
    [] OTHER -> NoOperands

OperandsBeforeX0(w) ==
  CASE w.opcode \in {OP.JAL, OP.LUI, OP.AUIPC} -> Regs(None, None, X(w.rd))
    [] w.opcode \in {OP.JALR, OP.LOAD} -> Regs(X(w.rs1), None, X(w.rd))
    [] w.opcode \in {OP.BRANCH, OP.STORE} -> Regs(X(w.rs1), X(w.rs2), None)
    [] w.opcode = OP.LOAD_FP -> Regs(X(w.rs1), None, F(w.rd))
    [] w.opcode = OP.STORE_FP -> Regs(X(w.rs1), F(w.rs2), None)
    [] w.opcode \in {OP.OP, OP.OP_32} -> Regs(X(w.rs1), X(w.rs2), X(w.rd))
    [] w.opcode \in {OP.OP_IMM, OP.OP_IMM_32} ->
         IF w = INSN_NOP THEN Regs(X(w.rs1), None, None) ELSE Regs(X(w.rs1), None, X(w.rd))
    [] w.opcode = OP.OP_FP -> OperandsFP(w)
    [] w.opcode = OP.SYSTEM -> OperandsSystem(w)
    [] w.opcode = OP.AMO ->
         Regs(X(w.rs1), IF funct5(w) = FN5.AMO_LR THEN None ELSE X(w.rs2), X(w.rd))
    [] w.opcode \in FetchedFP \ {OP.OP_FP} ->
         [A |-> F(w.rs1), B |-> F(w.rs2), C |-> F(w.rd), D |-> F(rs3(w))]
    [] OTHER -> NoOperands

\* X0 is no destination, F0 is one.
DropX0(r, w) == IF r.C = <<0>> THEN [r EXCEPT !.C = None] ELSE r
Operands(w) == DropX0(OperandsBeforeX0(w), w)

KnownOpcodes == {OP[o] : o \in DOMAIN OP}
SelectIQ(w) ==
  CASE w.opcode \notin KnownOpcodes \/ w.opcode = OP.MISC_MEM \/ w = INSN_NOP -> "SEL_IQ_NONE"
    [] w.opcode = OP.SYSTEM /\ w.funct3 = FN3.SC_SB /\ funct12(w) # FN12.SRET
         -> "SEL_IQ_NONE_EXCEPTION"
    [] OTHER -> "SEL_IQ"

\* The switch on funct3 of a system instruction knows all values but this one.
DecodeAsserts(w) == w.opcode = OP.SYSTEM /\ w.funct3 = 4
-----------------------------------------------------------------------------
(* Execution.                                                              *)

Asserts == "ASSERT"
Chosen(table, f3) == IF f3 \in DOMAIN table THEN table[f3] ELSE "STALE"

\* A right shift by immediate leaves the lowest bit of funct7 to the amount.
ShiftFunctWhole(w) == w.funct7      \* mutant: as if amounts had five bits
ShiftFunct(w) == 2 * (w.funct7 \div 2)
ShiftRight(f7, logical, arithmetic) ==
  CASE f7 = FN7.SRL -> logical [] f7 = FN7.SRA -> arithmetic [] OTHER -> Asserts

AluOpImm(w) ==
  IF w.funct3 = FN3.SR THEN ShiftRight(ShiftFunct(w), "SRLI", "SRAI")
  ELSE <<"ADDI", "SLLI", "SLTI", "SLTIU", "XORI", "", "ORI", "ANDI">>[w.funct3 + 1]
AluOpImm32(w) ==
  CASE w.funct3 = FN3.ADD_SUB -> "ADDIW" [] w.funct3 = FN3.SLL -> "SLLIW"
    [] w.funct3 = FN3.SR -> ShiftRight(w.funct7, "SRLIW", "SRAIW") [] OTHER -> "STALE"

AddSubUntested(f7, add, sub) == add     \* mutant: funct7 is not looked at
AddSub(f7, add, sub) == CASE f7 = FN7.ADD -> add [] f7 = FN7.SUB -> sub [] OTHER -> Asserts
AluOp(w) ==
  CASE w.funct7 = FN7.MULDIV ->
         <<"MUL", "MULH", "MULHSU", "MULHU", "DIV", "DIVU", "REM", "REMU">>[w.funct3 + 1]
    [] w.funct7 # FN7.MULDIV /\ w.funct3 = FN3.ADD_SUB -> AddSub(w.funct7, "ADD", "SUB")
    [] w.funct7 # FN7.MULDIV /\ w.funct3 = FN3.SR -> ShiftRight(w.funct7, "SRL", "SRA")
    [] OTHER -> <<"", "SLL", "SLT", "SLTU", "XOR", "", "OR", "AND">>[w.funct3 + 1]
AluOp32(w) ==
  CASE w.funct7 = FN7.MULDIV ->
         <<"MULW", "STALE", "STALE", "STALE", "DIVW", "DIVUW", "REMW", "REMUW">>[w.funct3 + 1]
    [] w.funct7 # FN7.MULDIV /\ w.funct3 = FN3.ADD_SUB -> AddSub(w.funct7, "ADDW", "SUBW")
    [] w.funct7 # FN7.MULDIV /\ w.funct3 = FN3.SLL -> "SLLW"
    [] w.funct7 # FN7.MULDIV /\ w.funct3 = FN3.SR -> ShiftRight(w.funct7, "SRLW", "SRAW")
    [] OTHER -> "STALE"

\* Branches that no case knows leave c_next_pc as fetch predicted it.
AluBranch(w) == <<"BEQ", "BNE", "STALE", "STALE", "BLT", "BGE", "BLTU", "BGEU">>[w.funct3 + 1]

AluFP(w) ==
  LET f5 == funct5(w)
      f == IF fmt(w) = FMT.S THEN "S" ELSE "D"
      other == IF fmt(w) = FMT.S THEN "D" ELSE "S"
      integer == IF w.rs2 < 4 THEN <<"W", "WU", "L", "LU">>[w.rs2 + 1] ELSE "STALE"
  IN CASE fmt(w) \notin {FMT.S, FMT.D} -> Asserts
       [] f5 = FN5.FADD -> "FADD_" \o f
       [] f5 = FN5.FSUB -> "FSUB_" \o f
       [] f5 = FN5.FMUL -> "FMUL_" \o f
       [] f5 = FN5.FDIV -> "FDIV_" \o f
       [] f5 = FN5.FMV_I2FP -> "FMV_" \o f \o "_X"
       [] f5 = FN5.FMV_FP2I ->
            (CASE w.funct3 = FN3.FMV -> "FMV_X_" \o f [] w.funct3 = FN3.FCLASS -> "STALE"
               [] OTHER -> Asserts)
       [] f5 = FN5.FCVT_I2FP -> IF w.rs2 < 4 THEN "FCVT_" \o f \o "_" \o integer ELSE "STALE"
       [] f5 = FN5.FCVT_FP2I -> IF w.rs2 < 4 THEN "FCVT_" \o integer \o "_" \o f ELSE "STALE"
       [] f5 = FN5.FCVT_DS -> "FCVT_" \o f \o "_" \o other
       [] f5 = FN5.FCOMP ->
            IF w.funct3 < 3 THEN <<"FLE_", "FLT_", "FEQ_">>[w.funct3 + 1] \o f ELSE "STALE"
       [] f5 = FN5.FSQRT -> "FSQRT_" \o f
       [] f5 = FN5.FSGNJ ->
            IF w.funct3 < 3 THEN <<"FSGNJ_", "FSGNJN_", "FSGNJX_">>[w.funct3 + 1] \o f
            ELSE "STALE"
       [] OTHER -> Asserts

\* With the checker compiled in, as by default, the results of fused operations
\* are copied from the functional simulator.
alu(w) ==
  CASE w.opcode \in {OP.LOAD, OP.STORE, OP.LOAD_FP, OP.STORE_FP} -> Asserts
    [] w.opcode = OP.JAL -> "JAL"
    [] w.opcode = OP.JALR -> "JALR"
    [] w.opcode = OP.BRANCH -> AluBranch(w)
    [] w.opcode = OP.OP_IMM -> AluOpImm(w)
    [] w.opcode = OP.OP_IMM_32 -> AluOpImm32(w)
    [] w.opcode = OP.OP -> AluOp(w)
    [] w.opcode = OP.OP_32 -> AluOp32(w)
    [] w.opcode = OP.LUI -> "LUI"
    [] w.opcode = OP.AUIPC -> "AUIPC"
    [] w.opcode = OP.OP_FP -> AluFP(w)
    [] w.opcode \in {OP.MADD, OP.MSUB, OP.NMADD, OP.NMSUB} -> "COPIED"
    [] OTHER -> "STALE"

\* ldst_size() and ldst_sign() of the word.
Sized(w) == <<"B", "H", "W", "D", "BU", "HU", "WU", "DU">>[w.funct3 + 1]
UnsizedStore(w) == <<"B", "H", "W", "D">>[(w.funct3 % 4) + 1]
\* What the load/store unit does, and AMO's operations at retirement.
MemoryOp(w) ==
  CASE w.opcode = OP.LOAD -> "L" \o Sized(w)
    [] w.opcode = OP.STORE -> "S" \o UnsizedStore(w)
    [] w.opcode = OP.LOAD_FP -> "FL" \o Sized(w)
    [] w.opcode = OP.STORE_FP -> "FS" \o UnsizedStore(w)
    [] w.opcode = OP.AMO /\ funct5(w) = FN5.AMO_LR -> "LR_" \o Sized(w)
    [] w.opcode = OP.AMO /\ funct5(w) = FN5.AMO_SC ->
         IF operands.C = None THEN Asserts ELSE "SC_" \o UnsizedStore(w)
execute_amo(w) ==
  LET table == FN5.AMO_SWAP :> "AMOSWAP_" @@ FN5.AMO_ADD :> "AMOADD_" @@ FN5.AMO_XOR :> "AMOXOR_"
        @@ FN5.AMO_AND :> "AMOAND_" @@ FN5.AMO_OR :> "AMOOR_" @@ FN5.AMO_MIN :> "AMOMIN_"
        @@ FN5.AMO_MAX :> "AMOMAX_" @@ FN5.AMO_MINU :> "AMOMINU_" @@ FN5.AMO_MAXU :> "AMOMAXU_"
  IN IF w.funct3 \in {FN3.AMO_W, FN3.AMO_D} /\ funct5(w) \in DOMAIN table /\ operands.C # None
     THEN table[funct5(w)] \o (IF w.funct3 = FN3.AMO_W THEN "W" ELSE "D") ELSE Asserts
execute_csr(w) ==
  CASE w.funct3 = FN3.SC_SB -> IF funct12(w) = FN12.SRET THEN "SRET" ELSE Asserts
    [] w.funct3 = 4 -> Asserts
    [] OTHER -> <<"CSRRW", "CSRRS", "CSRRC", "", "CSRRWI", "CSRRSI", "CSRRCI">>[w.funct3]
-----------------------------------------------------------------------------
Init ==
  /\ inst \in InstWords /\ SR_EF \in BOOLEAN /\ flags \in OldFlags
  /\ iq = "SEL_IQ" /\ operands = NoOperands
  /\ op = "NOTHING" /\ trap = "none" /\ stage = "fetched"

\* An operation that asserts stops the simulator.
Done(o, next) ==
  /\ op' = o
  /\ stage' = IF o = Asserts THEN "stopped" ELSE next

decode ==
  /\ stage = "fetched"
  /\ flags' = Flags(inst, flags) /\ operands' = Operands(inst) /\ iq' = SelectIQ(inst)
  /\ stage' = IF DecodeAsserts(inst) THEN "stopped" ELSE "decoded"
  /\ UNCHANGED <<inst, SR_EF, op, trap>>

Immediate(w) ==
  CASE funct12(w) = FN12.SCALL -> "syscall" [] funct12(w) = FN12.SBREAK -> "breakpoint"
    [] OTHER -> Asserts
dispatch ==
  LET posted == IF iq = "SEL_IQ_NONE_EXCEPTION" THEN Immediate(inst) ELSE "none"
  IN /\ stage = "decoded"
     /\ trap' = IF flags \cap {"FCOMP", "FMEM"} # {} /\ ~SR_EF THEN "fp_disabled" ELSE posted
     /\ stage' = IF posted = Asserts THEN "stopped"
                 ELSE IF iq = "SEL_IQ" THEN "issued" ELSE "completed"
     /\ UNCHANGED <<inst, flags, iq, operands, SR_EF, op>>

execute ==
  /\ stage = "issued"
  /\ Done(IF "MEM" \in flags THEN MemoryOp(inst) ELSE alu(inst), "completed")
  /\ UNCHANGED <<inst, flags, iq, operands, SR_EF, trap>>

retire ==
  /\ stage = "completed"
  /\ CASE trap # "none" -> Done(op, "trapped")
       [] trap = "none" /\ flags \cap {"LOAD", "STORE"} # {} -> Done(op, "retired")
       [] trap = "none" /\ flags \cap {"LOAD", "STORE"} = {} ->
            Done(CASE "AMO" \in flags -> execute_amo(inst) [] "CSR" \in flags -> execute_csr(inst)
                   [] OTHER -> op, "retired")
  /\ UNCHANGED <<inst, flags, iq, operands, SR_EF, trap>>

Next == decode \/ dispatch \/ execute \/ retire
Spec == Init /\ [][Next]_vars
-----------------------------------------------------------------------------
(* The functional simulator: the registers that an instruction reads and   *)
(* writes through the macros of decode.h, and when it is illegal.          *)

Fmts(names) == {n \o "_S" : n \in names} \cup {n \o "_D" : n \in names}
Converts(to, from) == {"FCVT_" \o t \o "_" \o f : t \in to, f \in from}
IntegerForms == {"W", "WU", "L", "LU"}
Fused == Fmts({"FMADD", "FMSUB", "FNMADD", "FNMSUB"})
RoundedFP ==
  Fused \cup Fmts({"FADD", "FSUB", "FMUL", "FDIV", "FSQRT"}) \cup {"FCVT_D_S", "FCVT_S_D"}
    \cup Converts({"S", "D"}, IntegerForms) \cup Converts(IntegerForms, {"S", "D"})
TwoFP == Fmts({"FADD", "FSUB", "FMUL", "FDIV", "FMIN", "FMAX", "FSGNJ", "FSGNJN", "FSGNJX"})
CompareFP == Fmts({"FEQ", "FLT", "FLE"})
FromFP == Converts(IntegerForms, {"S", "D"}) \cup {"FCLASS_S", "FCLASS_D", "FMV_X_S", "FMV_X_D"}
ToFP == Converts({"S", "D"}, IntegerForms) \cup {"FMV_S_X", "FMV_D_X", "FLW", "FLD"}

UsesNoRegister == {"FENCE", "FENCE_I", "SRET", "SCALL", "SBREAK"}
Accesses(n, w) ==
  CASE n \in Fused -> [A |-> F(w.rs1), B |-> F(w.rs2), C |-> F(w.rd), D |-> F(rs3(w))]
    [] n \in TwoFP -> Regs(F(w.rs1), F(w.rs2), F(w.rd))
    [] n \in CompareFP -> Regs(F(w.rs1), F(w.rs2), X(w.rd))
    [] n \in Fmts({"FSQRT"}) \cup {"FCVT_D_S", "FCVT_S_D"} -> Regs(F(w.rs1), None, F(w.rd))
    [] n \in FromFP -> Regs(F(w.rs1), None, X(w.rd))
    [] n \in ToFP -> Regs(X(w.rs1), None, F(w.rd))
    [] n \in {"FSW", "FSD"} -> Regs(X(w.rs1), F(w.rs2), None)
    [] n \in UsesNoRegister -> NoOperands
    [] n \in {"LUI", "AUIPC", "JAL", "CSRRWI", "CSRRSI", "CSRRCI"} -> Regs(None, None, X(w.rd))
    [] desc[n].match.opcode \in {OP.BRANCH, OP.STORE} -> Regs(X(w.rs1), X(w.rs2), None)
    [] desc[n].match.opcode \in {OP.OP, OP.OP_32, OP.AMO} /\ n \notin {"LR_W", "LR_D"}
         -> Regs(X(w.rs1), X(w.rs2), X(w.rd))
    [] OTHER -> Regs(X(w.rs1), None, X(w.rd))

\* Modes 5 and 6 are illegal, 7 is that of frm.
BadRounding(w) == rm(w) \in {5, 6}
FunctionalOp(n, w) ==
  IF n \in RoundedFP /\ SR_EF /\ BadRounding(w) THEN "illegal_instruction" ELSE n

FPOpcodes == FetchedFP \cup {OP.LOAD_FP, OP.STORE_FP}
FunctionalTrap(n, w) ==
  CASE n = "SCALL" -> "syscall" [] n = "SBREAK" -> "breakpoint"
    [] w.opcode \in FPOpcodes /\ ~SR_EF -> "fp_disabled" [] OTHER -> "none"

\* What the core does not have: instructions that alu() or decode() does not
\* know, and atomic operations that write X0, which meet an assert for C_valid.
Unsupported(n, w) ==
  \/ n \in Fmts({"FMIN", "FMAX", "FSQRT", "FCLASS"})
  \/ n \notin {"LR_W", "LR_D"} /\ w.opcode = OP.AMO /\ w.rd = 0
Comparable(n) == FunctionalOp(n, inst) # "illegal_instruction" /\ ~Unsupported(n, inst)

\* The operation, or the trap.  Fences do nothing in the core.
OperationAgrees(n) ==
  stage \in {"retired", "trapped"} =>
    /\ trap = FunctionalTrap(n, inst)
    /\ trap = "none" =>
         op = CASE n \in {"FENCE", "FENCE_I"} \/ inst = INSN_NOP -> "NOTHING"
                [] n \in Fused -> "COPIED"
                [] OTHER -> n

\* The registers, in the order in which the checker compares them.
OperandsAgree(n) == stage # "fetched" => operands = DropX0(Accesses(n, inst), inst)

\* The five switches of the core come to the instruction that the functional
\* simulator finds in its table, or to the same trap, and the core renames the
\* registers that the functional simulator reads and writes.
DecodersAgree ==
  \A n \in {decode_insn(inst)} : Comparable(n) => OperationAgrees(n) /\ OperandsAgree(n)

\* No legal instruction stops the simulator.
LegalNeverStops == \A n \in {decode_insn(inst)} : Comparable(n) => stage # "stopped"

=============================================================================
