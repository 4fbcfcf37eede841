------------------------------ MODULE Encoding ------------------------------
(***************************************************************************)
(* Instruction words by their fields, the codes that the core's decoder    *)
(* switches on, and the table of matches and masks that the functional     *)
(* simulator searches (riscv-base/encoding.h).                             *)
(***************************************************************************)
EXTENDS Naturals, TLC

OP == [LUI |-> 55, AUIPC |-> 23, JAL |-> 111, JALR |-> 103, BRANCH |-> 99, LOAD |-> 3,
       STORE |-> 35, OP_IMM |-> 19, OP_IMM_32 |-> 27, OP |-> 51, OP_32 |-> 59, SYSTEM |-> 115,
       MADD |-> 67, MSUB |-> 71, NMSUB |-> 75, NMADD |-> 79, OP_FP |-> 83, LOAD_FP |-> 7,
       STORE_FP |-> 39, MISC_MEM |-> 15, AMO |-> 47]
FN3 == [ADD_SUB |-> 0, SLL |-> 1, SLT |-> 2, SLTU |-> 3, XOR |-> 4, SR |-> 5, OR |-> 6, AND |-> 7,
        MUL |-> 0, MULH |-> 1, MULHSU |-> 2, MULHU |-> 3, DIV |-> 4, DIVU |-> 5, REM |-> 6, REMU |-> 7,
        BEQ |-> 0, BNE |-> 1, BLT |-> 4, BGE |-> 5, BLTU |-> 6, BGEU |-> 7,
        AMO_W |-> 2, AMO_D |-> 3, FSGNJ |-> 0, FSGNJN |-> 1, FSGNJX |-> 2, FEQ |-> 2, FLT |-> 1,
        FLE |-> 0, FMV |-> 0, FCLASS |-> 1, SC_SB |-> 0, RW |-> 1, SET |-> 2, CLR |-> 3,
        RW_IMM |-> 5, SET_IMM |-> 6, CLR_IMM |-> 7]
FN7 == [MULDIV |-> 1, SRL |-> 0, SRA |-> 32, ADD |-> 0, SUB |-> 32]
FN5 == [AMO_LR |-> 2, AMO_SC |-> 3, AMO_SWAP |-> 1, AMO_ADD |-> 0, AMO_XOR |-> 4, AMO_AND |-> 12,
        AMO_OR |-> 8, AMO_MIN |-> 16, AMO_MAX |-> 20, AMO_MINU |-> 24, AMO_MAXU |-> 28,
        FADD |-> 0, FSUB |-> 1, FMUL |-> 2, FDIV |-> 3, FSQRT |-> 7, FSGNJ |-> 4, FCOMP |-> 20,
        FMIN_MAX |-> 5, FCVT_DS |-> 8, FCVT_FP2I |-> 24, FCVT_I2FP |-> 26, FMV_FP2I |-> 28,
        FMV_I2FP |-> 30]
FMT == [S |-> 0, D |-> 1]
FN12 == [SCALL |-> 0, SBREAK |-> 1, SRET |-> 2048]

\* A word with zeros in the fields that are not given.
Word(opcode, f3, f7, rs2) ==
  [opcode |-> opcode, funct3 |-> f3, funct7 |-> f7, rs2 |-> rs2, rs1 |-> 0, rd |-> 0]
INSN_NOP == Word(OP.OP_IMM, 0, 0, 0)

funct5(w) == w.funct7 \div 4
funct12(w) == w.funct7 * 32 + w.rs2
fmt(w) == w.funct7 % 4
rm(w) == w.funct3
rs3(w) == funct5(w)

\* The bits of a word that a part of a mask selects.
Part(f, w) ==
  CASE f = "funct6" -> w.funct7 \div 2 [] f = "funct5" -> funct5(w) [] f = "fmt" -> fmt(w)
    [] OTHER -> w[f]

Descriptor(match, mask) == [match |-> match, mask |-> mask \cup {"opcode"}]
Opcode(o) == Descriptor(Word(o, 0, 0, 0), {})
Funct3(o, f3) == Descriptor(Word(o, f3, 0, 0), {"funct3"})
Funct37(o, f3, f7) == Descriptor(Word(o, f3, f7, 0), {"funct3", "funct7"})
Shift64(o, f3, f7) == Descriptor(Word(o, f3, f7, 0), {"funct3", "funct6"})
Funct35(o, f3, f5) == Descriptor(Word(o, f3, 4 * f5, 0), {"funct3", "funct5"})
Funct35R(o, f3, f5, rs2) == Descriptor(Word(o, f3, 4 * f5, rs2), {"funct3", "funct5", "rs2"})
Rounded(o, f7) == Descriptor(Word(o, 0, f7, 0), {"funct7"})
RoundedR(o, f7, rs2) == Descriptor(Word(o, 0, f7, rs2), {"funct7", "rs2"})
Funct37R(o, f3, f7, rs2) == Descriptor(Word(o, f3, f7, rs2), {"funct3", "funct7", "rs2"})
Format(o, f) == Descriptor(Word(o, 0, f, 0), {"fmt"})
Whole(o, f7, rs2) ==
  Descriptor(Word(o, 0, f7, rs2), {"funct3", "funct7", "rs2", "rs1", "rd"})
-----------------------------------------------------------------------------
(* The table, in three parts and in the order of the file.                 *)

Descriptors1 == [
  FMV_S_X |-> Funct37R(OP.OP_FP, 0, 120, 0), AMOXOR_W |-> Funct35(OP.AMO, 2, 4),
  REMUW |-> Funct37(OP.OP_32, 7, 1), FMIN_D |-> Funct37(OP.OP_FP, 0, 21),
  AMOMAX_D |-> Funct35(OP.AMO, 3, 20), BLTU |-> Funct3(OP.BRANCH, 6),
  FSGNJN_D |-> Funct37(OP.OP_FP, 1, 17), FMIN_S |-> Funct37(OP.OP_FP, 0, 20),
  CSRRW |-> Funct3(OP.SYSTEM, 1), SLLIW |-> Funct37(OP.OP_IMM_32, 1, 0), LB |-> Funct3(OP.LOAD, 0),
  FMAX_S |-> Funct37(OP.OP_FP, 1, 20), LH |-> Funct3(OP.LOAD, 1),
  FCVT_D_W |-> RoundedR(OP.OP_FP, 105, 0), LW |-> Funct3(OP.LOAD, 2), ADD |-> Funct37(OP.OP, 0, 0),
  CSRRC |-> Funct3(OP.SYSTEM, 3), FMAX_D |-> Funct37(OP.OP_FP, 1, 21),
  BNE |-> Funct3(OP.BRANCH, 1), FCVT_S_D |-> RoundedR(OP.OP_FP, 32, 1),
  BGEU |-> Funct3(OP.BRANCH, 7), FADD_D |-> Rounded(OP.OP_FP, 1), SLTIU |-> Funct3(OP.OP_IMM, 3),
  FADD_S |-> Rounded(OP.OP_FP, 0), FCLASS_D |-> Funct37R(OP.OP_FP, 1, 113, 0),
  FCVT_S_W |-> RoundedR(OP.OP_FP, 104, 0), MUL |-> Funct37(OP.OP, 0, 1),
  AMOMINU_D |-> Funct35(OP.AMO, 3, 24), FCVT_S_LU |-> RoundedR(OP.OP_FP, 104, 3),
  SRLI |-> Shift64(OP.OP_IMM, 5, 0), AMOMINU_W |-> Funct35(OP.AMO, 2, 24),
  DIVUW |-> Funct37(OP.OP_32, 5, 1), MULW |-> Funct37(OP.OP_32, 0, 1),
  SRLW |-> Funct37(OP.OP_32, 5, 0), DIV |-> Funct37(OP.OP, 4, 1), FDIV_D |-> Rounded(OP.OP_FP, 13),
  FENCE |-> Funct3(OP.MISC_MEM, 0), FNMSUB_S |-> Format(OP.NMSUB, 0),
  FCVT_L_S |-> RoundedR(OP.OP_FP, 96, 2), SBREAK |-> Whole(OP.SYSTEM, 0, 1),
  FLE_S |-> Funct37(OP.OP_FP, 0, 80), FDIV_S |-> Rounded(OP.OP_FP, 12),
  FLE_D |-> Funct37(OP.OP_FP, 0, 81), FENCE_I |-> Funct3(OP.MISC_MEM, 1),
  FNMSUB_D |-> Format(OP.NMSUB, 1), ADDW |-> Funct37(OP.OP_32, 0, 0), SLL |-> Funct37(OP.OP, 1, 0),
  XOR |-> Funct37(OP.OP, 4, 0), SUB |-> Funct37(OP.OP, 0, 32), BLT |-> Funct3(OP.BRANCH, 4),
  SCALL |-> Whole(OP.SYSTEM, 0, 0), FCLASS_S |-> Funct37R(OP.OP_FP, 1, 112, 0),
  SC_W |-> Funct35(OP.AMO, 2, 3), REM |-> Funct37(OP.OP, 6, 1)]
Descriptors2 == [
  SRLIW |-> Funct37(OP.OP_IMM_32, 5, 0), LUI |-> Opcode(OP.LUI), CSRRCI |-> Funct3(OP.SYSTEM, 7),
  ADDI |-> Funct3(OP.OP_IMM, 0), MULH |-> Funct37(OP.OP, 1, 1), FMUL_S |-> Rounded(OP.OP_FP, 8),
  CSRRSI |-> Funct3(OP.SYSTEM, 6), SRAI |-> Shift64(OP.OP_IMM, 5, 32),
  AMOAND_D |-> Funct35(OP.AMO, 3, 12), FLT_D |-> Funct37(OP.OP_FP, 1, 81),
  SRAW |-> Funct37(OP.OP_32, 5, 32), FMUL_D |-> Rounded(OP.OP_FP, 9), LD |-> Funct3(OP.LOAD, 3),
  ORI |-> Funct3(OP.OP_IMM, 6), CSRRS |-> Funct3(OP.SYSTEM, 2), FLT_S |-> Funct37(OP.OP_FP, 1, 80),
  ADDIW |-> Funct3(OP.OP_IMM_32, 0), AMOAND_W |-> Funct35(OP.AMO, 2, 12),
  FEQ_S |-> Funct37(OP.OP_FP, 2, 80), FSGNJX_D |-> Funct37(OP.OP_FP, 2, 17),
  SRA |-> Funct37(OP.OP, 5, 32), BGE |-> Funct3(OP.BRANCH, 5),
  SRAIW |-> Funct37(OP.OP_IMM_32, 5, 32), SRL |-> Funct37(OP.OP, 5, 0),
  FSUB_D |-> Rounded(OP.OP_FP, 5), FSGNJX_S |-> Funct37(OP.OP_FP, 2, 16),
  FEQ_D |-> Funct37(OP.OP_FP, 2, 81), FCVT_D_WU |-> RoundedR(OP.OP_FP, 105, 1),
  OR |-> Funct37(OP.OP, 6, 0), FCVT_WU_D |-> RoundedR(OP.OP_FP, 97, 1),
  SUBW |-> Funct37(OP.OP_32, 0, 32), FCVT_D_L |-> RoundedR(OP.OP_FP, 105, 2),
  AMOMAXU_D |-> Funct35(OP.AMO, 3, 28), XORI |-> Funct3(OP.OP_IMM, 4),
  AMOXOR_D |-> Funct35(OP.AMO, 3, 4), AMOMAXU_W |-> Funct35(OP.AMO, 2, 28),
  FCVT_WU_S |-> RoundedR(OP.OP_FP, 96, 1), ANDI |-> Funct3(OP.OP_IMM, 7),
  FMV_X_S |-> Funct37R(OP.OP_FP, 0, 112, 0), SRET |-> Whole(OP.SYSTEM, 64, 0),
  FNMADD_S |-> Format(OP.NMADD, 0), JAL |-> Opcode(OP.JAL), LWU |-> Funct3(OP.LOAD, 6),
  FMV_X_D |-> Funct37R(OP.OP_FP, 0, 113, 0), FCVT_D_S |-> RoundedR(OP.OP_FP, 33, 0),
  FNMADD_D |-> Format(OP.NMADD, 1), AMOADD_D |-> Funct35(OP.AMO, 3, 0),
  LR_D |-> Funct35R(OP.AMO, 3, 2, 0), FCVT_W_S |-> RoundedR(OP.OP_FP, 96, 0),
  MULHSU |-> Funct37(OP.OP, 2, 1)]
Descriptors3 == [
  AMOADD_W |-> Funct35(OP.AMO, 2, 0), FCVT_D_LU |-> RoundedR(OP.OP_FP, 105, 3),
  LR_W |-> Funct35R(OP.AMO, 2, 2, 0), FCVT_W_D |-> RoundedR(OP.OP_FP, 97, 0),
  SLT |-> Funct37(OP.OP, 2, 0), SLLW |-> Funct37(OP.OP_32, 1, 0),
  AMOOR_D |-> Funct35(OP.AMO, 3, 8), SLTI |-> Funct3(OP.OP_IMM, 2), REMU |-> Funct37(OP.OP, 7, 1),
  FLW |-> Funct3(OP.LOAD_FP, 2), REMW |-> Funct37(OP.OP_32, 6, 1), SLTU |-> Funct37(OP.OP, 3, 0),
  SLLI |-> Shift64(OP.OP_IMM, 1, 0), AMOOR_W |-> Funct35(OP.AMO, 2, 8),
  BEQ |-> Funct3(OP.BRANCH, 0), FLD |-> Funct3(OP.LOAD_FP, 3), FSUB_S |-> Rounded(OP.OP_FP, 4),
  AND |-> Funct37(OP.OP, 7, 0), FMV_D_X |-> Funct37R(OP.OP_FP, 0, 121, 0),
  LBU |-> Funct3(OP.LOAD, 4), FSGNJ_S |-> Funct37(OP.OP_FP, 0, 16),
  AMOMAX_W |-> Funct35(OP.AMO, 2, 20), FSGNJ_D |-> Funct37(OP.OP_FP, 0, 17),
  MULHU |-> Funct37(OP.OP, 3, 1), FCVT_L_D |-> RoundedR(OP.OP_FP, 97, 2),
  FCVT_S_WU |-> RoundedR(OP.OP_FP, 104, 1), FCVT_LU_S |-> RoundedR(OP.OP_FP, 96, 3),
  FCVT_S_L |-> RoundedR(OP.OP_FP, 104, 2), AUIPC |-> Opcode(OP.AUIPC),
  FCVT_LU_D |-> RoundedR(OP.OP_FP, 97, 3), CSRRWI |-> Funct3(OP.SYSTEM, 5),
  SC_D |-> Funct35(OP.AMO, 3, 3), FMADD_S |-> Format(OP.MADD, 0),
  FSQRT_S |-> RoundedR(OP.OP_FP, 44, 0), AMOMIN_W |-> Funct35(OP.AMO, 2, 16),
  FSGNJN_S |-> Funct37(OP.OP_FP, 1, 16), AMOSWAP_D |-> Funct35(OP.AMO, 3, 1),
  FSQRT_D |-> RoundedR(OP.OP_FP, 45, 0), FMADD_D |-> Format(OP.MADD, 1),
  DIVW |-> Funct37(OP.OP_32, 4, 1), AMOMIN_D |-> Funct35(OP.AMO, 3, 16),
  DIVU |-> Funct37(OP.OP, 5, 1), AMOSWAP_W |-> Funct35(OP.AMO, 2, 1), JALR |-> Funct3(OP.JALR, 0),
  FSD |-> Funct3(OP.STORE_FP, 3), SW |-> Funct3(OP.STORE, 2), FMSUB_S |-> Format(OP.MSUB, 0),
  LHU |-> Funct3(OP.LOAD, 5), SH |-> Funct3(OP.STORE, 1), FSW |-> Funct3(OP.STORE_FP, 2),
  SB |-> Funct3(OP.STORE, 0), FMSUB_D |-> Format(OP.MSUB, 1), SD |-> Funct3(OP.STORE, 3)]

desc == Descriptors1 @@ Descriptors2 @@ Descriptors3
instructions == DOMAIN desc

Matches(w, d) == \A f \in d.mask : Part(f, w) = Part(f, d.match)
opcode_map == [o \in {desc[n].match.opcode : n \in instructions} |->
                 {n \in instructions : desc[n].match.opcode = o}]
Number(d) == (d.match.funct7 * 32 + d.match.rs2) * 8 + d.match.funct3

\* The first entry of the bucket that matches, in the order of the matches.
decode_insn(w) ==
  LET bucket == IF w.opcode \in DOMAIN opcode_map THEN opcode_map[w.opcode] ELSE {}
      number == [n \in {m \in bucket : Matches(w, desc[m])} |-> Number(desc[n])]
  IN IF number = <<>> THEN "illegal_instruction"
     ELSE CHOOSE n \in DOMAIN number : \A k \in DOMAIN number : number[n] <= number[k]

=============================================================================
