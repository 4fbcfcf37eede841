---------------------------- MODULE Instructions ----------------------------
(***************************************************************************)
(* The integer, memory and system instructions of the functional simulator *)
(* (riscv-base/insns), one definition per file.  An instruction takes and  *)
(* returns a context c: the operands that its macros read (RS1, imm, ...), *)
(* the state it may change (npc, mem, sr, ...) and what it hands to the    *)
(* register file and to the trap handler (rd, trap).  c.xlen is H or X:    *)
(* each file is compiled for both (rv32_ and rv64_).                       *)
(***************************************************************************)
EXTENDS Words, Sequences, FiniteSetsExt, Bitwise

CONSTANTS
  Readable,        (* addresses that loads may read                        *)
  Writable         (* addresses that stores may write                      *)

ASSUME InstructionsAssumption == Writable \subseteq Readable /\ Readable \subseteq Words

NoReservation == 2^X - 1
-----------------------------------------------------------------------------
(* decode.h                                                                *)

xpr64(c) == c.xlen = X
sext_xlen(c, i) == SignExtend(i, c.xlen)
zext_xlen(c, i) == i % 2^c.xlen
cmp_trunc(c, i) == Wrap(i * 2^(X - c.xlen))
Complement(w) == 2^X - 1 - w
SHAMT(c) == c.imm % X

WRITE_RD(c, i) == [c EXCEPT !.rd = <<Wrap(i)>>]
set_pc(c, i) == [c EXCEPT !.npc = sext_xlen(c, i)]
Throw(c, t) == [c EXCEPT !.trap = t]
require_xpr64(c, done) == IF xpr64(c) THEN done ELSE Throw(c, "illegal_instruction")
require_fp(c, done) == IF c.sr.EF THEN done ELSE Throw(c, "fp_disabled")
require_supervisor(c, done) == IF c.sr.S THEN done ELSE Throw(c, "privileged_instruction")

\* A CSR has the privilege that reads it and the one that writes it: three, to
\* read, stands for read by the second and written by nobody.
validate_csr(c, write, done) ==
  LET my_priv == Bool(c.sr.S)
      denied == IF c.csr.read = 3 THEN write \/ my_priv < c.csr.write
                ELSE my_priv < (IF write THEN c.csr.write ELSE c.csr.read)
  IN IF denied THEN Throw(c, "privileged_instruction") ELSE done

\* Registers of floating point may be switched off; the counter is read, and the
\* timer set, by the second of two calls.
serialize(c, done) ==
  IF c.serialized THEN [done EXCEPT !.serialized = FALSE]
  ELSE [Throw(c, "serialize") EXCEPT !.serialized = TRUE]
access_pcr(c, done) ==
  CASE c.csr.kind = "fp" -> require_fp(c, done)
    [] c.csr.kind = "timer" -> serialize(c, done)
    [] OTHER -> done
-----------------------------------------------------------------------------
(* Memory, little endian, in n bytes of X \div 8 bits (mmu.h).             *)

ByteBits == X \div 8
Span(a, n) == a .. a + n - 1
Contents(mem, a, n) == MapThenSumSet(LAMBDA k : mem[a + k] * 2^(k * ByteBits), 0 .. n - 1)
Stored(mem, a, n, w) ==
  [b \in DOMAIN mem |->
     IF b \in Span(a, n) THEN (w \div 2^((b - a) * ByteBits)) % 2^ByteBits ELSE mem[b]]

LoadTrap(a, n) ==
  IF a % n # 0 THEN "load_address_misaligned"
  ELSE IF Span(a, n) \subseteq Readable THEN "none" ELSE "load_access_fault"
StoreTrap(a, n) ==
  IF a % n # 0 THEN "store_address_misaligned"
  ELSE IF Span(a, n) \subseteq Writable THEN "none" ELSE "store_access_fault"

load_uint(c, a, n) == Contents(c.mem, a, n)
load_int(c, a, n) == SignExtend(Contents(c.mem, a, n), n * ByteBits)

Load(c, a, n, done) == IF LoadTrap(a, n) = "none" THEN done ELSE Throw(c, LoadTrap(a, n))
store(c, a, n, w) ==
  IF StoreTrap(a, n) = "none" THEN [c EXCEPT !.mem = Stored(@, a, n, w)]
  ELSE Throw(c, StoreTrap(a, n))

Address(c) == Wrap(c.RS1 + c.imm)
LoadSigned(c, n) == Load(c, Address(c), n, WRITE_RD(c, load_int(c, Address(c), n)))
LoadUnsigned(c, n) == Load(c, Address(c), n, WRITE_RD(c, load_uint(c, Address(c), n)))
StoreRS2(c, n) == store(c, Address(c), n, c.RS2)

\* Load, store what f makes of it, and only then write the register.
Amo(c, n, f(_)) ==
  LET v == load_int(c, c.RS1, n)
      stored == store(c, c.RS1, n, f(v))
  IN Load(c, c.RS1, n, IF stored.trap = "none" THEN WRITE_RD(stored, v) ELSE stored)

\* The lowest n bytes, as numbers; of two words the one with the larger number.
SignedPart(w, n) == Signed(SignExtend(w, n * ByteBits))
UnsignedPart(w, n) == w % 2^(n * ByteBits)
Larger(i, j) == IF i < j THEN j ELSE i
Smaller(i, j) == IF j < i THEN j ELSE i

rv_lb(c) == LoadSigned(c, 1)
rv_lbu(c) == LoadUnsigned(c, 1)
rv_lh(c) == LoadSigned(c, 2)
rv_lhu(c) == LoadUnsigned(c, 2)
rv_lw(c) == LoadSigned(c, 4)
rv_lwu(c) == require_xpr64(c, LoadUnsigned(c, 4))
rv_ld(c) == require_xpr64(c, LoadSigned(c, 8))
rv_sb(c) == StoreRS2(c, 1)
rv_sh(c) == StoreRS2(c, 2)
rv_sw(c) == StoreRS2(c, 4)
rv_sd(c) == require_xpr64(c, StoreRS2(c, 8))

Reserve(c, n) ==
  LET r == [c EXCEPT !.load_reservation = c.RS1]
  IN Load(r, r.RS1, n, WRITE_RD(r, load_int(r, r.RS1, n)))
StoreConditional(c, n) ==
  LET stored == store(c, c.RS1, n, c.RS2)
  IN IF c.RS1 # c.load_reservation THEN WRITE_RD(c, 1)
     ELSE IF stored.trap = "none" THEN WRITE_RD(stored, 0) ELSE stored
rv_lr_w(c) == Reserve(c, 4)
rv_lr_d(c) == require_xpr64(c, Reserve(c, 8))
rv_sc_w(c) == StoreConditional(c, 4)
rv_sc_d(c) == require_xpr64(c, StoreConditional(c, 8))

rv_amoswap_w(c) == Amo(c, 4, LAMBDA v : c.RS2)
rv_amoadd_w(c) == Amo(c, 4, LAMBDA v : Wrap(c.RS2 + v))
rv_amoxor_w(c) == Amo(c, 4, LAMBDA v : c.RS2 ^^ v)
rv_amoand_w(c) == Amo(c, 4, LAMBDA v : c.RS2 & v)
rv_amoor_w(c) == Amo(c, 4, LAMBDA v : c.RS2 | v)
rv_amomin_w(c) == Amo(c, 4, LAMBDA v : Wrap(Smaller(SignedPart(c.RS2, 4), Signed(v))))
rv_amomax_w(c) == Amo(c, 4, LAMBDA v : Wrap(Larger(SignedPart(c.RS2, 4), Signed(v))))
rv_amominu_w(c) == Amo(c, 4, LAMBDA v : Smaller(UnsignedPart(c.RS2, 4), UnsignedPart(v, 4)))
rv_amomaxu_w(c) == Amo(c, 4, LAMBDA v : Larger(UnsignedPart(c.RS2, 4), UnsignedPart(v, 4)))
rv_amoswap_d(c) == require_xpr64(c, Amo(c, 8, LAMBDA v : c.RS2))
rv_amoadd_d(c) == require_xpr64(c, Amo(c, 8, LAMBDA v : Wrap(c.RS2 + v)))
rv_amoxor_d(c) == require_xpr64(c, Amo(c, 8, LAMBDA v : c.RS2 ^^ v))
rv_amoand_d(c) == require_xpr64(c, Amo(c, 8, LAMBDA v : c.RS2 & v))
rv_amoor_d(c) == require_xpr64(c, Amo(c, 8, LAMBDA v : c.RS2 | v))
rv_amomin_d(c) == require_xpr64(c, Amo(c, 8, LAMBDA v : Wrap(Smaller(Signed(c.RS2), Signed(v)))))
rv_amomax_d(c) == require_xpr64(c, Amo(c, 8, LAMBDA v : Wrap(Larger(Signed(c.RS2), Signed(v)))))
rv_amominu_d(c) == require_xpr64(c, Amo(c, 8, LAMBDA v : Smaller(c.RS2, v)))
rv_amomaxu_d(c) == require_xpr64(c, Amo(c, 8, LAMBDA v : Larger(c.RS2, v)))
-----------------------------------------------------------------------------
(* Integer operations.                                                     *)

rv_add(c) == WRITE_RD(c, sext_xlen(c, c.RS1 + c.RS2))
rv_addi(c) == WRITE_RD(c, sext_xlen(c, c.RS1 + c.imm))
rv_addiw(c) == require_xpr64(c, WRITE_RD(c, sext32(c.imm + c.RS1)))
rv_addw(c) == require_xpr64(c, WRITE_RD(c, sext32(c.RS1 + c.RS2)))
rv_sub(c) == WRITE_RD(c, sext_xlen(c, c.RS1 - c.RS2))
rv_subw(c) == require_xpr64(c, WRITE_RD(c, sext32(c.RS1 - c.RS2)))
rv_and(c) == WRITE_RD(c, c.RS1 & c.RS2)
rv_andi(c) == WRITE_RD(c, c.imm & c.RS1)
rv_or(c) == WRITE_RD(c, c.RS1 | c.RS2)
rv_ori(c) == WRITE_RD(c, c.imm | c.RS1)
rv_xor(c) == WRITE_RD(c, c.RS1 ^^ c.RS2)
rv_xori(c) == WRITE_RD(c, c.imm ^^ c.RS1)
rv_slt(c) == WRITE_RD(c, Bool(Signed(cmp_trunc(c, c.RS1)) < Signed(cmp_trunc(c, c.RS2))))
rv_slti(c) == WRITE_RD(c, Bool(Signed(cmp_trunc(c, c.RS1)) < Signed(cmp_trunc(c, c.imm))))
rv_sltu(c) == WRITE_RD(c, Bool(cmp_trunc(c, c.RS1) < cmp_trunc(c, c.RS2)))
rv_sltiu(c) == WRITE_RD(c, Bool(cmp_trunc(c, c.RS1) < cmp_trunc(c, c.imm)))
rv_lui(c) == WRITE_RD(c, c.imm)
rv_auipc(c) == WRITE_RD(c, sext_xlen(c, c.imm + c.pc))

\* On 32 bits a shift by an immediate of 32 and more is no instruction.
ShiftImmediate(c, on64, on32) ==
  IF xpr64(c) THEN WRITE_RD(c, on64)
  ELSE IF SHAMT(c) >= H THEN Throw(c, "illegal_instruction") ELSE WRITE_RD(c, sext32(on32))
rv_sll(c) == WRITE_RD(c, sext_xlen(c, c.RS1 * 2^(c.RS2 % c.xlen)))
rv_slli(c) == ShiftImmediate(c, c.RS1 * 2^SHAMT(c), c.RS1 * 2^SHAMT(c))
rv_slliw(c) == require_xpr64(c, WRITE_RD(c, sext32(c.RS1 * 2^SHAMT(c))))
rv_sllw(c) == require_xpr64(c, WRITE_RD(c, sext32(c.RS1 * 2^(c.RS2 % H))))
rv_srl(c) ==
  WRITE_RD(c, IF xpr64(c) THEN c.RS1 \div 2^(c.RS2 % X) ELSE sext32(Low(c.RS1) \div 2^(c.RS2 % H)))
rv_srli(c) == ShiftImmediate(c, c.RS1 \div 2^SHAMT(c), Low(c.RS1) \div 2^SHAMT(c))
rv_srliw(c) == require_xpr64(c, WRITE_RD(c, sext32(Low(c.RS1) \div 2^SHAMT(c))))
rv_srlw(c) == require_xpr64(c, WRITE_RD(c, sext32(Low(c.RS1) \div 2^(c.RS2 % H))))
rv_sra(c) == WRITE_RD(c, sext_xlen(c, Signed(sext_xlen(c, c.RS1)) \div 2^(c.RS2 % c.xlen)))
rv_srai(c) == ShiftImmediate(c, Signed(c.RS1) \div 2^SHAMT(c), SignedLow(c.RS1) \div 2^SHAMT(c))
rv_sraiw(c) == require_xpr64(c, WRITE_RD(c, sext32(SignedLow(c.RS1) \div 2^SHAMT(c))))
rv_sraw(c) == require_xpr64(c, WRITE_RD(c, sext32(SignedLow(c.RS1) \div 2^(c.RS2 % H))))

rv_mul(c) == WRITE_RD(c, sext_xlen(c, c.RS1 * c.RS2))
rv_mulw(c) == require_xpr64(c, WRITE_RD(c, sext32(c.RS1 * c.RS2)))
rv_mulh(c) ==
  WRITE_RD(c, IF xpr64(c) THEN mulh(Signed(c.RS1), Signed(c.RS2))
              ELSE sext32((SignedLow(c.RS1) * SignedLow(c.RS2)) \div 2^H))
rv_mulhsu(c) ==
  WRITE_RD(c, IF xpr64(c) THEN mulhsu(Signed(c.RS1), c.RS2)
              ELSE sext32(Wrap(SignedLow(c.RS1) * Low(c.RS2)) \div 2^H))
rv_mulhu(c) ==
  WRITE_RD(c, IF xpr64(c) THEN mulhu(c.RS1, c.RS2)
              ELSE sext32((Low(c.RS1) * Low(c.RS2)) \div 2^H))

\* The quotient that overflows is caught at the width of a word only.
DivideSigned(c, byZero, overflow, f(_, _)) ==
  LET lhs == Signed(sext_xlen(c, c.RS1))
      rhs == Signed(sext_xlen(c, c.RS2))
  IN WRITE_RD(c, IF rhs = 0 THEN byZero
                 ELSE IF lhs = -(2^(X-1)) /\ rhs = -1 THEN overflow
                 ELSE sext_xlen(c, f(lhs, rhs)))
DivideUnsigned(c, byZero, f(_, _)) ==
  LET rhs == zext_xlen(c, c.RS2)
  IN WRITE_RD(c, IF rhs = 0 THEN byZero ELSE sext_xlen(c, f(zext_xlen(c, c.RS1), rhs)))
rv_div(c) ==
  DivideSigned(c, 2^X - 1, sext_xlen(c, c.RS1), LAMBDA lhs, rhs : Quotient(lhs, rhs))
rv_rem(c) ==
  DivideSigned(c, sext_xlen(c, c.RS1), 0, LAMBDA lhs, rhs : Remainder(lhs, rhs))
rv_divu(c) == DivideUnsigned(c, 2^X - 1, LAMBDA lhs, rhs : lhs \div rhs)
rv_remu(c) == DivideUnsigned(c, sext_xlen(c, c.RS1), LAMBDA lhs, rhs : lhs % rhs)
rv_divw(c) ==
  require_xpr64(c, WRITE_RD(c, IF SignedLow(c.RS2) = 0 THEN 2^X - 1
                               ELSE sext32(Quotient(SignedLow(c.RS1), SignedLow(c.RS2)))))
rv_divuw(c) ==
  require_xpr64(c, WRITE_RD(c, IF Low(c.RS2) = 0 THEN 2^X - 1
                               ELSE sext32(Low(c.RS1) \div Low(c.RS2))))
rv_remw(c) ==
  require_xpr64(c, WRITE_RD(c, IF SignedLow(c.RS2) = 0 THEN SignedLow(c.RS1)
                               ELSE sext32(Remainder(SignedLow(c.RS1), SignedLow(c.RS2)))))
rv_remuw(c) ==
  require_xpr64(c, WRITE_RD(c, IF Low(c.RS2) = 0 THEN sext32(c.RS1)
                               ELSE sext32(Low(c.RS1) % Low(c.RS2))))
-----------------------------------------------------------------------------
(* Control transfers and system instructions.                              *)

Branch(c, taken) == IF taken THEN set_pc(c, c.pc + c.imm) ELSE c
rv_beq(c) == Branch(c, cmp_trunc(c, c.RS1) = cmp_trunc(c, c.RS2))
rv_bne(c) == Branch(c, cmp_trunc(c, c.RS1) # cmp_trunc(c, c.RS2))
rv_blt(c) == Branch(c, Signed(cmp_trunc(c, c.RS1)) < Signed(cmp_trunc(c, c.RS2)))
rv_bge(c) == Branch(c, Signed(cmp_trunc(c, c.RS1)) >= Signed(cmp_trunc(c, c.RS2)))
rv_bltu(c) == Branch(c, cmp_trunc(c, c.RS1) < cmp_trunc(c, c.RS2))
rv_bgeu(c) == Branch(c, cmp_trunc(c, c.RS1) >= cmp_trunc(c, c.RS2))
rv_jal(c) == WRITE_RD(set_pc(c, c.pc + c.imm), c.npc)
rv_jalr(c) == LET t == Wrap(c.RS1 + c.imm) IN WRITE_RD(set_pc(c, t - (t % 2)), c.npc)

\* c.rs1 is the number of the register, or the immediate.
AccessCSR(c, write, new) ==
  validate_csr(c, write, access_pcr(c, WRITE_RD([c EXCEPT !.pcr = new], sext_xlen(c, c.pcr))))
rv_csrrw(c) == AccessCSR(c, TRUE, c.RS1)
rv_csrrs(c) == AccessCSR(c, c.rs1 # 0, c.pcr | c.RS1)
rv_csrrc(c) == AccessCSR(c, TRUE, c.pcr & Complement(c.RS1))
rv_csrrwi(c) == AccessCSR(c, TRUE, c.rs1)
rv_csrrsi(c) == AccessCSR(c, TRUE, c.pcr | c.rs1)
rv_csrrci(c) == AccessCSR(c, TRUE, c.pcr & Complement(c.rs1))
rv_sret(c) ==
  require_supervisor(c, set_pc([c EXCEPT !.sr.S = c.sr.PS, !.sr.EI = c.sr.PEI], c.epc))
rv_scall(c) == Throw(c, "syscall")
rv_sbreak(c) == Throw(c, "breakpoint")
rv_fence(c) == c
-----------------------------------------------------------------------------
execute_insn(o, c) ==
  CASE o = "LB" -> rv_lb(c) [] o = "LBU" -> rv_lbu(c) [] o = "LH" -> rv_lh(c)
    [] o = "LHU" -> rv_lhu(c) [] o = "LW" -> rv_lw(c) [] o = "LWU" -> rv_lwu(c)
    [] o = "LD" -> rv_ld(c) [] o = "SB" -> rv_sb(c) [] o = "SH" -> rv_sh(c)
    [] o = "SW" -> rv_sw(c) [] o = "SD" -> rv_sd(c) [] o = "LR_W" -> rv_lr_w(c)
    [] o = "LR_D" -> rv_lr_d(c) [] o = "SC_W" -> rv_sc_w(c) [] o = "SC_D" -> rv_sc_d(c)
    [] o = "AMOSWAP_W" -> rv_amoswap_w(c) [] o = "AMOADD_W" -> rv_amoadd_w(c)
    [] o = "AMOXOR_W" -> rv_amoxor_w(c) [] o = "AMOAND_W" -> rv_amoand_w(c)
    [] o = "AMOOR_W" -> rv_amoor_w(c) [] o = "AMOMIN_W" -> rv_amomin_w(c)
    [] o = "AMOMAX_W" -> rv_amomax_w(c) [] o = "AMOMINU_W" -> rv_amominu_w(c)
    [] o = "AMOMAXU_W" -> rv_amomaxu_w(c) [] o = "AMOSWAP_D" -> rv_amoswap_d(c)
    [] o = "AMOADD_D" -> rv_amoadd_d(c) [] o = "AMOXOR_D" -> rv_amoxor_d(c)
    [] o = "AMOAND_D" -> rv_amoand_d(c) [] o = "AMOOR_D" -> rv_amoor_d(c)
    [] o = "AMOMIN_D" -> rv_amomin_d(c) [] o = "AMOMAX_D" -> rv_amomax_d(c)
    [] o = "AMOMINU_D" -> rv_amominu_d(c) [] o = "AMOMAXU_D" -> rv_amomaxu_d(c)
    [] o = "ADD" -> rv_add(c) [] o = "ADDI" -> rv_addi(c) [] o = "ADDIW" -> rv_addiw(c)
    [] o = "ADDW" -> rv_addw(c) [] o = "SUB" -> rv_sub(c) [] o = "SUBW" -> rv_subw(c)
    [] o = "AND" -> rv_and(c) [] o = "ANDI" -> rv_andi(c) [] o = "OR" -> rv_or(c)
    [] o = "ORI" -> rv_ori(c) [] o = "XOR" -> rv_xor(c) [] o = "XORI" -> rv_xori(c)
    [] o = "SLT" -> rv_slt(c) [] o = "SLTI" -> rv_slti(c) [] o = "SLTU" -> rv_sltu(c)
    [] o = "SLTIU" -> rv_sltiu(c) [] o = "LUI" -> rv_lui(c) [] o = "AUIPC" -> rv_auipc(c)
    [] o = "SLL" -> rv_sll(c) [] o = "SLLI" -> rv_slli(c) [] o = "SLLIW" -> rv_slliw(c)
    [] o = "SLLW" -> rv_sllw(c) [] o = "SRL" -> rv_srl(c) [] o = "SRLI" -> rv_srli(c)
    [] o = "SRLIW" -> rv_srliw(c) [] o = "SRLW" -> rv_srlw(c) [] o = "SRA" -> rv_sra(c)
    [] o = "SRAI" -> rv_srai(c) [] o = "SRAIW" -> rv_sraiw(c) [] o = "SRAW" -> rv_sraw(c)
    [] o = "MUL" -> rv_mul(c) [] o = "MULW" -> rv_mulw(c) [] o = "MULH" -> rv_mulh(c)
    [] o = "MULHSU" -> rv_mulhsu(c) [] o = "MULHU" -> rv_mulhu(c) [] o = "DIV" -> rv_div(c)
    [] o = "REM" -> rv_rem(c) [] o = "DIVU" -> rv_divu(c) [] o = "REMU" -> rv_remu(c)
    [] o = "DIVW" -> rv_divw(c) [] o = "DIVUW" -> rv_divuw(c) [] o = "REMW" -> rv_remw(c)
    [] o = "REMUW" -> rv_remuw(c) [] o = "BEQ" -> rv_beq(c) [] o = "BNE" -> rv_bne(c)
    [] o = "BLT" -> rv_blt(c) [] o = "BGE" -> rv_bge(c) [] o = "BLTU" -> rv_bltu(c)
    [] o = "BGEU" -> rv_bgeu(c) [] o = "JAL" -> rv_jal(c) [] o = "JALR" -> rv_jalr(c)
    [] o = "CSRRW" -> rv_csrrw(c) [] o = "CSRRS" -> rv_csrrs(c) [] o = "CSRRC" -> rv_csrrc(c)
    [] o = "CSRRWI" -> rv_csrrwi(c) [] o = "CSRRSI" -> rv_csrrsi(c)
    [] o = "CSRRCI" -> rv_csrrci(c) [] o = "SRET" -> rv_sret(c) [] o = "SCALL" -> rv_scall(c)
    [] o = "SBREAK" -> rv_sbreak(c) [] o = "FENCE" -> rv_fence(c)

=============================================================================
