---------------------------- MODULE AtRetirement ----------------------------
(***************************************************************************)
(* The instructions that the core executes when they are at the head:      *)
(* execute_amo() and execute_csr() of retire.cc, on the memory and the     *)
(* privileged registers that the functional simulator has a copy of.       *)
(***************************************************************************)
EXTENDS Instructions

AmoWordOps == {"AMOSWAP_W", "AMOADD_W", "AMOXOR_W", "AMOAND_W", "AMOOR_W", "AMOMIN_W",
               "AMOMAX_W", "AMOMINU_W", "AMOMAXU_W"}
AmoDoubleOps == {"AMOSWAP_D", "AMOADD_D", "AMOXOR_D", "AMOAND_D", "AMOOR_D", "AMOMIN_D",
                 "AMOMAX_D", "AMOMINU_D", "AMOMAXU_D"}
AmoOps == AmoWordOps \cup AmoDoubleOps
CsrOps == {"CSRRW", "CSRRS", "CSRRC", "CSRRWI", "CSRRSI", "CSRRCI", "SRET"}

write_amo_value(o, b, v, n) ==
  CASE o \in {"AMOSWAP_W", "AMOSWAP_D"} -> b
    [] o \in {"AMOADD_W", "AMOADD_D"} -> Wrap(b + v)
    [] o \in {"AMOXOR_W", "AMOXOR_D"} -> b ^^ v
    [] o \in {"AMOAND_W", "AMOAND_D"} -> b & v
    [] o \in {"AMOOR_W", "AMOOR_D"} -> b | v
    [] o \in {"AMOMIN_W", "AMOMIN_D"} -> Wrap(Smaller(SignedPart(b, n), SignedPart(v, n)))
    [] o \in {"AMOMAX_W", "AMOMAX_D"} -> Wrap(Larger(SignedPart(b, n), SignedPart(v, n)))
    [] o \in {"AMOMINU_W", "AMOMINU_D"} -> Smaller(UnsignedPart(b, n), UnsignedPart(v, n))
    [] o \in {"AMOMAXU_W", "AMOMAXU_D"} -> Larger(UnsignedPart(b, n), UnsignedPart(v, n))

\* A_value is the address.  A trap of the load meets assert(0); one of the store
\* is posted, and the value that was read is in the register all the same.
execute_amo(o, a, b, mem) ==
  LET n == IF o \in AmoWordOps THEN 4 ELSE 8
      v == SignExtend(Contents(mem, a, n), n * ByteBits)
      trap == StoreTrap(a, n)
  IN IF LoadTrap(a, n) # "none" THEN [stops |-> TRUE]
     ELSE [stops |-> FALSE, trap |-> trap, C_value |-> v,
           mem |-> IF trap = "none" THEN Stored(mem, a, n, write_amo_value(o, b, v, n)) ELSE mem]

\* What serialize() throws becomes a trap.
Caught(c) == IF c.trap = "serialize" THEN [c EXCEPT !.trap = "csr_instruction"] ELSE c

\* On the context of Instructions: c.rs1 is A_log_reg, c.RS1 is A_value.
execute_csr(o, c) ==
  LET new_value ==
        CASE o = "CSRRC"  -> c.pcr & Complement(c.RS1)
          [] o = "CSRRW"  -> c.RS1
          [] o = "CSRRS"  -> c.pcr | c.RS1
          [] o = "CSRRCI" -> c.pcr & Complement(c.rs1)
          [] o = "CSRRWI" -> c.rs1
          [] o = "CSRRSI" -> c.pcr | c.rs1
  IN IF o = "SRET"
     THEN require_supervisor(c, [c EXCEPT !.sr.S = c.sr.PS, !.sr.EI = c.sr.PEI])
     ELSE Caught(validate_csr(c, o = "CSRRS" => c.rs1 # 0,
                              access_pcr(c, [c EXCEPT !.pcr = new_value, !.rd = <<c.pcr>>])))
=============================================================================
