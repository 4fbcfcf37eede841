------------------------------ MODULE MCDecode ------------------------------
(* Instances of Decode for TLC.                                            *)
EXTENDS Decode

\* One opcode that nobody knows, and of each field the values that some mask or
\* switch tells apart.
Opcodes == {OP[o] : o \in DOMAIN OP} \cup {0}
Functs(o) ==
  CASE o = OP.OP_FP -> 0 .. 127
    [] o = OP.AMO -> {4 * f5 + aq : f5 \in 0 .. 31, aq \in {0, 3}}
    [] o = OP.SYSTEM -> {0, 1, 64}
    [] o \in {OP.MADD, OP.MSUB, OP.NMADD, OP.NMSUB} -> 0 .. 7
    [] OTHER -> {0, 1, 2, 32, 33, 34}
Seconds(o) ==
  CASE o = OP.OP_FP -> 0 .. 4 [] o \in {OP.AMO, OP.SYSTEM} -> {0, 1, 2} [] OTHER -> {0, 1}

AllWords ==
  UNION {[opcode : {o}, funct3 : 0 .. 7, funct7 : Functs(o), rs2 : Seconds(o), rs1 : {0, 1}, rd : {0, 1}]
          : o \in Opcodes}

FlagsOfALoad == {{"MEM", "LOAD"}}
=============================================================================
