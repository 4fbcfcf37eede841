----------------------------- MODULE MCLockstep -----------------------------
(* Instances of Lockstep for TLC.                                          *)
EXTENDS Lockstep

I(o) == [op |-> o, csr |-> "none", v |-> 0]
V(o, n) == [op |-> o, csr |-> "none", v |-> n]
R(c) == [op |-> "csrr", csr |-> c, v |-> 0]
W(c, n) == [op |-> "csrw", csr |-> c, v |-> n]

\* What the proxy kernel does: arguments in memory, a command, wait for the
\* answer, read the result, exit.
Proxy == <<V("li", 3), I("sw"), W("tohost", 2), R("fromhost"), V("beqz", 3),
           W("fromhost", 0), I("lw"), W("tohost", 1), V("j", 7)>>

\* The timer is set and watched; its handler clears it.
Timer == <<R("count"), V("addi", 3), W("compare", 9), R("cycle"), V("beqz", 3),
           I("scall"), R("compare"), R("epc")>>

\* A user program that reads the cycle counter and is trapped for the rest.
User == <<W("epc", 3), I("sret"), I("sw"), R("cycle"), W("tohost", 2), V("j", 1),
          R("epc"), V("j", 0)>>

\* All programs of three instructions from a menu, the last one repeated for ever.
Menu == {V("addi", 1), V("beqz", 0), I("sw"), I("sret"), R("cycle"),
         W("tohost", 1), W("tohost", 2), W("compare", 5), W("epc", 1)}
Short == {<<a, b, c, V("j", 1)>> : a \in Menu, b \in Menu, c \in Menu}

MCPrograms == {Proxy, Timer, User} \cup Short
MCResult == [v \in Values |-> (v + 2) % Width]
=============================================================================
