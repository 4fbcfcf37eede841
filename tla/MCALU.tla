------------------------------- MODULE MCALU -------------------------------
(* Instances of Arithmetic for TLC.                                        *)
EXTENDS Arithmetic

\* Loads may read a word beyond those that stores may write.
MCReadable == 0 .. X + 3
MCWritable == 0 .. X - 1

MCSingle == [e |-> 3, s |-> 2]
MCDouble == [e |-> 4, s |-> 3]
MCWideSingle == [e |-> 5, s |-> 8]
MCWideDouble == [e |-> 5, s |-> 6]
\* Around zero, the signs of half a word and of a word, and the greatest of each.
MCSecondOperands == (0 .. 20) \cup (125 .. 138) \cup (232 .. 255) \cup {85, 119, 170}
\* Zeros, the least and the greatest of each kind, ties, infinities and NaNs.
MCDoubleOperands ==
  LET magnitudes == {0, 1, 7, 8, 45, 55, 56, 57, 78, 119, 120, 121}
  IN magnitudes \cup {m + 128 : m \in magnitudes}
MCAddends ==
  LET magnitudes == {0, 13, 28} IN magnitudes \cup {m + 32 : m \in magnitudes}
MCContained == {0, 1, 7, 8, 15, 85, 112, 120, 128, 136, 170, 247, 255}

AllButMulhsu == AllOps \ {"MULHSU"}
OnlyMulhsu == {"MULHSU"}
=============================================================================
