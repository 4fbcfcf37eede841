------------------------------- MODULE Words -------------------------------
(***************************************************************************)
(* Words of X = 2 * H bits, as numbers from 0 (64 and 32 bits in the code, *)
(* reg_t), and the arithmetic of C++ on them.  Signed overflow wraps, as   *)
(* on the machines this is built for.                                      *)
(***************************************************************************)
EXTENDS Integers

CONSTANT H         (* bits of a half word, a power of two                  *)

ASSUME WordsAssumption == \E n \in 0..5 : H = 2^n

X == 2 * H
Words == 0 .. 2^X - 1

Wrap(i) == i % 2^X
\* .sdw, and (int32_t) of the low half.
Signed(w) == IF w < 2^(X-1) THEN w ELSE w - 2^X
Low(w) == w % 2^H
w0Whole(w) == w            \* mutant: the upper half is not cut off
w0(w) == Low(w)            (* .w[0], zext32()                              *)
SignedLow(w) == IF Low(w) < 2^(H-1) THEN Low(w) ELSE Low(w) - 2^H
sext32(i) == Wrap(SignedLow(i))
Bool(b) == IF b THEN 1 ELSE 0

\* The lowest n bits of a number as a signed one, in a word.
SignExtend(i, n) ==
  LET low == i % 2^n IN Wrap(IF low < 2^(n-1) THEN low ELSE low - 2^n)

Magnitude(i) == IF i < 0 THEN -i ELSE i
\* / and % round to zero.
Quotient(i, j) ==
  LET q == Magnitude(i) \div Magnitude(j) IN IF (i < 0) # (j < 0) THEN -q ELSE q
Remainder(i, j) == i - j * Quotient(i, j)

\* mulhi.h: the upper word of a product, from the products of half words.
High(w) == w \div 2^H
CarryLost(t) == 0          \* mutant: the last product does without the carry of the others
Carry(t) == High(t)
mulhu(a, b) ==
  LET t1 == Wrap(High(a) * Low(b) + High(Low(a) * Low(b)))
      t2 == Wrap(Low(a) * High(b) + Low(t1))
  IN Wrap(High(a) * High(b) + High(t1) + Carry(t2))
Negated(w, lowIsZero) == Wrap((2^X - 1 - w) + Bool(lowIsZero))
mulh(a, b) ==
  LET res == mulhu(Wrap(Magnitude(a)), Wrap(Magnitude(b)))
  IN IF (a < 0) # (b < 0) THEN Negated(res, Wrap(a * b) = 0) ELSE res
mulhsu(a, b) ==
  LET res == mulhu(Wrap(Magnitude(a)), b)
  IN IF a < 0 THEN Negated(res, Wrap(a * b) = 0) ELSE res

=============================================================================
