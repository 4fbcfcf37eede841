-------------------------------- MODULE IEEE --------------------------------
(***************************************************************************)
(* Binary floating point: the fields of a number, and what an operation    *)
(* returns, told from the exact result alone.  The host computes like this *)
(* (alu() uses float and double), and softfloat is to.  A format f has f.e *)
(* bits of exponent and f.s of fraction (8 and 23, 11 and 52 in the code). *)
(* Finite numbers are counted in units of the least one.                   *)
(***************************************************************************)
EXTENDS Integers

CONSTANTS S, D     (* the formats of float and double                      *)

Formats == [e : 3 .. 11, s : 2 .. 52]
ASSUME FormatsAssumption == S \in Formats /\ D \in Formats /\ S.e < D.e /\ S.s < D.s

\* The rounding modes: to the nearest (ties to even), to zero, down, up, and to
\* the nearest (ties away from zero).
RNE == 0
RTZ == 1
RDN == 2
RUP == 3
RMM == 4
Modes == {RNE, RTZ, RDN, RUP, RMM}

Width(f) == 1 + f.e + f.s
Bias(f) == 2^(f.e - 1) - 1
MaxExp(f) == 2^f.e - 1
Infinity(f) == MaxExp(f) * 2^f.s
sign(f, u) == (u \div 2^(Width(f) - 1)) % 2
exp(f, u) == (u \div 2^f.s) % 2^f.e
frac(f, u) == u % 2^f.s
packToUI(f, sgn, e, sig) == sgn * 2^(Width(f) - 1) + e * 2^f.s + sig
isNaN(f, u) == exp(f, u) = MaxExp(f) /\ frac(f, u) # 0
isSigNaN(f, u) == isNaN(f, u) /\ frac(f, u) < 2^(f.s - 1)
isInf(f, u) == u % 2^(Width(f) - 1) = Infinity(f)
isZero(f, u) == u % 2^(Width(f) - 1) = 0
-----------------------------------------------------------------------------
(* Rounding of num \div den units to a number and the flags it raises.     *)

Points(f) == Bias(f) + f.s - 1          \* one is 2^Points(f) units
Significand(f, u) == frac(f, u) + (IF exp(f, u) = 0 THEN 0 ELSE 2^f.s)
Scale(f, u) == IF exp(f, u) = 0 THEN 0 ELSE exp(f, u) - 1
Units(f, u) == Significand(f, u) * 2^Scale(f, u)
SignedUnits(f, u) == IF sign(f, u) = 1 THEN -Units(f, u) ELSE Units(f, u)

BitLength(n) == CHOOSE b \in 0 .. 31 : 2^b > n /\ (b > 0 => 2^(b - 1) <= n)
AwayFromZero(sgn, rm) == rm = (IF sgn = 1 THEN RDN ELSE RUP)

\* The magnitude below num \div den, as far as the exponents go and beyond; the
\* next one is larger by 2^shift units.
Round(f, sgn, num, den, rm) ==
  LET n == num \div den
      shift == IF n < 2^(f.s + 1) THEN 0 ELSE BitLength(n) - (f.s + 1)
      below == shift * 2^f.s + n \div 2^shift
      rest == num - (n \div 2^shift) * 2^shift * den
      half == 2^shift * den
      up == CASE rm = RNE -> 2 * rest > half \/ (2 * rest = half /\ below % 2 = 1)
              [] rm = RMM -> 2 * rest >= half
              [] OTHER    -> rest > 0 /\ AwayFromZero(sgn, rm)
      to == IF up THEN below + 1 ELSE below
      largest == IF rm \in {RNE, RMM} \/ AwayFromZero(sgn, rm) THEN Infinity(f) ELSE Infinity(f) - 1
      overflow == to >= Infinity(f)
  IN [ui |-> packToUI(f, sgn, 0, IF overflow THEN largest ELSE to),
      flags |-> (IF overflow THEN {"overflow", "inexact"} ELSE {})
                \cup (IF rest # 0 THEN {"inexact"} ELSE {})
                \cup (IF rest # 0 /\ n < 2^f.s THEN {"underflow"} ELSE {})]

\* n * 2^k units over den.
RoundScaled(f, sgn, n, k, den, rm) ==
  Round(f, sgn, IF k < 0 THEN n ELSE n * 2^k, IF k < 0 THEN den * 2^(-k) ELSE den, rm)
-----------------------------------------------------------------------------
(* The operations.  The pattern of a NaN is not told.                      *)

NaN == -1
Exact(ui) == [ui |-> ui, flags |-> {}]
Invalid == [ui |-> NaN, flags |-> {"invalid"}]
PropagatesNaN(f, operands) ==
  [ui |-> NaN, flags |-> IF \E u \in operands : isSigNaN(f, u) THEN {"invalid"} ELSE {}]
SignedInf(f, sgn) == Exact(packToUI(f, sgn, MaxExp(f), 0))
SignedZero(f, sgn) == Exact(packToUI(f, sgn, 0, 0))

\* a * b + c, rounded once; 2^k units over 2^Points(f) is what both are counted in.
\* A sum of zeros of different sign, or of numbers that cancel, is negative only
\* when one rounds down.
MulAdd(f, a, b, c, rm) ==
  LET sp == (sign(f, a) + sign(f, b)) % 2
      infProd == isInf(f, a) \/ isInf(f, b)
      noProd == (isInf(f, a) /\ isZero(f, b)) \/ (isInf(f, b) /\ isZero(f, a))
      ofProd == Scale(f, a) + Scale(f, b)
      ofC == Scale(f, c) + Points(f)
      k == IF ofProd < ofC THEN ofProd ELSE ofC
      p == Significand(f, a) * Significand(f, b) * 2^(ofProd - k)
      q == Significand(f, c) * 2^(ofC - k)
      sum == (IF sp = 1 THEN -p ELSE p) + (IF sign(f, c) = 1 THEN -q ELSE q)
  IN CASE noProd /\ ~isNaN(f, a) /\ ~isNaN(f, b) -> Invalid
       [] \E u \in {a, b, c} : isNaN(f, u) -> PropagatesNaN(f, {a, b, c})
       [] infProd /\ isInf(f, c) /\ sp # sign(f, c) -> Invalid
       [] infProd -> SignedInf(f, sp)
       [] isInf(f, c) -> SignedInf(f, sign(f, c))
       [] sum = 0 -> SignedZero(f, IF p = 0 /\ sp = sign(f, c) THEN sp ELSE IF rm = RDN THEN 1 ELSE 0)
       [] OTHER -> RoundScaled(f, IF sum < 0 THEN 1 ELSE 0, IF sum < 0 THEN -sum ELSE sum,
                               k - Points(f), 1, rm)

Add(f, a, b, rm) ==
  LET sum == SignedUnits(f, a) + SignedUnits(f, b)
  IN CASE isNaN(f, a) \/ isNaN(f, b) -> PropagatesNaN(f, {a, b})
       [] isInf(f, a) /\ isInf(f, b) /\ a # b -> Invalid
       [] isInf(f, a) -> Exact(a)
       [] isInf(f, b) -> Exact(b)
       [] sum = 0 -> SignedZero(f, IF isZero(f, a) /\ sign(f, a) = sign(f, b) THEN sign(f, a)
                                   ELSE IF rm = RDN THEN 1 ELSE 0)
       [] OTHER -> Round(f, IF sum < 0 THEN 1 ELSE 0, IF sum < 0 THEN -sum ELSE sum, 1, rm)
Opposite(f, u) == (u + 2^(Width(f) - 1)) % 2^Width(f)
Sub(f, a, b, rm) ==
  IF isNaN(f, b) THEN PropagatesNaN(f, {a, b}) ELSE Add(f, a, Opposite(f, b), rm)

Mul(f, a, b, rm) ==
  LET sp == (sign(f, a) + sign(f, b)) % 2
  IN CASE isNaN(f, a) \/ isNaN(f, b) -> PropagatesNaN(f, {a, b})
       [] (isInf(f, a) /\ isZero(f, b)) \/ (isInf(f, b) /\ isZero(f, a)) -> Invalid
       [] isInf(f, a) \/ isInf(f, b) -> SignedInf(f, sp)
       [] OTHER -> RoundScaled(f, sp, Significand(f, a) * Significand(f, b),
                               Scale(f, a) + Scale(f, b) - Points(f), 1, rm)

Div(f, a, b, rm) ==
  LET sp == (sign(f, a) + sign(f, b)) % 2
  IN CASE isNaN(f, a) \/ isNaN(f, b) -> PropagatesNaN(f, {a, b})
       [] (isInf(f, a) /\ isInf(f, b)) \/ (isZero(f, a) /\ isZero(f, b)) -> Invalid
       [] isInf(f, a) -> SignedInf(f, sp)
       [] isInf(f, b) \/ isZero(f, a) -> SignedZero(f, sp)
       [] isZero(f, b) -> [SignedInf(f, sp) EXCEPT !.flags = {"infinity"}]
       [] OTHER -> RoundScaled(f, sp, Significand(f, a), Scale(f, a) - Scale(f, b) + Points(f),
                               Significand(f, b), rm)

\* The integer root, bit by bit, of a number below 2^30.
Root(n) ==
  LET r[k \in 0 .. 15] ==
        IF k = 15 THEN 0 ELSE LET p == r[k + 1] IN IF (p + 2^k)^2 <= n THEN p + 2^k ELSE p
  IN r[0]

\* The root of n units over 4^k is told to f.s + 3 bits, and whether there is more.
Sqrt(f, u, rm) ==
  LET scale == Scale(f, u) + Points(f)
      k == f.s + 2
      n == Significand(f, u) * 2^(scale % 2) * 4^k
      r == Root(n)
  IN CASE isNaN(f, u) -> PropagatesNaN(f, {u})
       [] isZero(f, u) \/ u = Infinity(f) -> Exact(u)
       [] sign(f, u) = 1 -> Invalid
       [] OTHER -> RoundScaled(f, 0, 2 * r + (IF r * r < n THEN 1 ELSE 0),
                               (scale \div 2) - k - 1, 1, rm)

\* To an integer from least to greatest: what is outside gives an end, all the
\* same one when there is no sign.
ToInteger(f, u, least, greatest, rm) ==
  LET den == 2^Points(f)
      n == Units(f, u) \div den
      rest == Units(f, u) % den
      up == CASE rm = RNE -> 2 * rest > den \/ (2 * rest = den /\ n % 2 = 1)
              [] rm = RMM -> 2 * rest >= den
              [] OTHER    -> rest > 0 /\ AwayFromZero(sign(f, u), rm)
      to == IF up THEN n + 1 ELSE n
      signed == IF sign(f, u) = 1 THEN -to ELSE to
      valid == ~isNaN(f, u) /\ ~isInf(f, u) /\ signed \in least .. greatest
  IN IF valid THEN [ui |-> signed, flags |-> IF rest = 0 THEN {} ELSE {"inexact"}]
     ELSE [ui |-> IF sign(f, u) = 1 /\ ~isNaN(f, u) /\ least < 0 THEN least ELSE greatest,
           flags |-> {"invalid"}]

FromInteger(f, i, rm) ==
  IF i = 0 THEN SignedZero(f, 0)
  ELSE Round(f, IF i < 0 THEN 1 ELSE 0, (IF i < 0 THEN -i ELSE i) * 2^Points(f), 1, rm)

\* From format f to format g.
Converted(f, g, u, rm) ==
  CASE isNaN(f, u) -> PropagatesNaN(f, {u})
    [] isInf(f, u) -> SignedInf(g, sign(f, u))
    [] isZero(f, u) -> SignedZero(g, sign(f, u))
    [] OTHER -> RoundScaled(g, sign(f, u), Significand(f, u),
                            Scale(f, u) - Points(f) + Points(g), 1, rm)

Ordered(f, a, b) == ~isNaN(f, a) /\ ~isNaN(f, b)
Equal(f, a, b) == Ordered(f, a, b) /\ SignedUnits(f, a) = SignedUnits(f, b)
Less(f, a, b) == Ordered(f, a, b) /\ SignedUnits(f, a) < SignedUnits(f, b)
=============================================================================
