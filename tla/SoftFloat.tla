----------------------------- MODULE SoftFloat -----------------------------
(***************************************************************************)
(* riscv-base/softfloat, the floating point of the functional simulator,   *)
(* for any format f.  A significand in work has its leading bit at         *)
(* Width(f) - 2, GuardBits(f) below its place in the number, and bits that *)
(* are shifted out are kept, or'ed together, in the lowest one.  A routine *)
(* returns the number and the exception flags it raises.  The routines of  *)
(* double work on two words where those of float have one: on whole        *)
(* numbers they are the same, but for what they estimate.  The width of a  *)
(* format is even, and that of double a multiple of four.                  *)
(***************************************************************************)
EXTENDS IEEE, Words

GuardBits(f) == f.e - 1             \* 7 and 10
Half(f) == 2^(GuardBits(f) - 1)
Lead(f) == 2^(Width(f) - 2)
defaultNaN(f) == 2^Width(f) - 1

Raise(ui, flags) == [ui |-> ui, flags |-> flags]
ProductSign(i, j) == (i + j) % 2
LeadingBit(n) == BitLength(n) - 1

\* softfloat_shiftRightJam.
Jam(n, count) ==
  IF count >= 31 THEN (IF n = 0 THEN 0 ELSE 1)
  ELSE LET q == n \div 2^count IN IF q % 2 = 0 /\ q * 2^count # n THEN q + 1 ELSE q
\* To the left nothing is lost.
Shift(n, count) == IF count < 0 THEN Jam(n, -count) ELSE n * 2^count

propagateNaN(f, a, b) ==
  Raise(defaultNaN(f), IF isSigNaN(f, a) \/ isSigNaN(f, b) THEN {"invalid"} ELSE {})
invalid(f) == Raise(defaultNaN(f), {"invalid"})
infinity(f, sgn) == Raise(packToUI(f, sgn, MaxExp(f), 0), {})
zero(f, sgn) == Raise(packToUI(f, sgn, 0, 0), {})

\* Of a finite number but zero.
normSubnormal(f, sig) ==
  LET shiftCount == f.s - LeadingBit(sig)
  IN [exp |-> 1 - shiftCount, sig |-> sig * 2^shiftCount]
Normalized(f, u) ==
  IF exp(f, u) = 0 THEN normSubnormal(f, frac(f, u))
  ELSE [exp |-> exp(f, u), sig |-> frac(f, u) + 2^f.s]

roundIncrement(sgn, rm, half) ==
  IF rm \in {RNE, RMM} THEN half
  ELSE IF rm = RTZ \/ rm = (IF sgn = 1 THEN RUP ELSE RDN) THEN 0 ELSE 2 * half - 1
EvenTie(sig, roundBits, half, rm) ==
  IF roundBits = half /\ rm = RNE THEN sig - (sig % 2) ELSE sig

\* e is the exponent less one: the leading bit of sig is added to it.
roundPack(f, sgn, e, sig, rm) ==
  LET inc == roundIncrement(sgn, rm, Half(f))
      tiny == e < 0
      s == IF tiny THEN Jam(sig, -e) ELSE sig
      roundBits == s % 2^GuardBits(f)
      rounded == EvenTie((s + inc) \div 2^GuardBits(f), roundBits, Half(f), rm)
  IN IF e > MaxExp(f) - 2 \/ (e = MaxExp(f) - 2 /\ sig + inc >= 2 * Lead(f))
     THEN Raise(packToUI(f, sgn, MaxExp(f), 0) - (IF inc = 0 THEN 1 ELSE 0), {"overflow", "inexact"})
     ELSE Raise(packToUI(f, sgn, IF tiny \/ rounded = 0 THEN 0 ELSE e, rounded),
                IF roundBits = 0 THEN {}
                ELSE IF tiny THEN {"underflow", "inexact"} ELSE {"inexact"})

\* A sum that may have lost its leading bits, or gained one.
normRoundPack(f, sgn, e, sig, rm) ==
  LET up == Width(f) - 2 - LeadingBit(sig) IN roundPack(f, sgn, e - up, Shift(sig, up), rm)
-----------------------------------------------------------------------------
(* a * b + c: the product has two words, and c is moved to its place.      *)

Product(f, a, b) ==
  LET x == Normalized(f, a)
      y == Normalized(f, b)
      sig == x.sig * y.sig * 2^(2 * GuardBits(f))
      e == x.exp + y.exp - (Bias(f) - 1)
  IN IF sig < 2 * Lead(f)^2 THEN [exp |-> e - 1, sig |-> 2 * sig] ELSE [exp |-> e, sig |-> sig]

AddToProduct(f, signProd, prod, signC, c, rm) ==
  LET w == Width(f)
      sigC == c.sig * 2^(GuardBits(f) - 1 + w)
      expDiff == prod.exp - c.exp
      e == IF expDiff < 0 THEN c.exp ELSE prod.exp
      p == IF expDiff < 0 THEN Jam(prod.sig, -expDiff) ELSE prod.sig
      q == IF expDiff > 0 THEN Jam(sigC, expDiff) ELSE sigC
      sum == IF signProd = signC THEN p + q ELSE p - q
      magnitude == IF sum < 0 THEN -sum ELSE sum
      up == 2 * w - 2 - LeadingBit(magnitude)
  IN IF sum = 0 THEN zero(f, IF rm = RDN THEN 1 ELSE 0)
     ELSE roundPack(f, IF sum < 0 THEN signC ELSE signProd, e - up, Shift(magnitude, up - w), rm)

NoProduct(f, a, b) == (isInf(f, a) /\ isZero(f, b)) \/ (isInf(f, b) /\ isZero(f, a))
completeCancellation(f, rm) == zero(f, IF rm = RDN THEN 1 ELSE 0)

softfloat_mulAdd(f, a, b, c, rm) ==
  LET signProd == ProductSign(sign(f, a), sign(f, b))
      signC == sign(f, c)
  IN IF isNaN(f, a) \/ isNaN(f, b)
     THEN propagateNaN(f, IF isSigNaN(f, a) THEN a ELSE b, c)
     ELSE IF NoProduct(f, a, b) THEN invalid(f)
     ELSE IF isNaN(f, c) THEN propagateNaN(f, 0, c)
     ELSE IF isInf(f, a) \/ isInf(f, b)
     THEN IF isInf(f, c) /\ signProd # signC THEN invalid(f) ELSE infinity(f, signProd)
     ELSE IF isInf(f, c) THEN Raise(c, {})
     ELSE IF isZero(f, a) \/ isZero(f, b)
     THEN IF isZero(f, c) /\ signProd # signC THEN completeCancellation(f, rm) ELSE Raise(c, {})
     ELSE IF isZero(f, c)
     THEN LET prod == Product(f, a, b)
          IN roundPack(f, signProd, prod.exp - 1, Jam(prod.sig, Width(f) - 1), rm)
     ELSE AddToProduct(f, signProd, Product(f, a, b), signC, Normalized(f, c), rm)

f32_mulAdd(a, b, c, rm) == softfloat_mulAdd(S, a, b, c, rm)
f64_mulAdd(a, b, c, rm) == softfloat_mulAdd(D, a, b, c, rm)
-----------------------------------------------------------------------------
(* Quotients and roots.  Those of double, and the roots of float, begin    *)
(* with an estimate.  One near a tie or a number is corrected, by the sign *)
(* of what it leaves; another has the right bits above its lowest ones.    *)

\* While the remainder is negative, z goes down by a step and the remainder gains
\* so much, and so much more for each unit of z.
Corrected(estimate, remainder, step, gain, perUnit) ==
  LET from[z \in Nat, rem \in Int] ==
        IF rem >= 0 THEN [z |-> z, rem |-> rem]
        ELSE from[z - step, rem + gain + perUnit * (z - step)]
  IN from[estimate, remainder]
WithSticky(z, sticky) == IF sticky /\ z % 2 = 0 THEN z + 1 ELSE z
NearIfWhole(z, unit, error) == z % unit = 0     \* mutant: the estimate's error is not allowed for
Near(z, unit, error) == z % unit <= error

\* a words by b: the upper half of the quotient, which may be too large, then the lower.
softfloat_estimateDiv128To64(f, a, b) ==
  LET w == Width(f)
      h == w \div 2
      b32 == b \div 2^h
      Digit(n) == IF b32 * 2^h <= n THEN 2^h - 1 ELSE n \div b32
      upper == Digit(a) * 2^h
      c == Corrected(upper, a * 2^w - b * upper, 2^h, b * 2^h, 0)
  IN IF b <= a THEN 2^w - 1 ELSE c.z + Digit((c.rem \div 2^h) % 2^w)

\* The significand of a quotient, of float and of double.
FloatQuotient(f, sigA, sigB) ==
  LET q == (sigA * 2^Width(f)) \div sigB
  IN WithSticky(q, q % Half(f) = 0 /\ sigB * q # sigA * 2^Width(f))
DoubleQuotient(f, sigA, sigB) ==
  LET z == softfloat_estimateDiv128To64(f, sigA, sigB)
      c == Corrected(z, sigA * 2^Width(f) - sigB * z, 1, sigB, 0)
  IN IF Near(z, Half(f), 2) THEN WithSticky(c.z, c.rem # 0) ELSE z

\* double: whether the routine is that of double or that of float.
softfloat_div(f, double, a, b, rm) ==
  LET signZ == ProductSign(sign(f, a), sign(f, b))
      x == Normalized(f, a)
      y == Normalized(f, b)
      sigA == x.sig * 2^GuardBits(f)
      sigB == y.sig * 2^(GuardBits(f) + 1)
      fits == sigB <= 2 * sigA
      dividend == IF fits THEN sigA \div 2 ELSE sigA
  IN IF isNaN(f, a) \/ isNaN(f, b) THEN propagateNaN(f, a, b)
     ELSE IF isInf(f, a) THEN IF isInf(f, b) THEN invalid(f) ELSE infinity(f, signZ)
     ELSE IF isInf(f, b) THEN zero(f, signZ)
     ELSE IF isZero(f, b)
     THEN IF isZero(f, a) THEN invalid(f) ELSE [infinity(f, signZ) EXCEPT !.flags = {"infinity"}]
     ELSE IF isZero(f, a) THEN zero(f, signZ)
     ELSE roundPack(f, signZ, x.exp - y.exp + Bias(f) - (IF fits THEN 1 ELSE 2),
                    IF double THEN DoubleQuotient(f, dividend, sigB) ELSE FloatQuotient(f, dividend, sigB), rm)

f32_div(a, b, rm) == softfloat_div(S, FALSE, a, b, rm)
f64_div(a, b, rm) == softfloat_div(D, TRUE, a, b, rm)

\* What a first guess of 16 bits is off, by the leading bits of the operand.
sqrtOddAdjustments ==
  <<4, 34, 93, 177, 285, 415, 566, 736, 924, 1128, 1349, 1585, 1835, 2098, 2374, 2663>>
sqrtEvenAdjustments ==
  <<2605, 2223, 1882, 1577, 1306, 1065, 854, 670, 512, 377, 265, 175, 104, 52, 18, 2>>

\* In words of w bits, the leading one of a set: the guess has q bits, and is
\* refined by division twice.
softfloat_estimateSqrt32(w, expA, a) ==
  LET q == w \div 2
      Guess(unit, adjustments) ==
        unit + a \div 2^(q + 1) - adjustments[1 + (((32 * a) \div 2^w) % 16)] \div 2^(16 - q)
      Refined(n, z) == ((n * 2^(w - 1)) \div z + z \div 2) % 2^w
      odd == Guess(2^(q - 2), sqrtOddAdjustments)
      even == Guess(2^(q - 1), sqrtEvenAdjustments)
      mean == a \div even + even
      z == IF 2^(q + 1) <= mean THEN 2^w - 2^(q - 1) ELSE mean * 2^(q - 1)
  IN IF expA % 2 = 1
     THEN Refined(a \div 2, ((a \div odd) * 2^(q - 2) + odd * 2^(q - 1)) % 2^w)
     ELSE IF z <= a THEN a \div 2 + 2^(w - 1) ELSE Refined(a, z)

\* The significand of a root, of float and of double; a double's remainder gains
\* one less than it should at each step.
FloatRoot(f, x) ==
  LET w == Width(f)
      sigA == x.sig * 2^(GuardBits(f) + 1)
      z == (softfloat_estimateSqrt32(w, x.exp, sigA) + 2) % 2^w
      c == Corrected(z, (sigA \div 2^(x.exp % 2)) * 2^w - z * z, 1, 1, 2)
  IN IF ~Near(z, 2^GuardBits(f), 5) THEN Jam(z, 1)
     ELSE IF z < 2 THEN 2^(w - 1) - 1
     ELSE Jam(WithSticky(c.z, c.rem # 0), 1)
DoubleRoot(f, x) ==
  LET w == Width(f)
      h == w \div 2
      sigA == x.sig * 2^(GuardBits(f) - 1 - (x.exp % 2))
      sigZ32 == softfloat_estimateSqrt32(h, x.exp, (x.sig * 2^(h - 1)) \div 2^f.s)
      z == (softfloat_estimateDiv128To64(f, sigA, sigZ32 * 2^h) + sigZ32 * 2^(h - 2)) % 2^w
      c == Corrected(z, sigA * 2^w - z * z, 1, 0, 2)
  IN IF Near(z, Half(f), 5) THEN WithSticky(c.z, c.rem # 0) ELSE z

softfloat_sqrt(f, double, a, rm) ==
  LET x == Normalized(f, a)
  IN IF isNaN(f, a) THEN propagateNaN(f, a, 0)
     ELSE IF isZero(f, a) \/ a = Infinity(f) THEN Raise(a, {})
     ELSE IF sign(f, a) = 1 THEN invalid(f)
     ELSE roundPack(f, 0, ((x.exp - Bias(f)) \div 2) + Bias(f) - 1,
                    IF double THEN DoubleRoot(f, x) ELSE FloatRoot(f, x), rm)

f32_sqrt(a, rm) == softfloat_sqrt(S, FALSE, a, rm)
f64_sqrt(a, rm) == softfloat_sqrt(D, TRUE, a, rm)
-----------------------------------------------------------------------------
(* Conversions.  Integers have H and X bits (32 and 64).  On the way to    *)
(* one of H bits a number has some bits of fraction, the lowest of them    *)
(* sticky; on the way to one of X bits the fraction is a word of its own.  *)

FractionBits == 2                   \* 7 and 64: half, and what is below
ToFixed(f, u) ==
  Shift(frac(f, u) + (IF exp(f, u) = 0 THEN 0 ELSE 2^f.s), exp(f, u) - Bias(f) - f.s + FractionBits)
Clamped(sgn, least, greatest) == Raise(IF sgn = 1 /\ least < 0 THEN least ELSE greatest, {"invalid"})
roundPackToInteger(sgn, sig, least, greatest, rm) ==
  LET half == 2^(FractionBits - 1)
      roundBits == sig % 2^FractionBits
      sig32 == EvenTie((sig + roundIncrement(sgn, rm, half)) \div 2^FractionBits, roundBits, half, rm)
      z == IF sgn = 1 THEN -sig32 ELSE sig32
  IN IF z \in least .. greatest THEN Raise(z, IF roundBits = 0 THEN {} ELSE {"inexact"})
     ELSE Clamped(sgn, least, greatest)

\* A NaN is not negative.
to_i32(f, u, rm) ==
  roundPackToInteger(IF isNaN(f, u) THEN 0 ELSE sign(f, u), ToFixed(f, u), -(2^(H-1)), 2^(H-1) - 1, rm)
to_ui32(f, u, rm) == roundPackToInteger(sign(f, u), ToFixed(f, u), 0, 2^H - 1, rm)
\* Too large at first sight: all with the greatest exponent are.
TooLarge(f, u) == exp(f, u) = MaxExp(f) \/ exp(f, u) > Bias(f) + X - 1
to_i64(f, u, rm) ==
  IF TooLarge(f, u)
  THEN Clamped(IF isNaN(f, u) THEN 0 ELSE sign(f, u), -(2^(X-1)), 2^(X-1) - 1)
  ELSE roundPackToInteger(sign(f, u), ToFixed(f, u), -(2^(X-1)), 2^(X-1) - 1, rm)
to_ui64(f, u, rm) ==
  IF TooLarge(f, u) THEN Clamped(0, 0, 2^X - 1)
  ELSE roundPackToInteger(sign(f, u), ToFixed(f, u), 0, 2^X - 1, rm)

f32_to_i32(a, rm) == to_i32(S, a, rm)
f32_to_ui32(a, rm) == to_ui32(S, a, rm)
f32_to_i64(a, rm) == to_i64(S, a, rm)
f32_to_ui64(a, rm) == to_ui64(S, a, rm)
f64_to_i32(a, rm) == to_i32(D, a, rm)
f64_to_ui32(a, rm) == to_ui32(D, a, rm)
f64_to_i64(a, rm) == to_i64(D, a, rm)
f64_to_ui64(a, rm) == to_ui64(D, a, rm)

\* An integer has its leading bit brought to the place of a significand's.
FromSigned(f, i, rm) ==
  IF i = 0 THEN zero(f, 0)
  ELSE normRoundPack(f, IF i < 0 THEN 1 ELSE 0, Bias(f) + Width(f) - 3, IF i < 0 THEN -i ELSE i, rm)
i32_to_f32(i, rm) == FromSigned(S, i, rm)
ui32_to_f32(i, rm) == FromSigned(S, i, rm)
i64_to_f32(i, rm) == FromSigned(S, i, rm)
ui64_to_f32(i, rm) == FromSigned(S, i, rm)
i32_to_f64(i, rm) == FromSigned(D, i, rm)
ui32_to_f64(i, rm) == FromSigned(D, i, rm)
i64_to_f64(i, rm) == FromSigned(D, i, rm)
ui64_to_f64(i, rm) == FromSigned(D, i, rm)

\* A NaN keeps its sign only.
commonNaN(f, g, u) ==
  Raise(packToUI(g, sign(f, u), 2^g.e - 1, 2^g.s - 1), IF isSigNaN(f, u) THEN {"invalid"} ELSE {})
f32_to_f64(a) ==
  IF isNaN(S, a) THEN commonNaN(S, D, a)
  ELSE IF isInf(S, a) THEN infinity(D, sign(S, a))
  ELSE IF isZero(S, a) THEN zero(D, sign(S, a))
  ELSE LET x == Normalized(S, a)
       IN Raise(packToUI(D, sign(S, a), x.exp - 1 + Bias(D) - Bias(S), x.sig * 2^(D.s - S.s)), {})
\* The fraction comes to the place of float's, and the leading bit is put before
\* it: of a number below double's normal ones too, which is below all of float.
f64_to_f32(a, rm) ==
  LET sig32 == Shift(frac(D, a), S.s + GuardBits(S) - D.s)
  IN IF isNaN(D, a) THEN commonNaN(D, S, a)
     ELSE IF isInf(D, a) THEN infinity(S, sign(D, a))
     ELSE IF exp(D, a) = 0 /\ sig32 = 0 THEN zero(S, sign(D, a))
     ELSE roundPack(S, sign(D, a), exp(D, a) - (Bias(D) - Bias(S) + 1), Lead(S) + sig32, rm)
-----------------------------------------------------------------------------
(* Comparisons of the patterns.                                            *)

\* NaNs: a quiet comparison minds signaling ones only.
Compared(f, a, b, quiet, ordered) ==
  IF isNaN(f, a) \/ isNaN(f, b)
  THEN Raise(0, IF ~quiet \/ isSigNaN(f, a) \/ isSigNaN(f, b) THEN {"invalid"} ELSE {})
  ELSE Raise(IF ordered THEN 1 ELSE 0, {})
BothZero(f, a, b) == isZero(f, a) /\ isZero(f, b)
softfloat_eq(f, a, b) == Compared(f, a, b, TRUE, a = b \/ BothZero(f, a, b))
softfloat_le(f, a, b, quiet) ==
  Compared(f, a, b, quiet,
           IF sign(f, a) # sign(f, b) THEN sign(f, a) = 1 \/ BothZero(f, a, b)
           ELSE a = b \/ (sign(f, a) = 1) # (a < b))
softfloat_lt(f, a, b, quiet) ==
  Compared(f, a, b, quiet,
           IF sign(f, a) # sign(f, b) THEN sign(f, a) = 1 /\ ~BothZero(f, a, b)
           ELSE a # b /\ (sign(f, a) = 1) # (a < b))

f32_eq(a, b) == softfloat_eq(S, a, b)
f64_eq(a, b) == softfloat_eq(D, a, b)
f32_le(a, b) == softfloat_le(S, a, b, FALSE)
f64_le(a, b) == softfloat_le(D, a, b, FALSE)
f32_lt(a, b) == softfloat_lt(S, a, b, FALSE)
f64_lt(a, b) == softfloat_lt(D, a, b, FALSE)
f32_le_quiet(a, b) == softfloat_le(S, a, b, TRUE)
f64_le_quiet(a, b) == softfloat_le(D, a, b, TRUE)
f32_lt_quiet(a, b) == softfloat_lt(S, a, b, TRUE)
f64_lt_quiet(a, b) == softfloat_lt(D, a, b, TRUE)

\* One bit of ten, from minus infinity to infinity and the two NaNs.
classify(f, u) ==
  LET kind == IF isInf(f, u) THEN 0 ELSE IF exp(f, u) # 0 THEN 1 ELSE IF frac(f, u) # 0 THEN 2 ELSE 3
  IN 2^(IF isNaN(f, u) THEN (IF isSigNaN(f, u) THEN 8 ELSE 9)
        ELSE IF sign(f, u) = 1 THEN kind ELSE 7 - kind)
f32_classify(u) == classify(S, u)
f64_classify(u) == classify(D, u)
=============================================================================
