----------------------------- MODULE FloatDigits ----------------------------
(***************************************************************************)
(* The digit half of to_chars.hpp: Grisu2, which finds a short decimal     *)
(* number that reads back as the given float.  The code fixes the widths   *)
(* (q = 64, p = 24 or 53, a window of 28 binary exponents, a power of ten  *)
(* every 8); here they are constants in the same relation to one another,  *)
(* and the table of powers is computed instead of listed.                  *)
(***************************************************************************)
EXTENDS Integers, Sequences

CONSTANTS
  Q,          (* kPrecision of diyfp, in bits                              *)
  P,          (* numeric_limits<FloatType>::digits                         *)
  Bias,       (* kBias                                                     *)
  Alpha, Gamma,
  MinDecExp, MaxDecExp, DecStep

ASSUME FloatAssumption ==
  /\ P \in Nat \ {0} /\ Q >= P + 3
  /\ -(Q - 4) <= Alpha /\ Alpha <= Gamma /\ Gamma < 0
  /\ DecStep \in Nat \ {0} /\ MinDecExp <= MaxDecExp

-----------------------------------------------------------------------------
(* diyfp: f * 2^e *)

Diyfp(f, e) == [f |-> f, e |-> e]

(* Rounded to the upper Q bits, ties up.                                   *)
Mul(x, y) == Diyfp((x.f * y.f + 2 ^ (Q - 1)) \div 2 ^ Q, x.e + y.e + Q)

RECURSIVE Normalize(_)
Normalize(x) == IF x.f >= 2 ^ (Q - 1) THEN x ELSE Normalize(Diyfp(2 * x.f, x.e - 1))

NormalizeTo(x, e) == Diyfp(x.f * 2 ^ (x.e - e), e)

-----------------------------------------------------------------------------
(* The float with biased exponent E and fraction F, and the bounds of what *)
(* rounds to it.                                                           *)

Value(E, F) ==
  IF E = 0 THEN Diyfp(F, 1 - Bias) ELSE Diyfp(F + 2 ^ (P - 1), E - Bias)

MPlus(E, F) == LET v == Value(E, F) IN Diyfp(2 * v.f + 1, v.e - 1)

MMinus(E, F) ==
  LET v == Value(E, F)
  IN  IF F = 0 /\ E > 1 THEN Diyfp(4 * v.f - 1, v.e - 2)
      ELSE Diyfp(2 * v.f - 1, v.e - 1)

ComputeBoundaries(E, F) ==
  LET plus == Normalize(MPlus(E, F))
  IN  [w |-> Normalize(Value(E, F)), plus |-> plus,
       minus |-> NormalizeTo(MMinus(E, F), plus.e)]

-----------------------------------------------------------------------------
(* Division of the code: towards zero.                                     *)
Quotient(a, b) == IF a >= 0 THEN a \div b ELSE -((-a) \div b)

(* An entry of kCachedPowers: 10^k in Q bits, rounded to the nearest.      *)
CachedEntry(k) ==
  LET normal(n) == 2 ^ (Q - 1) <= n /\ n < 2 ^ Q
      nearest(n, d) == (2 * n + d) \div (2 * d)
      down == CHOOSE s \in 0 .. 30 : normal(2 ^ s \div 10 ^ (-k))
      up == CHOOSE s \in 0 .. 30 : normal(10 ^ k \div 2 ^ s)
      entry == CASE k < 0 -> Diyfp(nearest(2 ^ down, 10 ^ (-k)), -down)
                 [] k >= 0 /\ 10 ^ k < 2 ^ Q -> Normalize(Diyfp(10 ^ k, 0))
                 [] OTHER -> Diyfp(nearest(10 ^ k, 2 ^ up), up)
  IN  [f |-> entry.f, e |-> entry.e, k |-> k]

CachedPower(e) ==
  LET f == Alpha - e - 1
      k == Quotient(f * 78913, 2 ^ 18) + (IF f > 0 THEN 1 ELSE 0)
      index == Quotient(k - MinDecExp + DecStep - 1, DecStep)
  IN  CachedEntry(MinDecExp + index * DecStep)

(* [k, pow10] with pow10 = 10^(k-1) <= n < 10^k.                           *)
RECURSIVE FindLargestPow10(_)
FindLargestPow10(n) ==
  IF n < 10 THEN [k |-> 1, pow10 |-> 1]
  ELSE LET r == FindLargestPow10(n \div 10) IN [k |-> r.k + 1, pow10 |-> 10 * r.pow10]

-----------------------------------------------------------------------------
(* grisu2_round: the last digit, while a smaller one is closer to w.       *)
RECURSIVE Round(_, _, _, _, _)
Round(digits, dist, delta, rest, tenK) ==
  IF /\ rest < dist /\ delta - rest >= tenK
     /\ rest + tenK < dist \/ dist - rest > rest + tenK - dist
  THEN Round([digits EXCEPT ![Len(digits)] = @ - 1], dist, delta, rest + tenK, tenK)
  ELSE digits

(* The loop for the fraction p2, whose unit is one.  "overflow" and the    *)
(* other failed assertions of the code end in a digit no reader accepts.   *)
RECURSIVE FractionDigits(_, _, _, _, _, _)
FractionDigits(digits, exp, p2, dist, delta, one) ==
  LET next == Append(digits, (10 * p2) \div one)
      r == (10 * p2) % one
  IN  CASE 10 * p2 >= 2 ^ Q -> [digits |-> <<10>>, exp |-> 0]
        [] r <= 10 * delta ->
             [digits |-> Round(next, 10 * dist, 10 * delta, r, one), exp |-> exp - 1]
        [] OTHER -> FractionDigits(next, exp - 1, r, 10 * dist, 10 * delta, one)

(* The loop for the integral part p1, of which n digits are left.          *)
RECURSIVE IntegralDigits(_, _, _, _, _, _, _, _, _)
IntegralDigits(digits, exp, p1, n, pow10, p2, dist, delta, one) ==
  LET next == Append(digits, p1 \div pow10)
      r == p1 % pow10
      rest == r * one + p2
  IN  CASE n = 0 -> IF p2 > delta THEN FractionDigits(digits, exp, p2, dist, delta, one)
                    ELSE [digits |-> <<10>>, exp |-> 0]
        [] n > 0 /\ rest <= delta ->
             [digits |-> Round(next, dist, delta, rest, pow10 * one), exp |-> exp + n - 1]
        [] OTHER -> IntegralDigits(next, exp, r, n - 1, pow10 \div 10, p2, dist, delta, one)

(* The digits of mPlus from the left, until they are above mMinus.         *)
DigitGen(exp, mMinus, w, mPlus) ==
  LET one == 2 ^ (-mPlus.e)
      p1 == mPlus.f \div one
      first == FindLargestPow10(p1)
  IN  IntegralDigits(<<>>, exp, p1, first.k, first.pow10, mPlus.f % one,
                     mPlus.f - w.f, mPlus.f - mMinus.f, one)

(* Mutant: the products are taken for exact.                               *)
Grisu2Exact(E, F) ==
  LET b == ComputeBoundaries(E, F)
      cached == CachedPower(b.plus.e)
      scaled(x) == Mul(x, Diyfp(cached.f, cached.e))
  IN  DigitGen(-cached.k, scaled(b.minus), scaled(b.w), scaled(b.plus))

(* Both scaled bounds are taken in by the unit the products may be off.    *)
Grisu2(E, F) ==
  LET b == ComputeBoundaries(E, F)
      cached == CachedPower(b.plus.e)
      scaled(x) == Mul(x, Diyfp(cached.f, cached.e))
  IN  DigitGen(-cached.k, Diyfp(scaled(b.minus).f + 1, scaled(b.minus).e), scaled(b.w),
               Diyfp(scaled(b.plus).f - 1, scaled(b.plus).e))
=============================================================================
