------------------------------ MODULE Numbers ------------------------------
(***************************************************************************)
(* The arithmetic of Uncil numbers (uarithm.c).  An integer has W bits.  A *)
(* float stands for an exact rational <<n, d>>, in lowest terms with d > 0; *)
(* rounding is left out.  <<0, 0>> is not a number.                        *)
(***************************************************************************)
EXTENDS Integers

CONSTANT W   \* the width of Unc_Int

ASSUME WAssumption == W \in Nat /\ W > 2 /\ W % 2 = 0

MaxInt == 2^(W - 1) - 1
MinInt == -(2^(W - 1))

(* What two's complement keeps of a number, as signed and as unsigned. *)
Wrap(n) == ((n - MinInt) % 2^W) + MinInt
Unsigned(n) == n % 2^W

Magnitude(n) == IF n < 0 THEN -n ELSE n

(* / and % of C, which cut toward zero. *)
Quotient(a, b) ==
  LET q == Magnitude(a) \div Magnitude(b) IN IF (a < 0) = (b < 0) THEN q ELSE -q
Remainder(a, b) == a - (b * Quotient(a, b))

Shiftl2(a, b) == IF b >= W THEN 0 ELSE Wrap(a * 2^b)
Shiftr2(a, b) == IF b >= W THEN IF a < 0 THEN -1 ELSE 0 ELSE a \div 2^b
Shiftl(a, b) == IF b < 0 THEN Shiftr2(a, Unsigned(-b)) ELSE Shiftl2(a, b)
Shiftr(a, b) == IF b < 0 THEN Shiftl2(a, Unsigned(-b)) ELSE Shiftr2(a, b)

(* Zero counts as a number that cannot be negated. *)
Negovf(a) == (a >= 0) # (Wrap(-a) < 0)

Addovf(a, b) == IF b < 0 THEN a < MinInt - b ELSE a > MaxInt - b
Subovf(a, b) == IF b < 0 THEN a > MaxInt + b ELSE a < MinInt + b

(* The test for two factors that are both large compares signed numbers, so  *)
(* that two large numbers of which one is negative are only tested by the    *)
(* halves of the product and by what is left of it in W bits; the bound for  *)
(* a product of numbers of one sign is one more than the smallest number.    *)
Mulovf(a, b) ==
  LET half == 2^(W \div 2)
      x == Magnitude(a)
      y == Magnitude(b)
  IN IF a = 0 \/ b = 0 THEN FALSE
     ELSE IF a = MinInt THEN b # 1
     ELSE IF b = MinInt THEN a # 1
     ELSE \/ a >= half /\ b >= half
          \/ Unsigned((x \div half) * (y % half)) >= half
          \/ Unsigned((x % half) * (y \div half)) >= half
          \/ Unsigned(x * y) > (IF (a < 0) # (b < 0) THEN Unsigned(-MinInt)
                                                     ELSE Unsigned(-MaxInt))

(* unc0_iidiv: the quotient is lowered only when the dividend is negative. *)
Iidiv(a, b) ==
  LET q == Quotient(a, b) IN q - (IF q * b # a /\ a < 0 THEN 1 ELSE 0)

Imod(a, b) == Remainder(Wrap(Remainder(a, b) + b), b)

-----------------------------------------------------------------------------
(* Floats *)

NaN == <<0, 0>>

RECURSIVE Gcd(_, _)
Gcd(a, b) == IF b = 0 THEN a ELSE Gcd(b, a % b)

Ratio(n, d) ==
  IF d = 0 THEN NaN
  ELSE LET g == Gcd(Magnitude(n), Magnitude(d))
           s == IF d < 0 THEN -1 ELSE 1
       IN <<s * (n \div g), s * (d \div g)>>

Float(n) == <<n, 1>>

AddFloat(p, q) == Ratio(p[1] * q[2] + q[1] * p[2], p[2] * q[2])
NegFloat(p) == <<-p[1], p[2]>>
SubFloat(p, q) == AddFloat(p, NegFloat(q))
MulFloat(p, q) == Ratio(p[1] * q[1], p[2] * q[2])
DivFloat(p, q) == IF q[2] = 0 THEN NaN ELSE Ratio(p[1] * q[2], p[2] * q[1])
Floor(p) == IF p = NaN THEN NaN ELSE Float(p[1] \div p[2])

Fidiv(p, q) == Floor(DivFloat(p, q))
Fmod(p, q) == SubFloat(p, MulFloat(Fidiv(p, q), q))

LessFloat(p, q) == p # NaN /\ q # NaN /\ p[1] * q[2] < q[1] * p[2]
EqualFloat(p, q) == p = q /\ p # NaN
=============================================================================
