------------------------------ MODULE Floating ------------------------------
(***************************************************************************)
(* The floating option of the Mitra-15: numbers of a sign, a characteristic *)
(* (the exponent of Radix plus Bias) and a mantissa of Digits digits, kept  *)
(* in E and A, negative ones as the two's complement of the double word.    *)
(* The code goes through the host's double, which is wide enough to be      *)
(* taken here for the exact number; num / den * Radix^exp stands for it.    *)
(***************************************************************************)
EXTENDS Operations

CONSTANTS
  DigitBits,  \* 4 in the code
  Digits,     \* 6 in the code
  Bias        \* 64 in the code

Power(k) == 2^(DigitBits * k)
Radix == Power(1)  \* 16 in the code
Fraction == Power(Digits)

ASSUME FloatingAssumption ==
  /\ DigitBits \in Nat \ {0}
  /\ Digits \in Nat \ {0}
  /\ Bias \in Nat \ {0}
  /\ 4 * Bias * Fraction = Modulus * Modulus

Doubles == Modulus * Modulus
Opposite(raw) == (-raw) % Doubles
IsNegative(raw) == 2 * raw >= Doubles

\* Mutant: a negative number is read as it is.
double_of_magnitude(raw) ==
  [num |-> IF IsNegative(raw) THEN -(raw % Fraction) ELSE raw % Fraction,
   den |-> Fraction,
   exp |-> ((raw \div Fraction) % (2 * Bias)) - Bias]

mitra_to_double(raw) ==
  LET magnitude == IF IsNegative(raw) THEN Opposite(raw) ELSE raw
      mantissa == magnitude % Fraction
  IN  [num |-> IF IsNegative(raw) THEN -mantissa ELSE mantissa,
       den |-> Fraction,
       exp |-> ((magnitude \div Fraction) % (2 * Bias)) - Bias]

Absolute(n) == IF n < 0 THEN -n ELSE n
Raised(n, k) == IF k >= 0 THEN n * Power(k) ELSE n

\* Whether the magnitude of v is below Radix^k times Radix^v.exp.
Below(v, k) == Raised(Absolute(v.num), -k) < Raised(v.den, k)

\* The number of digits before the point: |v| is in Radix^(k - 1)..Radix^k.
Magnitude(v) ==
  CHOOSE k \in -2 * Digits..2 * (Digits + Bias) : Below(v, k) /\ ~Below(v, k - 1)

\* Mutant: a rounding that carries out of the mantissa keeps the exponent.
encode_without_carry(mantissa, e) == [mantissa |-> mantissa % Fraction, e |-> e]

\* A mantissa that rounds up to 1 is written as 1 / Radix with one more in e.
Carried(mantissa, e) ==
  IF mantissa >= Fraction
    THEN [mantissa |-> Fraction \div Radix, e |-> e + 1]
    ELSE [mantissa |-> mantissa, e |-> e]

FpStatus == {"MITRA_FP_OK", "MITRA_FP_ZERO", "MITRA_FP_UNDERFLOW",
             "MITRA_FP_OVERFLOW"}

double_to_mitra(v) ==
  LET k == Magnitude(v)
      num == Raised(Absolute(v.num), -k)
      den == Raised(v.den, k)
      rounded == (2 * num * Fraction + den) \div (2 * den)
      c == Carried(rounded, k + v.exp)
      raw == (c.e + Bias) * Fraction + c.mantissa
  IN  IF v.num = 0 THEN [raw |-> 0, status |-> "MITRA_FP_ZERO"]
      ELSE IF k + v.exp + Bias <= 0
             THEN [raw |-> 0, status |-> "MITRA_FP_UNDERFLOW"]
      ELSE IF c.e + Bias >= 2 * Bias - 1
             THEN [raw |-> 0, status |-> "MITRA_FP_OVERFLOW"]
      ELSE [raw |-> IF v.num < 0 THEN Opposite(raw) ELSE raw,
            status |-> "MITRA_FP_OK"]

set_condition_codes_float(r, status) ==
  [r EXCEPT !.C = Test(status \in {"MITRA_FP_ZERO", "MITRA_FP_UNDERFLOW"}),
            !.OV = Test(status \in {"MITRA_FP_OVERFLOW", "MITRA_FP_UNDERFLOW"})]

Sum(a, b) ==
  LET exp == Min({a.exp, b.exp})
  IN  [num |-> Raised(a.num, a.exp - exp) + Raised(b.num, b.exp - exp),
       den |-> Fraction, exp |-> exp]

Product(a, b) ==
  [num |-> a.num * b.num, den |-> a.den * b.den, exp |-> a.exp + b.exp]

Ratio(a, b) ==
  [num |-> IF b.num < 0 THEN -a.num ELSE a.num, den |-> Absolute(b.num),
   exp |-> a.exp - b.exp]

FloatOperations == {"FAD", "FSU", "FMU", "FDV"}

Combined(op, a, b) ==
  CASE op = "FAD" -> Sum(a, b)
    [] op = "FSU" -> Sum(a, [b EXCEPT !.num = -@])
    [] op = "FMU" -> Product(a, b)
    [] op = "FDV" -> Ratio(a, b)

\* A division by zero leaves everything as it is.
floating_inst(op, r, m) ==
  LET a == mitra_to_double(Double(r))
      b == mitra_to_double(m)
      result == double_to_mitra(Combined(op, a, b))
  IN  IF op = "FDV" /\ b.num = 0
        THEN r
        ELSE set_condition_codes_float(
               [r EXCEPT !.E = result.raw \div Modulus,
                         !.A = result.raw % Modulus], result.status)

=============================================================================
