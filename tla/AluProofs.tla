------------------------------ MODULE AluProofs ------------------------------
(***************************************************************************)
(* What the arithmetic of Alu computes, for every width of a word, every    *)
(* operand and every count: the properties MCAlu checks on words of 4 bits. *)
(* TypeOK is inductive; every other property is a fact about the registers  *)
(* of one state, proved from their type alone (the lemmas ...InType). The   *)
(* shifts, NLZ and PTY go by induction on the positions, the floating       *)
(* option through the exact numbers that Floating computes with.            *)
(***************************************************************************)
EXTENDS Alu, OperationsProofs

----------------------------------------------------------------------------
(* Floating numbers. *)

\* A double word in two words.
LEMMA TwoWords ==
  ASSUME NEW raw \in 0..Doubles - 1
  PROVE  /\ raw \div Modulus \in Word /\ raw % Modulus \in Word
         /\ (raw \div Modulus) * Modulus + (raw % Modulus) = raw
<1> DEFINE M == Modulus
           q == raw \div M
<1>1. M \in Nat \ {0} /\ raw \in Nat /\ raw < M * M
  BY Sizes DEF Doubles
<1>2. Word = 0..M - 1
  BY DEF Word
<1> HIDE DEF M
<1>3. q \in Nat /\ q * M <= raw /\ raw % M \in 0..M - 1 /\ q * M + (raw % M) = raw
  <2>1. q \in Nat /\ raw % M \in 0..M - 1
    BY <1>1
  <2>2. q * M + (raw % M) = raw
    BY <1>1
  <2> HIDE DEF q
  <2>3. q * M \in Int
    BY <1>1, <2>1
  <2> QED  BY <1>1, <2>1, <2>2, <2>3
<1> HIDE DEF q
<1>4. q < M
  <2> SUFFICES ASSUME q >= M PROVE FALSE
    BY <1>1, <1>3
  <2>1. q * M >= M * M
    BY <1>1, <1>3
  <2>2. q * M \in Int /\ M * M \in Int
    BY <1>1, <1>3
  <2> QED  BY <1>1, <1>3, <2>1, <2>2
<1> QED  BY <1>1, <1>2, <1>3, <1>4 DEF q, M

\* The powers of the radix: positive, in order, a sum of exponents multiplies.
LEMMA RadixPowers ==
  /\ Power(0) = 1
  /\ \A k \in Nat : Power(k) \in Nat \ {0}
  /\ \A j, k \in Nat : Power(j + k) = Power(j) * Power(k)
  /\ \A j, k \in Nat : j <= k => Power(j) <= Power(k)
  /\ Radix \in Nat /\ Radix >= 2
  /\ Fraction \in Nat /\ Fraction >= 2
<1>1. DigitBits \in Nat \ {0} /\ Digits \in Nat \ {0}
  BY FloatingAssumption
<1>2. \A k \in Nat : DigitBits * k \in Nat
  BY <1>1
<1>3. Power(0) = 1
  <2>1. DigitBits * 0 = 0
    BY <1>1
  <2> QED  BY <2>1, Powers DEF Power
<1>4. \A k \in Nat : Power(k) \in Nat \ {0}
  BY <1>2, Powers DEF Power
<1>5. ASSUME NEW j \in Nat, NEW k \in Nat PROVE Power(j + k) = Power(j) * Power(k)
  <2>1. DigitBits * (j + k) = DigitBits * j + DigitBits * k
    BY <1>1
  <2> QED  BY <1>2, <2>1, PowerOfSum DEF Power
<1>6. ASSUME NEW j \in Nat, NEW k \in Nat, j <= k PROVE Power(j) <= Power(k)
  <2>1. k - j \in Nat /\ j + (k - j) = k
    BY <1>6
  <2>2. Power(k) = Power(j) * Power(k - j)
    BY <1>5, <2>1
  <2>3. Power(j) \in Nat \ {0} /\ Power(k - j) \in Nat \ {0}
    BY <1>4, <2>1
  <2> QED  BY <2>2, <2>3
<1>7. Power(1) >= 2
  <2>1. DigitBits - 1 \in Nat /\ DigitBits * 1 = (DigitBits - 1) + 1
    BY <1>1
  <2> DEFINE n == DigitBits - 1
  <2>2. Power(1) = 2^(n + 1)
    BY <2>1 DEF Power
  <2>3. n \in Nat
    BY <2>1
  <2> HIDE DEF n
  <2> QED  BY <2>2, <2>3, Powers
<1>8. Power(1) <= Power(Digits)
  BY <1>1, <1>6
<1> QED  BY <1>1, <1>3, <1>4, <1>5, <1>6, <1>7, <1>8 DEF Radix, Fraction

\* The exact numbers that the operations of the option make.
Computed(v) ==
  /\ v.num \in Int
  /\ v.exp \in Int
  /\ v.den \in Nat \ {0}
  /\ v.den <= Power(2 * Digits)
  /\ Absolute(v.num) < Power(2 * (Digits + Bias))

LEMMA Bounds ==
  /\ Digits \in Nat \ {0} /\ Bias \in Nat \ {0}
  /\ Power(2 * Digits) \in Nat \ {0}
  /\ Power(2 * (Digits + Bias)) \in Nat \ {0}
  /\ 2 * Digits \in Nat \ {0} /\ 2 * (Digits + Bias) \in Nat \ {0}
<1>1. /\ Digits \in Nat \ {0} /\ Bias \in Nat \ {0}
      /\ 2 * Digits \in Nat \ {0} /\ 2 * (Digits + Bias) \in Nat \ {0}
  BY FloatingAssumption
<1> QED  BY <1>1, RadixPowers

\* Every such number but 0 has a magnitude in the range of the search.
LEMMA MagnitudeFound ==
  ASSUME NEW v, Computed(v), v.num # 0
  PROVE  /\ Magnitude(v) \in Int
         /\ Below(v, Magnitude(v))
         /\ ~Below(v, Magnitude(v) - 1)
<1> DEFINE lo == -2 * Digits
           hi == 2 * (Digits + Bias)
           n == Absolute(v.num)
           S == {k \in Nat : Below(v, lo + k)}
<1>1. lo \in Int /\ hi \in Nat \ {0} /\ lo < 0 /\ -lo = 2 * Digits /\ -lo \in Nat
  BY Bounds
<1>2. n \in Nat \ {0} /\ n < Power(hi)
  BY DEF Computed, Absolute
<1>3. v.den \in Nat \ {0} /\ v.den <= Power(-lo)
  BY <1>1 DEF Computed
<1> HIDE DEF lo, hi, n
<1>4. Below(v, hi)
  <2>1. Raised(n, -hi) = n
    BY <1>1 DEF Raised
  <2>2. Raised(v.den, hi) = v.den * Power(hi)
    BY <1>1 DEF Raised
  <2>3. Power(hi) \in Nat \ {0}
    BY <1>1, RadixPowers
  <2>4. v.den * Power(hi) \in Nat /\ v.den * Power(hi) >= Power(hi)
    BY <1>3, <2>3, Products
  <2> QED  BY <1>2, <2>1, <2>2, <2>3, <2>4 DEF Below, n
<1>5. ~Below(v, lo)
  <2>1. Raised(n, -lo) = n * Power(-lo)
    BY <1>1 DEF Raised
  <2>2. Raised(v.den, lo) = v.den
    BY <1>1 DEF Raised
  <2>3. Power(-lo) \in Nat \ {0}
    BY <1>1, RadixPowers
  <2>4. n * Power(-lo) \in Nat /\ n * Power(-lo) >= Power(-lo)
    BY <1>2, <2>3, Products
  <2> QED  BY <1>3, <2>1, <2>2, <2>3, <2>4 DEF Below, n
<1>6. PICK m \in S : \A k \in S : m <= k
  <2>1. hi - lo \in Nat /\ lo + (hi - lo) = hi
    BY <1>1
  <2>2. hi - lo \in S
    BY <1>4, <2>1
  <2>3. S \in SUBSET Nat
    OBVIOUS
  <2> HIDE DEF S
  <2> QED  BY <2>2, <2>3, Minimum
<1>7. m # 0
  <2>1. lo + 0 = lo
    BY <1>1
  <2> QED  BY <1>5, <1>6, <2>1
<1>8. lo + m \in lo..hi
  <2>1. hi - lo \in S
    <3>1. hi - lo \in Nat /\ lo + (hi - lo) = hi
      BY <1>1
    <3> QED  BY <1>4, <3>1
  <2>2. m <= hi - lo /\ m \in Nat
    BY <1>6, <2>1
  <2> QED  BY <1>1, <2>2
<1>9. Below(v, lo + m) /\ ~Below(v, (lo + m) - 1)
  <2>1. m - 1 \in Nat /\ lo + (m - 1) = (lo + m) - 1
    BY <1>1, <1>6, <1>7
  <2>2. m - 1 \notin S
    BY <1>6, <2>1
  <2> QED  BY <1>6, <2>1, <2>2
<1>10. Magnitude(v) = CHOOSE k \in lo..hi : Below(v, k) /\ ~Below(v, k - 1)
  BY DEF Magnitude, lo, hi
<1>11. /\ Magnitude(v) \in lo..hi
       /\ Below(v, Magnitude(v)) /\ ~Below(v, Magnitude(v) - 1)
  BY <1>8, <1>9, <1>10
<1> QED  BY <1>1, <1>11

\* A number between Radix^(k - 1) and Radix^k has a mantissa that rounds to at
\* most one, and to at least the first digit.
LEMMA MantissaRounds ==
  ASSUME NEW num \in Nat, NEW den \in Nat \ {0}, num < den
  PROVE  (2 * num * Fraction + den) \div (2 * den) \in 0..Fraction
<1> DEFINE F == Fraction
           x == 2 * num * F + den
           d == 2 * den
           q == x \div d
<1>1. F \in Nat \ {0}
  BY RadixPowers
<1> HIDE DEF F
<1>2. x \in Nat /\ d \in Nat \ {0}
  <2>1. num * F \in Nat
    BY <1>1
  <2>2. 2 * num * F = 2 * (num * F)
    BY <1>1
  <2> QED  BY <2>1, <2>2
<1>3. x < (F + 1) * d
  <2>1. num * F <= den * F
    BY <1>1
  <2>2. (F + 1) * d = 2 * (den * F) + 2 * den /\ 2 * num * F = 2 * (num * F)
        /\ den * F \in Nat /\ num * F \in Nat
    BY <1>1
  <2> QED  BY <2>1, <2>2
<1> HIDE DEF x, d
<1>4. q \in Nat /\ q * d <= x
  BY <1>2
<1> HIDE DEF q
<1>5. q <= F
  <2> SUFFICES ASSUME q >= F + 1 PROVE FALSE
    BY <1>1, <1>4
  <2>1. q * d >= (F + 1) * d
    BY <1>1, <1>2, <1>4
  <2> QED  BY <1>1, <1>2, <1>3, <1>4, <2>1
<1> QED  BY <1>1, <1>4, <1>5 DEF q, x, d, F

\* What double_to_mitra writes is a double word.
LEMMA RawType ==
  ASSUME NEW v, Computed(v)
  PROVE  double_to_mitra(v).raw \in 0..Doubles - 1
<1> DEFINE k == Magnitude(v)
           num == Raised(Absolute(v.num), -k)
           den == Raised(v.den, k)
           rounded == (2 * num * Fraction + den) \div (2 * den)
           c == Carried(rounded, k + v.exp)
           raw == (c.e + Bias) * Fraction + c.mantissa
<1>1. Doubles \in Nat \ {0}
  BY Sizes DEF Doubles
<1>2. CASE v.num = 0
  BY <1>1, <1>2 DEF double_to_mitra
<1>3. CASE v.num # 0
  <2>1. k \in Int /\ num < den
    BY <1>3, MagnitudeFound DEF Below
  <2>2. num \in Nat /\ den \in Nat \ {0}
    <3>1. Absolute(v.num) \in Nat /\ v.den \in Nat \ {0}
      BY DEF Computed, Absolute
    <3>2. \A j \in Int : j >= 0 => Power(j) \in Nat \ {0}
      <4>1. \A j \in Int : j >= 0 => j \in Nat
        OBVIOUS
      <4> QED  BY <4>1, RadixPowers
    <3> DEFINE a == Absolute(v.num)
               d == v.den
    <3>3. \A j \in Int : Raised(a, j) \in Nat /\ Raised(d, j) \in Nat \ {0}
      <4> HIDE DEF a, d
      <4> TAKE j \in Int
      <4>1. CASE j >= 0
        <5>1. Power(j) \in Nat \ {0}
          BY <3>2, <4>1
        <5>2. a * Power(j) \in Nat /\ d * Power(j) \in Nat \ {0}
          BY <3>1, <5>1, Products DEF a, d
        <5> QED  BY <4>1, <5>2 DEF Raised
      <4>2. CASE j < 0
        BY <3>1, <4>2 DEF Raised, a, d
      <4> QED  BY <4>1, <4>2
    <3> HIDE DEF k
    <3> QED  BY <2>1, <3>3
  <2> HIDE DEF k, num, den
  <2>3. rounded \in 0..Fraction
    BY <2>1, <2>2, MantissaRounds
  <2> HIDE DEF rounded
  <2>4. /\ c.mantissa \in 0..Fraction - 1
        /\ c.e \in Int /\ c.e >= k + v.exp
    <3>1. Fraction \div Radix \in 0..Fraction - 1
      <4> DEFINE f == Fraction
                 r == Radix
      <4>1. f \in Nat /\ f >= 2 /\ r \in Nat /\ r >= 2
        BY RadixPowers
      <4> DEFINE q == f \div r
      <4> HIDE DEF f, r
      <4>2. q \in Nat /\ q * r <= f
        BY <4>1
      <4> HIDE DEF q
      <4>3. q < f
        <5>1. q * r >= q * 2
          BY <4>1, <4>2
        <5> QED  BY <4>1, <4>2, <5>1
      <4> QED  BY <4>1, <4>2, <4>3 DEF f, r, q
    <3>2. Fraction \in Nat
      BY RadixPowers
    <3>3. k + v.exp \in Int
      BY <2>1 DEF Computed
    <3> QED  BY <2>3, <3>1, <3>2, <3>3 DEF Carried
  <2> HIDE DEF c
  <2>5. double_to_mitra(v)
          = IF k + v.exp + Bias <= 0
              THEN [raw |-> 0, status |-> "MITRA_FP_UNDERFLOW"]
            ELSE IF c.e + Bias >= 2 * Bias - 1
              THEN [raw |-> 0, status |-> "MITRA_FP_OVERFLOW"]
            ELSE [raw |-> IF v.num < 0 THEN Opposite(raw) ELSE raw,
                  status |-> "MITRA_FP_OK"]
    BY <1>3 DEF double_to_mitra, k, num, den, rounded, c
  <2>6. ASSUME k + v.exp + Bias > 0, c.e + Bias < 2 * Bias - 1
        PROVE  raw \in 0..Doubles - 1
    <3> DEFINE e == c.e + Bias
               F == Fraction
               B == Bias
    <3>1. B \in Nat \ {0} /\ F \in Nat /\ F >= 2
      BY Bounds, RadixPowers
    <3>2. e \in Nat /\ e + 1 <= 4 * B
      BY <2>1, <2>4, <2>6, Bounds DEF Computed
    <3>3. 4 * B * F = Doubles
      BY FloatingAssumption DEF Doubles
    <3>4. raw = e * F + c.mantissa /\ c.mantissa \in 0..F - 1
      BY <2>4
    <3> HIDE DEF e, F, B, raw
    <3>5. e * F + F = (e + 1) * F /\ e * F \in Nat
      BY <3>1, <3>2
    <3>6. (e + 1) * F <= 4 * B * F
      BY <3>1, <3>2
    <3>7. raw \in Nat /\ raw < (e + 1) * F
      BY <3>1, <3>4, <3>5
    <3>8. (e + 1) * F \in Int
      BY <3>1, <3>2
    <3> QED  BY <1>1, <3>3, <3>6, <3>7, <3>8
  <2> HIDE DEF raw
  <2>7. ASSUME raw \in 0..Doubles - 1 PROVE Opposite(raw) \in 0..Doubles - 1
    BY <1>1, <2>7 DEF Opposite
  <2>8. k + v.exp + Bias \in Int /\ c.e + Bias \in Int /\ 2 * Bias - 1 \in Int
    BY <2>1, <2>4, Bounds DEF Computed
  <2> QED  BY <1>1, <2>5, <2>6, <2>7, <2>8
<1> QED  BY <1>2, <1>3

\* What a double word is read as.
Readable(v) ==
  /\ v \in [num : Int, den : {Fraction}, exp : -Bias..Bias - 1]
  /\ Absolute(v.num) < Fraction

LEMMA ReadType ==
  ASSUME NEW raw \in Int
  PROVE  Readable(mitra_to_double(raw))
<1> DEFINE g == IF IsNegative(raw) THEN Opposite(raw) ELSE raw
           s == g % Fraction
           n == IF IsNegative(raw) THEN -s ELSE s
           x == ((g \div Fraction) % (2 * Bias)) - Bias
<1>1. Fraction \in Nat \ {0} /\ Bias \in Nat \ {0} /\ Doubles \in Nat \ {0}
  BY RadixPowers, Bounds, Sizes DEF Doubles
<1>2. g \in Int
  BY <1>1 DEF Opposite
<1>3. mitra_to_double(raw) = [num |-> n, den |-> Fraction, exp |-> x]
  BY DEF mitra_to_double
<1> HIDE DEF g
<1>4. s \in 0..Fraction - 1
  BY <1>1, <1>2
<1>5. x \in -Bias..Bias - 1
  <2> DEFINE y == g \div Fraction
  <2>1. y \in Int
    BY <1>1, <1>2
  <2> HIDE DEF y
  <2>2. y % (2 * Bias) \in 0..2 * Bias - 1
    BY <1>1, <2>1
  <2> QED  BY <1>1, <2>2 DEF y
<1> HIDE DEF x, s
<1>6. n \in Int /\ Absolute(n) < Fraction
  BY <1>1, <1>4 DEF Absolute
<1> HIDE DEF n
<1> QED  BY <1>3, <1>5, <1>6 DEF Readable

\* The limits of Computed in powers of the radix.
LEMMA Limits ==
  /\ Power(2 * Digits) = Fraction * Fraction
  /\ Fraction <= Power(2 * Digits)
  /\ Fraction * Fraction <= Power(2 * (Digits + Bias))
  /\ 2 * (Fraction * Power(2 * Bias - 1)) <= Power(2 * (Digits + Bias))
<1>1. /\ Digits \in Nat \ {0} /\ Bias \in Nat \ {0} /\ 2 * Bias - 1 \in Nat
      /\ 2 * Bias \in Nat /\ 2 * Digits \in Nat /\ 2 * (Digits + Bias) \in Nat
      /\ 2 * Digits = Digits + Digits
      /\ 2 * (Digits + Bias) = Digits + (Digits + 2 * Bias)
      /\ Digits + 2 * Bias \in Nat
      /\ 2 * Bias = 1 + (2 * Bias - 1)
  BY Bounds
<1>2. Power(2 * Digits) = Fraction * Fraction
  BY <1>1, RadixPowers DEF Fraction
<1>3. Fraction <= Power(2 * Digits)
  <2>1. Digits <= 2 * Digits
    BY <1>1
  <2> QED  BY <1>1, <2>1, RadixPowers DEF Fraction
<1>4. Power(2 * Digits) <= Power(2 * (Digits + Bias))
  <2>1. 2 * Digits <= 2 * (Digits + Bias)
    BY <1>1
  <2> QED  BY <1>1, <2>1, RadixPowers
<1>5. 2 * (Fraction * Power(2 * Bias - 1)) <= Power(2 * (Digits + Bias))
  <2> DEFINE F == Fraction
             h == Power(2 * Bias - 1)
             w == Power(2 * Bias)
             d == Power(Digits + 2 * Bias)
  <2>1. w = Radix * h /\ Radix >= 2 /\ Radix \in Nat /\ h \in Nat /\ w \in Nat
    <3>1. 1 \in Nat
      OBVIOUS
    <3>2. Power(1 + (2 * Bias - 1)) = Power(1) * h
      BY <1>1, <3>1, RadixPowers
    <3> QED  BY <1>1, <3>2, RadixPowers DEF Radix
  <2>2. d = F * w /\ d \in Nat /\ F \in Nat
    BY <1>1, RadixPowers DEF Fraction
  <2>3. d <= Power(2 * (Digits + Bias)) /\ Power(2 * (Digits + Bias)) \in Nat
    <3>1. Digits + 2 * Bias <= 2 * (Digits + Bias)
      BY <1>1
    <3> QED  BY <1>1, <3>1, RadixPowers
  <2> HIDE DEF F, h, w, d
  <2>4. 2 * h <= w
    <3>1. Radix * h >= 2 * h
      BY <2>1
    <3> QED  BY <2>1, <3>1
  <2>5. F * (2 * h) <= F * w
    BY <2>1, <2>2, <2>4
  <2>6. F * (2 * h) = 2 * (F * h) /\ F * h \in Nat
    BY <2>1, <2>2
  <2> QED  BY <2>2, <2>3, <2>5, <2>6 DEF F, h
<1>6. /\ Fraction \in Nat /\ Power(2 * Digits) \in Nat
      /\ Power(2 * (Digits + Bias)) \in Nat
  BY Bounds, RadixPowers
<1> QED  BY <1>2, <1>3, <1>4, <1>5, <1>6

LEMMA AbsoluteValues ==
  /\ \A x \in Int : Absolute(x) \in Nat /\ Absolute(-x) = Absolute(x)
                   /\ (x # 0 => Absolute(x) # 0)
  /\ \A x, y \in Int : Absolute(x + y) <= Absolute(x) + Absolute(y)
  /\ \A x, y \in Int : x * y \in Int /\ Absolute(x * y) = Absolute(x) * Absolute(y)
<1>1. ASSUME NEW x \in Int, NEW y \in Int
      PROVE  x * y \in Int /\ Absolute(x * y) = Absolute(x) * Absolute(y)
  <2>1. x * y \in Int /\ (-x) * y = -(x * y) /\ x * (-y) = -(x * y)
        /\ (-x) * (-y) = x * y
    OBVIOUS
  <2>2. CASE x >= 0 /\ y >= 0
    <3>1. x * y >= 0
      BY <2>2
    <3> QED  BY <2>1, <2>2, <3>1 DEF Absolute
  <2>3. CASE x < 0 /\ y >= 0
    <3>1. (-x) * y >= 0
      BY <2>3
    <3> QED  BY <2>1, <2>3, <3>1 DEF Absolute
  <2>4. CASE x >= 0 /\ y < 0
    <3>1. x * (-y) >= 0
      BY <2>4
    <3> QED  BY <2>1, <2>4, <3>1 DEF Absolute
  <2>5. CASE x < 0 /\ y < 0
    <3>1. (-x) * (-y) >= 0
      BY <2>5
    <3> QED  BY <2>1, <2>5, <3>1 DEF Absolute
  <2> QED  BY <2>2, <2>3, <2>4, <2>5
<1> QED  BY <1>1 DEF Absolute

LEMMA CombinedType ==
  ASSUME NEW op \in FloatOperations, NEW a, NEW b, Readable(a), Readable(b),
         op = "FDV" => b.num # 0
  PROVE  Computed(Combined(op, a, b))
<1> DEFINE F == Fraction
<1>1. /\ F \in Nat /\ F >= 2 /\ Bias \in Nat \ {0}
      /\ Power(2 * Digits) \in Nat /\ Power(2 * (Digits + Bias)) \in Nat
  BY RadixPowers, Bounds
<1>2. /\ a.num \in Int /\ b.num \in Int /\ -b.num \in Int /\ -a.num \in Int
      /\ Absolute(a.num) < F /\ Absolute(b.num) < F
      /\ Absolute(-a.num) < F /\ Absolute(-b.num) < F
      /\ a.exp \in -Bias..Bias - 1 /\ b.exp \in -Bias..Bias - 1
      /\ a.den = F /\ b.den = F
  <2>1. /\ a.num \in Int /\ b.num \in Int
        /\ Absolute(a.num) < F /\ Absolute(b.num) < F
        /\ a.exp \in -Bias..Bias - 1 /\ b.exp \in -Bias..Bias - 1
        /\ a.den = F /\ b.den = F
    BY DEF Readable
  <2>2. -a.num \in Int /\ -b.num \in Int
    BY <2>1
  <2>3. Absolute(-a.num) = Absolute(a.num) /\ Absolute(-b.num) = Absolute(b.num)
    BY <2>1, AbsoluteValues
  <2> QED  BY <2>1, <2>2, <2>3
<1> HIDE DEF F
<1>3. ASSUME NEW c, c.num \in Int, Absolute(c.num) < F, c.exp = b.exp
      PROVE  Computed(Sum(a, c))
  <2> DEFINE exp == Min({a.exp, c.exp})
             i == a.exp - exp
             j == c.exp - exp
             H == Power(2 * Bias - 1)
             x == Raised(a.num, i)
             y == Raised(c.num, j)
  <2>1. exp \in {a.exp, c.exp} /\ exp <= a.exp /\ exp <= c.exp
    <3>1. \E u \in {a.exp, c.exp} : \A w \in {a.exp, c.exp} : u <= w
      BY <1>1, <1>2, <1>3
    <3>2. exp = CHOOSE u \in {a.exp, c.exp} : \A w \in {a.exp, c.exp} : u <= w
      BY DEF Min
    <3> HIDE DEF exp
    <3> QED  BY <3>1, <3>2
  <2>2. Sum(a, c) = [num |-> x + y, den |-> F, exp |-> exp]
    BY DEF Sum, F
  <2> HIDE DEF exp
  <2>3. i \in 0..2 * Bias - 1 /\ j \in 0..2 * Bias - 1 /\ exp \in Int
    BY <1>1, <1>2, <1>3, <2>1
  <2> HIDE DEF i, j
  <2>4. H \in Nat /\ 2 * Bias - 1 \in Nat
    <3>1. 2 * Bias - 1 \in Nat
      BY <1>1
    <3> QED  BY <3>1, RadixPowers
  <2>5. ASSUME NEW n \in Int, Absolute(n) < F, NEW k \in 0..2 * Bias - 1
        PROVE  Raised(n, k) \in Int /\ Absolute(Raised(n, k)) < F * H
    <3> DEFINE p == Power(k)
    <3>1. p \in Nat \ {0} /\ p <= H
      <4>1. k \in Nat /\ k <= 2 * Bias - 1
        BY <1>1, <2>5
      <4> QED  BY <2>4, <4>1, RadixPowers
    <3>2. Raised(n, k) = n * p
      BY <2>5 DEF Raised
    <3> HIDE DEF p, H
    <3>3. n * p \in Int /\ Absolute(n * p) = Absolute(n) * p
      <4>1. Absolute(p) = p
        BY <3>1 DEF Absolute
      <4> QED  BY <2>5, <3>1, <4>1, AbsoluteValues
    <3> DEFINE m == Absolute(n)
    <3>4. m \in Nat /\ m < F
      BY <2>5, AbsoluteValues
    <3> HIDE DEF m
    <3>5. m * p < F * p
      BY <1>1, <3>1, <3>4
    <3>6. F * p <= F * H /\ m * p \in Int /\ F * p \in Int /\ F * H \in Int
      BY <1>1, <2>4, <3>1, <3>4
    <3> QED  BY <3>2, <3>3, <3>5, <3>6 DEF m
  <2>6. x \in Int /\ y \in Int /\ Absolute(x) < F * H /\ Absolute(y) < F * H
    BY <1>2, <1>3, <2>3, <2>5
  <2> HIDE DEF x, y
  <2>7. Absolute(x + y) < 2 * (F * H)
    <3>1. F * H \in Int
      BY <1>1, <2>4
    <3>2. Absolute(x) \in Int /\ Absolute(y) \in Int /\ Absolute(x + y) \in Int
          /\ Absolute(x + y) <= Absolute(x) + Absolute(y)
      BY <2>6, AbsoluteValues
    <3> HIDE DEF H
    <3> QED  BY <2>6, <3>1, <3>2
  <2>8. 2 * (F * H) <= Power(2 * (Digits + Bias)) /\ F <= Power(2 * Digits)
    BY Limits DEF F
  <2>9. x + y \in Int /\ Absolute(x + y) \in Int /\ 2 * (F * H) \in Int
    <3>1. x + y \in Int
      BY <2>6
    <3>2. Absolute(x + y) \in Int
      BY <3>1, AbsoluteValues
    <3>3. F * H \in Int
      <4> HIDE DEF H
      <4> QED  BY <1>1, <2>4
    <3> QED  BY <3>1, <3>2, <3>3
  <2> HIDE DEF H
  <2>10. Absolute(x + y) < Power(2 * (Digits + Bias))
    BY <1>1, <2>7, <2>8, <2>9
  <2> QED  BY <1>1, <2>2, <2>3, <2>8, <2>9, <2>10 DEF Computed
<1>4. CASE op = "FAD"
  BY <1>2, <1>3, <1>4 DEF Combined
<1>5. CASE op = "FSU"
  <2> DEFINE c == [b EXCEPT !.num = -@]
  <2>1. Combined(op, a, b) = Sum(a, c)
    BY <1>5 DEF Combined
  <2>2. c.num = -b.num /\ c.exp = b.exp
    OBVIOUS
  <2> HIDE DEF c
  <2> QED  BY <1>2, <1>3, <2>1, <2>2
<1>6. CASE op = "FMU"
  <2> DEFINE n == a.num * b.num
             d == a.den * b.den
             x == a.exp + b.exp
  <2>1. Combined(op, a, b) = [num |-> n, den |-> d, exp |-> x]
    BY <1>6 DEF Combined, Product
  <2>2. n \in Int /\ x \in Int /\ d = F * F /\ d \in Nat \ {0}
    <3>1. n \in Int
      BY <1>2, AbsoluteValues
    <3>2. x \in Int /\ d = F * F
      BY <1>1, <1>2
    <3>3. F * F \in Nat \ {0}
      BY <1>1, Products
    <3> QED  BY <3>1, <3>2, <3>3
  <2>3. Absolute(n) < F * F
    <3> DEFINE u == Absolute(a.num)
               w == Absolute(b.num)
    <3>1. Absolute(n) = u * w /\ u \in Nat /\ w \in Nat /\ u < F /\ w < F
      BY <1>2, AbsoluteValues
    <3> HIDE DEF u, w, n
    <3>2. u * w <= u * F /\ u * F < F * F
      BY <1>1, <3>1
    <3>3. u * w \in Int /\ u * F \in Int /\ F * F \in Int
      BY <1>1, <3>1
    <3> QED  BY <3>1, <3>2, <3>3
  <2>4. d <= Power(2 * Digits) /\ d <= Power(2 * (Digits + Bias))
    BY <1>1, <2>2, Limits DEF F
  <2> HIDE DEF n, d, x
  <2>5. Absolute(n) < Power(2 * (Digits + Bias))
    <3>1. Absolute(n) \in Int
      BY <2>2, AbsoluteValues
    <3> QED  BY <1>1, <2>2, <2>3, <2>4, <3>1
  <2> QED  BY <2>1, <2>2, <2>4, <2>5 DEF Computed
<1>7. CASE op = "FDV"
  <2> DEFINE n == IF b.num < 0 THEN -a.num ELSE a.num
             d == Absolute(b.num)
             x == a.exp - b.exp
  <2>1. Combined(op, a, b) = [num |-> n, den |-> d, exp |-> x]
    BY <1>7 DEF Combined, Ratio
  <2>2. n \in Int /\ x \in Int /\ Absolute(n) < F /\ Absolute(n) \in Nat
    <3>1. n \in Int /\ Absolute(n) < F
      BY <1>2
    <3>2. Absolute(n) \in Nat
      BY <3>1, AbsoluteValues
    <3>3. x \in Int
      BY <1>1, <1>2
    <3> QED  BY <3>1, <3>2, <3>3
  <2>3. d \in Nat \ {0} /\ d < F
    BY <1>2, <1>7, AbsoluteValues
  <2>4. F <= Power(2 * Digits) /\ F * F <= Power(2 * (Digits + Bias)) /\ F <= F * F
        /\ F * F \in Nat
    BY <1>1, Limits, Products DEF F
  <2> HIDE DEF n, d, x
  <2>5. Absolute(n) < Power(2 * (Digits + Bias)) /\ d <= Power(2 * Digits)
    BY <1>1, <2>2, <2>3, <2>4
  <2> QED  BY <2>1, <2>2, <2>3, <2>5 DEF Computed
<1> QED  BY <1>4, <1>5, <1>6, <1>7 DEF FloatOperations

\* The floating instructions leave words in E and A.
LEMMA FloatingType ==
  ASSUME NEW V, Machines(V), NEW r \in V, NEW op \in FloatOperations,
         NEW m \in 0..Doubles - 1
  PROVE  floating_inst(op, r, m) \in V
<1> DEFINE a == mitra_to_double(Double(r))
           b == mitra_to_double(m)
           result == double_to_mitra(Combined(op, a, b))
           e == result.raw \div Modulus
           l == result.raw % Modulus
           s == [r EXCEPT !.E = e, !.A = l]
           c == Test(result.status \in {"MITRA_FP_ZERO", "MITRA_FP_UNDERFLOW"})
           o == Test(result.status \in {"MITRA_FP_OVERFLOW", "MITRA_FP_UNDERFLOW"})
<1>1. Readable(a) /\ Readable(b)
  <2>1. r.E \in Word /\ r.A \in Word
    BY DEF Machines
  <2>2. Double(r) \in Int
    BY <2>1, Sizes DEF Double, Word
  <2>3. m \in Int
    OBVIOUS
  <2> QED  BY <2>2, <2>3, ReadType
<1>2. floating_inst(op, r, m) = IF op = "FDV" /\ b.num = 0 THEN r
                                ELSE [s EXCEPT !.C = c, !.OV = o]
  BY DEF floating_inst, set_condition_codes_float
<1> HIDE DEF a, b
<1>3. CASE ~(op = "FDV" /\ b.num = 0)
  <2>1. result.raw \in 0..Doubles - 1
    <3>1. Computed(Combined(op, a, b))
      BY <1>1, <1>3, CombinedType
    <3> QED  BY <3>1, RawType
  <2> HIDE DEF result
  <2>2. e \in Word /\ l \in Word
    BY <2>1, TwoWords
  <2>3. c \in Flag /\ o \in Flag
    BY Bit
  <2> HIDE DEF e, l, c, o
  <2>4. s \in V
    BY <2>2, Assigned
  <2> HIDE DEF s
  <2>5. [s EXCEPT !.C = c, !.OV = o] \in V
    BY <2>3, <2>4, Assigned
  <2> QED  BY <1>2, <1>3, <2>5
<1> QED  BY <1>2, <1>3

----------------------------------------------------------------------------
(* The registers stay words. *)

LEMMA RegistersAreMachines == Machines(Registers)
BY DEF Machines, Registers

LEMMA TypeStep ==
  ASSUME TypeOK, Next
  PROVE  TypeOK'
<1>1. Machines(Registers) /\ cpu \in Registers
  BY RegistersAreMachines DEF TypeOK
<1>2. /\ Operands \subseteq Word /\ Counts \subseteq Nat
      /\ Numbers \subseteq 0..Doubles - 1
  BY AluAssumption
<1>3. CASE LoadInstruction
  BY <1>1, <1>2, <1>3, LoadType DEF LoadInstruction, TypeOK
<1>4. CASE StoreInstruction
  BY <1>1, <1>2, <1>4, StoreType DEF StoreInstruction, TypeOK
<1>5. CASE DoubleLoad
  <2>1. PICK high \in Operands, low \in Operands :
          cpu' = set_condition_codes_load([cpu EXCEPT !.E = high, !.A = low], high)
    BY <1>5 DEF DoubleLoad
  <2>2. [cpu EXCEPT !.E = high, !.A = low] \in Registers
    BY <1>1, <1>2, Assigned
  <2> QED  BY <1>1, <2>1, <2>2, LoadCodes DEF TypeOK
<1>6. CASE IndexIncrement
  <2>1. PICK x \in Word : cpu' = set_condition_codes_load([cpu EXCEPT !.X = x], x)
    BY <1>6 DEF IndexIncrement
  <2>2. [cpu EXCEPT !.X = x] \in Registers
    BY <1>1, Assigned
  <2> QED  BY <1>1, <2>1, <2>2, LoadCodes DEF TypeOK
<1>7. CASE ShiftInstruction
  <2>1. ShiftTypes \subseteq Positions
    BY DEF ShiftTypes, Positions
  <2> QED  BY <1>1, <1>2, <1>7, <2>1, ShiftRegisterType DEF ShiftInstruction, TypeOK
<1>8. CASE SpecialShift
  BY <1>1, <1>2, <1>8, ShiftInstrType DEF SpecialShift, TypeOK
<1>9. CASE RegisterInstruction
  BY <1>1, <1>9, SetRegisterType DEF RegisterInstruction, TypeOK
<1>10. CASE FloatInstruction
  BY <1>1, <1>2, <1>10, FloatingType DEF FloatInstruction, TypeOK
<1> QED  BY <1>3, <1>4, <1>5, <1>6, <1>7, <1>8, <1>9, <1>10 DEF Next

\* Every instruction leaves words in the registers and bits in the indicators
\* (mitra_instr_utils.c), the quotients of DIV and the floating results too.
THEOREM TypeCorrect == Spec => []TypeOK
<1>1. Init => TypeOK
  <2>1. 0 \in Word /\ 0 \in Flag
    BY Sizes DEF Word, Flag
  <2> QED  BY <2>1 DEF Init, TypeOK, Registers
<1>2. TypeOK /\ [Next]_cpu => TypeOK'
  <2>1. ASSUME TypeOK, UNCHANGED cpu PROVE TypeOK'
    BY <2>1 DEF TypeOK
  <2> QED  BY <2>1, TypeStep
<1> QED  BY <1>1, <1>2, PTL DEF Spec

----------------------------------------------------------------------------
(* Comparison and subtraction. *)

\* CMP and SUB order two words alike and ADD undoes SUB (set_register,
\* Mem_OP_Reg_To_Reg), for words of every width.
LEMMA ComparisonInType ==
  TypeOK => CompareAgreesWithSubtract
<1> SUFFICES ASSUME TypeOK, NEW m \in Word
             PROVE  LET compared == Mem_OP_Reg_To_Reg("CMP", cpu, m)
                        difference == Mem_OP_Reg_To_Reg("SUB", cpu, m)
                        restored == Mem_OP_Reg_To_Reg("ADD", difference, m)
                    IN  /\ (compared.OV = 1)
                             <=> (Negative(difference.A) # (difference.OV = 1))
                        /\ (compared.C = 1) <=> (difference.A = 0)
                        /\ restored.A = cpu.A
                        /\ restored.C = difference.C
  BY DEF CompareAgreesWithSubtract
<1> DEFINE a == cpu.A
           d == (a - m) % Modulus
           difference == [cpu EXCEPT !.A = d, !.C = Test(a < m),
                                     !.OV = Test(/\ Negative(a) # Negative(m)
                                                 /\ Negative(a) # Negative(d))]
           restored == Mem_OP_Reg_To_Reg("ADD", difference, m)
<1>1. a \in Word /\ cpu \in Registers
  BY DEF TypeOK, Registers
<1>2. d \in Word /\ d = IF a < m THEN a - m + Modulus ELSE a - m
  BY <1>1, Difference
<1>3. (d + m) % Modulus = a /\ (d + m) \div Modulus = Test(a < m)
  <2> DEFINE x == d + m
  <2>1. x = Test(a < m) * Modulus + a
    BY <1>1, <1>2, Sizes DEF Word, Test
  <2>2. x \in Int /\ Test(a < m) \in Int
    BY <1>2, Sizes DEF Word, Test
  <2>3. x % Modulus = a /\ x \div Modulus = Test(a < m)
    <3> HIDE DEF x
    <3> QED  BY <2>1, <2>2, <1>1, Reduced
  <2> QED  BY <2>3
<1>4. /\ Mem_OP_Reg_To_Reg("CMP", cpu, m)
           = [cpu EXCEPT !.C = Test(a = m), !.OV = Test(Signed(a) < Signed(m))]
      /\ Mem_OP_Reg_To_Reg("SUB", cpu, m) = difference
  BY DEF Mem_OP_Reg_To_Reg, set_condition_codes_compare, sub16
<1>5. difference.A = d /\ difference.C = Test(a < m)
  BY <1>1 DEF Registers
<1>6. restored.A = (d + m) % Modulus /\ restored.C = (d + m) \div Modulus
  <2>1. restored.A = (difference.A + m) % Modulus
        /\ restored.C = (difference.A + m) \div Modulus
    <3> DEFINE sum == add16(difference.A, m)
    <3>1. restored = [difference EXCEPT !.A = sum.result, !.C = sum.carry,
                                        !.OV = sum.overflow]
      <4> HIDE DEF difference
      <4> QED  BY DEF Mem_OP_Reg_To_Reg
    <3>2. sum.result = (difference.A + m) % Modulus
          /\ sum.carry = (difference.A + m) \div Modulus
      BY DEF add16
    <3>3. difference \in [{"A", "E", "X", "C", "OV"} ->
                          UNION {{difference[f]} : f \in {"A", "E", "X", "C", "OV"}}]
      BY <1>1 DEF Registers
    <3> HIDE DEF difference, sum
    <3> QED  BY <3>1, <3>2, <3>3
  <2> QED  BY <2>1, <1>5
<1>7. (Signed(a) < Signed(m))
        <=> (Negative(d) # (Negative(a) # Negative(m) /\ Negative(a) # Negative(d)))
  BY <1>1, <1>2, Sizes DEF Word, Signed, Negative
<1>8. (a = m) <=> (d = 0)
  BY <1>1, <1>2, Sizes DEF Word
<1> DEFINE compared == Mem_OP_Reg_To_Reg("CMP", cpu, m)
<1>9. /\ (compared.OV = 1) <=> (Signed(a) < Signed(m))
      /\ (compared.C = 1) <=> (a = m)
  <2>1. compared.OV = Test(Signed(a) < Signed(m)) /\ compared.C = Test(a = m)
    BY <1>1, <1>4 DEF Registers
  <2> HIDE DEF compared
  <2> QED  BY <2>1 DEF Test
<1>10. (difference.OV = 1) <=> (Negative(a) # Negative(m) /\ Negative(a) # Negative(d))
  BY <1>1 DEF Registers, Test
<1> QED  BY <1>3, <1>4, <1>5, <1>6, <1>7, <1>8, <1>9, <1>10

----------------------------------------------------------------------------
(* Double words. *)

LEMMA Multiples ==
  ASSUME NEW b \in Nat, NEW x \in Int, NEW y \in Int, NEW z \in Int
  PROVE  /\ x * b \in Int
         /\ (x + y) * b = x * b + y * b
         /\ (x * b) * b = x * (b * b)
         /\ x * b = b * x
OBVIOUS

LEMMA DoubleWord ==
  ASSUME NEW high \in Word, NEW low \in Word
  PROVE  high * Modulus + low \in 0..Doubles - 1
<1> DEFINE u == high * Modulus
           v == (Modulus - 1) * Modulus
           w == Modulus * Modulus
<1>1. high \in Nat /\ high <= Modulus - 1 /\ low \in 0..Modulus - 1
      /\ Modulus \in Nat \ {0} /\ Doubles = w
  BY Sizes DEF Word, Doubles
<1>2. u \in Nat /\ u <= v
  BY <1>1
<1>3. v = w - Modulus /\ w \in Nat
  BY <1>1
<1> HIDE DEF u, v, w
<1> QED  BY <1>1, <1>2, <1>3 DEF u

\* ADD leaves the sum in A and the carry in C, and keeps E and X.
LEMMA AddRegisters ==
  ASSUME NEW r \in Registers, NEW m \in Word
  PROVE  LET sum == Mem_OP_Reg_To_Reg("ADD", r, m)
         IN  /\ sum \in Registers
             /\ sum.A = (r.A + m) % Modulus
             /\ sum.C = (r.A + m) \div Modulus
             /\ sum.E = r.E
             /\ sum.X = r.X
<1> DEFINE s == add16(r.A, m)
<1>1. Mem_OP_Reg_To_Reg("ADD", r, m)
        = [r EXCEPT !.A = s.result, !.C = s.carry, !.OV = s.overflow]
  BY DEF Mem_OP_Reg_To_Reg
<1>2. /\ s.result = (r.A + m) % Modulus
      /\ s.carry = (r.A + m) \div Modulus
      /\ s.overflow \in Flag
  BY DEF add16, Test, Flag
<1>3. s.result \in Word /\ s.carry \in Flag
  BY <1>2, SumOfWords DEF Registers
<1> HIDE DEF s
<1> QED  BY <1>1, <1>2, <1>3 DEF Registers

\* XAE exchanges A and E; ACE adds the carry to E.
LEMMA CarryRegisters ==
  ASSUME NEW r \in Registers
  PROVE  /\ set_register("XAE", r) = [r EXCEPT !.A = r.E, !.E = r.A]
         /\ set_register("XAE", r) \in Registers
         /\ set_register("ACE", r) \in Registers
         /\ set_register("ACE", r).E = (r.E + r.C) % Modulus
         /\ set_register("ACE", r).A = r.A
<1>1. set_register("XAE", r) = [r EXCEPT !.A = r.E, !.E = r.A]
  BY DEF set_register
<1> DEFINE e == (r.E + r.C) % Modulus
           t == [r EXCEPT !.E = e]
<1>2. set_register("ACE", r) = set_condition_codes_load(t, t.A)
  <2>1. set_register("ACE", r) = TestedA(t)
    BY DEF set_register
  <2> QED  BY <2>1 DEF TestedA
<1>3. e \in Word
  <2>1. r.C \in Word /\ r.E \in Word
    BY Sizes DEF Registers, Flag, Word
  <2> QED  BY <2>1, SumOfWords
<1> HIDE DEF e
<1>4. t \in Registers /\ t.E = e /\ t.A = r.A
  BY <1>3 DEF Registers
<1> HIDE DEF t
<1>5. set_condition_codes_load(t, t.A) \in Registers
      /\ set_condition_codes_load(t, t.A).E = t.E
      /\ set_condition_codes_load(t, t.A).A = t.A
  BY <1>4 DEF set_condition_codes_load, Registers, Test, Flag
<1> QED  BY <1>1, <1>2, <1>4, <1>5 DEF e, Registers

\* The carry of the low halves of two double words reaches the high one (ADD,
\* ACE, ADD between two XAE), for every width of a word.
LEMMA DoubleWordsInType ==
  TypeOK => DoubleAddition
<1> SUFFICES ASSUME TypeOK, NEW h \in Operands, NEW l \in Operands
             PROVE  LET low == Mem_OP_Reg_To_Reg("ADD", cpu, l)
                        swapped == set_register("XAE", set_register("ACE", low))
                        sum == set_register("XAE", Mem_OP_Reg_To_Reg("ADD", swapped, h))
                    IN  Double(sum) = (Double(cpu) + h * Modulus + l) % Doubles
  BY DEF DoubleAddition
<1> DEFINE low == Mem_OP_Reg_To_Reg("ADD", cpu, l)
           carried == set_register("ACE", low)
           swapped == set_register("XAE", carried)
           added == Mem_OP_Reg_To_Reg("ADD", swapped, h)
           sum == set_register("XAE", added)
           a == (cpu.A + l) % Modulus
           c == (cpu.A + l) \div Modulus
           e == (cpu.E + c) % Modulus
           f == (cpu.E + c) \div Modulus
           k == (e + h) % Modulus
           g == (e + h) \div Modulus
<1>1. cpu \in Registers /\ cpu.A \in Word /\ cpu.E \in Word /\ h \in Word /\ l \in Word
  BY AluAssumption DEF TypeOK, Registers
<1>2. low \in Registers /\ low.A = a /\ low.C = c /\ low.E = cpu.E
  BY <1>1, AddRegisters
<1>3. a \in Word /\ c \in Flag /\ cpu.A + l = c * Modulus + a
  BY <1>1, SumOfWords
<1>4. c \in Word
  <2> HIDE DEF c, a
  <2> QED  BY <1>3, Sizes DEF Flag, Word
<1>5. e \in Word /\ f \in Flag /\ cpu.E + c = f * Modulus + e
  BY <1>1, <1>4, SumOfWords
<1>6. k \in Word /\ g \in Flag /\ e + h = g * Modulus + k
  BY <1>1, <1>5, SumOfWords
<1>7. carried \in Registers /\ carried.E = e /\ carried.A = a
  <2> HIDE DEF low
  <2> QED  BY <1>2, CarryRegisters
<1>8. swapped \in Registers /\ swapped.A = e /\ swapped.E = a
  <2> HIDE DEF carried
  <2> QED  BY <1>7, CarryRegisters, ZenonT(60) DEF Registers
<1>9. added \in Registers /\ added.A = k /\ added.E = a
  <2> HIDE DEF swapped, e, a
  <2> QED  BY <1>1, <1>8, AddRegisters
<1>10. sum.E = k /\ sum.A = a
  <2> HIDE DEF added
  <2> QED  BY <1>9, CarryRegisters, ZenonT(60) DEF Registers
<1>11. Double(cpu) + h * Modulus + l = (f + g) * Doubles + (k * Modulus + a)
  <2> DEFINE M == Modulus
  <2>1. /\ M \in Nat /\ Doubles = M * M
        /\ cpu.A \in Int /\ cpu.E \in Int /\ h \in Int /\ l \in Int /\ a \in Int
        /\ c \in Int /\ e \in Int /\ f \in Int /\ g \in Int /\ k \in Int
    <3> HIDE DEF a, c, e, f, g, k
    <3> QED  BY <1>1, <1>3, <1>5, <1>6, Sizes DEF Word, Flag, Doubles
  <2>2. cpu.E + h + c = (f + g) * M + k
    <3>1. cpu.E + c = f * M + e /\ e + h = g * M + k
      BY <1>5, <1>6
    <3> HIDE DEF M, a, c, e, f, g, k
    <3>2. (f + g) * M = f * M + g * M /\ f * M \in Int /\ g * M \in Int
      BY <2>1
    <3> QED  BY <3>1, <3>2, <2>1
  <2>3. cpu.E * M + h * M + c * M = (f + g) * (M * M) + k * M
    <3> HIDE DEF M, c, e, f, g, k
    <3>1. (cpu.E + h + c) * M = cpu.E * M + h * M + c * M
      BY <2>1
    <3>2. ((f + g) * M + k) * M = (f + g) * (M * M) + k * M
      BY <2>1
    <3> QED  BY <3>1, <3>2, <2>2
  <2>4. Double(cpu) + h * M + l = cpu.E * M + h * M + (cpu.A + l)
    <3> HIDE DEF M
    <3>1. cpu.E * M \in Int /\ h * M \in Int
      BY <2>1
    <3> QED  BY <3>1, <2>1 DEF Double, M
  <2>5. cpu.E * M \in Int /\ h * M \in Int /\ c * M \in Int /\ k * M \in Int
        /\ (f + g) * (M * M) \in Int
    <3> HIDE DEF M, c, e, f, g, k
    <3> QED  BY <2>1
  <2>6. cpu.A + l = c * M + a /\ Doubles = M * M
    BY <1>3, <2>1
  <2>7. Double(cpu) + h * M + l = (f + g) * Doubles + (k * M + a)
    <3> DEFINE p == (f + g) * (M * M)
               u == cpu.E * M
               v == h * M
               w == c * M
               z == k * M
    <3> HIDE DEF M, a, c, e, f, g, k
    <3>1. (f + g) * Doubles = p
      BY <2>6
    <3>2. /\ u \in Int /\ v \in Int /\ w \in Int /\ z \in Int /\ p \in Int
          /\ u + v + w = p + z
          /\ Double(cpu) + v + l = u + v + (cpu.A + l)
          /\ cpu.A + l = w + a
      BY <2>3, <2>4, <2>5, <2>6
    <3> HIDE DEF p, u, v, w, z
    <3>3. Double(cpu) + v + l = p + (z + a)
      BY <3>2, <2>1
    <3> QED  BY <3>1, <3>3 DEF v, z
  <2> QED  BY <2>7
<1>12. ((f + g) * Doubles + (k * Modulus + a)) % Doubles = k * Modulus + a
  <2> DEFINE q == f + g
             r == k * Modulus + a
  <2>1. r \in 0..Doubles - 1 /\ q \in Int /\ Doubles \in Nat \ {0}
    <3>1. Doubles \in Nat \ {0}
      BY Sizes DEF Doubles
    <3> QED  BY <3>1, <1>3, <1>5, <1>6, DoubleWord DEF Flag
  <2> HIDE DEF q, r
  <2>2. (q * Doubles + r) % Doubles = r
    BY <2>1, Divided
  <2> QED  BY <2>2 DEF q, r
<1>13. Double(sum) = k * Modulus + a
  BY <1>10 DEF Double
<1> HIDE DEF sum, a, f, g, k
<1> QED  BY <1>11, <1>12, <1>13 DEF sum, added, swapped, carried, low

----------------------------------------------------------------------------
(* Multiplication and division. *)

\* The high half of a product of two positive numbers is a positive number.
LEMMA ProductHalves ==
  ASSUME NEW a \in 0..Half - 1, NEW m \in 0..Half - 1
  PROVE  /\ (a * m) \div Modulus \in 0..Half - 1
         /\ (a * m) % Modulus \in Word
         /\ a * m = ((a * m) \div Modulus) * Modulus + ((a * m) % Modulus)
<1> DEFINE p == a * m
           q == p \div Modulus
           r == p % Modulus
           bound == Half * Modulus
<1>1. p \in Nat /\ a \in Nat /\ m \in Nat /\ Half \in Nat /\ Modulus \in Nat \ {0}
  BY Sizes
<1>2. p = Modulus * q + r /\ q \in Nat /\ r \in 0..Modulus - 1
  <2> HIDE DEF p
  <2> QED  BY <1>1
<1>3. p <= a * Half /\ a * Half < Half * Half /\ Half * Half <= bound
  <2>1. \A x, y, z \in Nat : y <= z => x * y <= x * z
    OBVIOUS
  <2>2. p <= a * Half
    BY <2>1, <1>1
  <2>3. a * Half < Half * Half
    BY <1>1
  <2>4. Half * Half <= bound
    BY <2>1, <1>1, Sizes
  <2> QED  BY <2>2, <2>3, <2>4
<1>4. p < bound
  <2> DEFINE x == a * Half
             y == Half * Half
  <2>1. x \in Nat /\ y \in Nat /\ bound \in Nat /\ p \in Nat
    BY <1>1
  <2>2. p <= x /\ x < y /\ y <= bound
    BY <1>3
  <2> HIDE DEF x, y, p, bound
  <2> QED  BY <2>1, <2>2
<1>5. q < Half
  <2>1. SUFFICES ASSUME q >= Half PROVE FALSE
    <3> HIDE DEF q
    <3> QED  BY <1>1, <1>2
  <2>2. \A x, y, z \in Nat : y <= z => x * y <= x * z
    OBVIOUS
  <2>3. Modulus * Half <= Modulus * q
    <3> HIDE DEF q
    <3> QED  BY <1>1, <1>2, <2>1, <2>2
  <2>4. Modulus * Half = bound
    BY <1>1
  <2> DEFINE x == Modulus * q
  <2>5. x \in Nat /\ bound \in Nat /\ bound <= x /\ p = x + r
    <3> HIDE DEF p, q, r
    <3> QED  BY <1>1, <1>2, <2>3, <2>4
  <2> HIDE DEF x, bound, p, q, r
  <2> QED  BY <1>1, <1>2, <1>4, <2>5
<1> HIDE DEF p, q, r
<1>6. Modulus * q = q * Modulus /\ r \in Word /\ q \in 0..Half - 1
  BY <1>1, <1>2, <1>5 DEF Word
<1> QED  BY <1>2, <1>6 DEF p, q, r

\* DIV finds again the factor MUL multiplied (mul32, div32), for positive
\* numbers of every width.
LEMMA ProductsInType ==
  TypeOK => MultiplyDivide
<1> SUFFICES ASSUME TypeOK, NEW m \in Operands \ {0},
                    ~Negative(cpu.A), ~Negative(m)
             PROVE  LET product == Mem_OP_Reg_To_Reg("MUL", cpu, m)
                        quotient == Mem_OP_Reg_To_Reg("DIV", product, m)
                    IN  quotient = set_condition_codes_load([cpu EXCEPT !.E = 0], cpu.A)
  BY DEF MultiplyDivide
<1> DEFINE a == cpu.A
           p == a * m
           q == p \div Modulus
           r == p % Modulus
           product == Mem_OP_Reg_To_Reg("MUL", cpu, m)
           division == div32(product, m)
<1>1. /\ cpu \in Registers /\ m # 0
      /\ a \in 0..Half - 1 /\ m \in 1..Half - 1 /\ Half \in Nat \ {0}
  BY AluAssumption, Sizes DEF TypeOK, Registers, Word, Negative
<1>2. q \in 0..Half - 1 /\ r \in Word /\ p = q * Modulus + r
  BY <1>1, ProductHalves
<1>3. product = set_condition_codes_load([cpu EXCEPT !.E = q, !.A = r], q)
  BY DEF Mem_OP_Reg_To_Reg, mul32
<1>4. product \in Registers /\ product.E = q /\ product.A = r /\ product.X = cpu.X
  <2> DEFINE t == [cpu EXCEPT !.E = q, !.A = r]
  <2>1. q \in Word
    <3> HIDE DEF q
    <3> QED  BY <1>2, Sizes DEF Word
  <2> HIDE DEF q, r
  <2>2. t \in Registers /\ t.E = q /\ t.A = r /\ t.X = cpu.X
    BY <1>1, <1>2, <2>1 DEF Registers
  <2>3. product = [t EXCEPT !.C = Test(q = 0), !.OV = Test(Negative(q))]
    BY <1>3 DEF set_condition_codes_load
  <2> HIDE DEF t, product
  <2> QED  BY <2>2, <2>3 DEF Registers, Test, Flag
<1>5. Dividend(product) = p
  <2> HIDE DEF product, q, r, p
  <2>1. Signed(q) = q
    BY <1>2, <1>1 DEF Signed
  <2> QED  BY <1>2, <1>4, <2>1 DEF Dividend
<1>6. Signed(m) = m
  BY <1>1 DEF Signed
<1>7. Quotient(p, m) = a
  <2>1. p \in Nat
    BY <1>1
  <2>2. p \div m = a
    <3>1. (a * m + 0) \div m = a
      <4> DEFINE z == 0
      <4>1. m \in Nat \ {0} /\ a \in Int /\ z \in 0..m - 1
        BY <1>1
      <4> HIDE DEF z, a
      <4>2. (a * m + z) \div m = a
        BY <4>1, Divided
      <4> QED  BY <4>2 DEF z
    <3>2. a * m + 0 = p
      BY <1>1
    <3> QED  BY <3>1, <3>2
  <2> HIDE DEF p
  <2> QED  BY <1>1, <2>1, <2>2 DEF Quotient
<1>8. a % Modulus = a /\ 0 % Modulus = 0
  <2>1. \A w \in Word : w % Modulus = w
    <3> SUFFICES ASSUME NEW w \in Word PROVE w % Modulus = w
      OBVIOUS
    <3> DEFINE z == 0
    <3>1. w \in Int /\ z \in Int /\ w = z * Modulus + w
      BY Sizes DEF Word
    <3> HIDE DEF z
    <3> QED  BY <3>1, Reduced
  <2>2. a \in Word /\ 0 \in Word
    BY <1>1, Sizes DEF Word
  <2> QED  BY <2>1, <2>2
<1>9. division = [A |-> a, ok |-> TRUE, E |-> 0]
  <2>1. p - a * m = 0
    BY <1>1
  <2>2. ~Negative(a)
    OBVIOUS
  <2> HIDE DEF a, p, product
  <2> QED  BY <1>1, <1>5, <1>6, <1>7, <1>8, <2>1, <2>2 DEF div32
<1>10. Mem_OP_Reg_To_Reg("DIV", product, m)
         = LET divided == [product EXCEPT !.A = division.A, !.E = division.E]
           IN  IF division.ok THEN set_condition_codes_load(divided, divided.A)
                              ELSE [divided EXCEPT !.OV = 1]
  <2> HIDE DEF product
  <2> QED  BY DEF Mem_OP_Reg_To_Reg
<1> DEFINE divided == [product EXCEPT !.A = a, !.E = 0]
<1>11. Mem_OP_Reg_To_Reg("DIV", product, m) = set_condition_codes_load(divided, divided.A)
  <2> HIDE DEF product, division, a
  <2> QED  BY <1>9, <1>10
<1>12. set_condition_codes_load(divided, divided.A)
         = set_condition_codes_load([cpu EXCEPT !.E = 0], a)
  <2> DEFINE u == [cpu EXCEPT !.E = 0]
             c == Test(a = 0)
             o == Test(Negative(a))
  <2>1. divided.A = a
    <3> HIDE DEF product, a
    <3> QED  BY <1>4 DEF Registers
  <2>2. [divided EXCEPT !.C = c, !.OV = o] = [u EXCEPT !.C = c, !.OV = o]
    <3>1. cpu.A = a
      OBVIOUS
    <3> HIDE DEF product, a, c, o
    <3> QED  BY <1>1, <1>4, <3>1 DEF Registers
  <2> QED  BY <2>1, <2>2 DEF set_condition_codes_load
<1> QED  BY <1>11, <1>12

----------------------------------------------------------------------------
(* Shifts, NLZ and PTY. *)

\* The shifts scale numbers, in every state of the type.
LEMMA ShiftsInType == TypeOK => ShiftsScale
<1> SUFFICES ASSUME TypeOK, NEW n \in Counts
             PROVE  LET After(type) == ShiftRegister(type, n, cpu)
                        number == Signed(cpu.E) * Modulus + cpu.A
                        scaled == number \div 2^n
                    IN  /\ Double(After("SAD")) = scaled % Doubles
                        /\ After("SAS").A = (Signed(cpu.A) \div 2^n) % Modulus
                        /\ After("SLLS").A = (cpu.A * 2^n) % Modulus
                        /\ After("SRLS").A = cpu.A \div 2^n
                        /\ Double(shift_instr("SLLD", n, cpu)) = (Double(cpu) * 2^n) % Doubles
                        /\ Double(shift_instr("SRLD", n, cpu)) = Double(cpu) \div 2^n
                        /\ ShiftRegister("SRCS", n, After("SLCS")).A = cpu.A
                        /\ Double(ShiftRegister("SRCD", n, After("SLCD"))) = Double(cpu)
  BY DEF ShiftsScale
<1>1. Machines(Registers) /\ cpu \in Registers /\ n \in Nat
  BY RegistersAreMachines, AluAssumption DEF TypeOK
<1>2. ASSUME NEW type \in Positions, NEW r \in Registers
      PROVE  /\ Repeat(type, n, r) \in Registers
             /\ ShiftRegister(type, n, r) \in Registers
             /\ SamePair(ShiftRegister(type, n, r), Repeat(type, n, r))
             /\ Double(ShiftRegister(type, n, r)) = Double(Repeat(type, n, r))
  <2> DEFINE s == Repeat(type, n, r)
  <2>1. s \in Registers
    BY <1>1, OneMore
  <2>2. ShiftRegister(type, n, r) = set_condition_codes_load(s, s.A)
    BY DEF ShiftRegister
  <2> HIDE DEF s
  <2>3. ShiftRegister(type, n, r) \in Registers
    BY <1>1, <2>1, <2>2, LoadCodes
  <2>4. ShiftRegister(type, n, r).A = s.A /\ ShiftRegister(type, n, r).E = s.E
    BY <1>1, <2>1, <2>2, CodesKeep
  <2> QED  BY <2>1, <2>3, <2>4 DEF s, SamePair, Double
<1> DEFINE After(type) == ShiftRegister(type, n, cpu)
<1>3. Double(After("SAD")) = ((Signed(cpu.E) * Modulus + cpu.A) \div 2^n) % Doubles
  <2> DEFINE s == Repeat("SAD", n, cpu)
  <2>1. s \in Registers /\ Double(After("SAD")) = Double(s)
    BY <1>1, <1>2 DEF Positions
  <2>2. SignedDouble(s) = SignedDouble(cpu) \div 2^n
    BY <1>1, ShiftedNumbers
  <2> HIDE DEF s
  <2>3. SignedDouble(s) % Doubles = Double(s)
    BY <1>1, <2>1, SignedRemainder DEF Doubles
  <2> QED  BY <2>1, <2>2, <2>3 DEF SignedDouble
<1>4. After("SAS").A = (Signed(cpu.A) \div 2^n) % Modulus
  <2> DEFINE s == Repeat("SAS", n, cpu)
  <2>1. s \in Registers /\ After("SAS").A = s.A
    BY <1>1, <1>2 DEF Positions, SamePair
  <2>2. Signed(s.A) = Signed(cpu.A) \div 2^n
    BY <1>1, ShiftedNumbers
  <2> HIDE DEF s
  <2>3. Signed(s.A) % Modulus = s.A
    BY <1>1, <2>1, SignedRemainder
  <2> QED  BY <2>1, <2>2, <2>3
<1>5. /\ After("SLLS").A = (cpu.A * 2^n) % Modulus
      /\ After("SRLS").A = cpu.A \div 2^n
  BY <1>1, <1>2, ShiftedNumbers DEF Positions, SamePair
<1>6. /\ Double(shift_instr("SLLD", n, cpu)) = (Double(cpu) * 2^n) % Doubles
      /\ Double(shift_instr("SRLD", n, cpu)) = Double(cpu) \div 2^n
  <2>1. ASSUME NEW type \in {"SLLD", "SRLD"}
        PROVE  shift_instr(type, n, cpu) = ShiftRegister(type, n, cpu)
    BY DEF shift_instr, ShiftRegister
  <2>2. ASSUME NEW type \in {"SLLD", "SRLD"}
        PROVE  Double(shift_instr(type, n, cpu)) = Double(Repeat(type, n, cpu))
    BY <1>1, <1>2, <2>1 DEF Positions
  <2> QED  BY <1>1, <2>2, ShiftedNumbers DEF Doubles
<1>7. ShiftRegister("SRCS", n, After("SLCS")).A = cpu.A
  <2> DEFINE y == After("SLCS")
  <2>1. y \in Registers /\ SamePair(y, Repeat("SLCS", n, cpu))
    BY <1>1, <1>2 DEF Positions
  <2> HIDE DEF y
  <2>2. SamePair(Repeat("SRCS", n, y), cpu)
    BY <1>1, <2>1, CircularUndone
  <2>3. SamePair(ShiftRegister("SRCS", n, y), Repeat("SRCS", n, y))
    BY <1>2, <2>1 DEF Positions
  <2> QED  BY <2>2, <2>3 DEF SamePair, y
<1>8. Double(ShiftRegister("SRCD", n, After("SLCD"))) = Double(cpu)
  <2> DEFINE y == After("SLCD")
  <2>1. y \in Registers /\ SamePair(y, Repeat("SLCD", n, cpu))
    BY <1>1, <1>2 DEF Positions
  <2> HIDE DEF y
  <2>2. SamePair(Repeat("SRCD", n, y), cpu)
    BY <1>1, <2>1, CircularUndone
  <2>3. Double(ShiftRegister("SRCD", n, y)) = Double(Repeat("SRCD", n, y))
    BY <1>2, <2>1 DEF Positions
  <2> QED  BY <2>2, <2>3 DEF SamePair, Double, y
<1> HIDE DEF After
<1> QED  BY <1>3, <1>4, <1>5, <1>6, <1>7, <1>8 DEF After

\* SAD undoes NLZ, in every state of the type.
LEMMA NormalizeInType == TypeOK => NormalizeUndone
<1> SUFFICES ASSUME TypeOK, NEW n \in Counts
             PROVE  LET normal == shift_instr("NLZ", n, cpu)
                        steps == (cpu.X - normal.X) % Modulus
                    IN  /\ steps <= n
                        /\ Double(ShiftRegister("SAD", steps, normal)) = Double(cpu)
                        /\ steps < n => Normal(normal) \/ steps = 2 * Width - 1
  BY DEF NormalizeUndone
<1> DEFINE V == Registers
           k == NormalSteps(cpu, n)
           s == Repeat("SLLD", k, cpu)
           normal == shift_instr("NLZ", n, cpu)
           x == (s.X - k) % Modulus
           c == Test(k = n /\ k # 0)
           o == Test(k = 0)
<1>1. Machines(V) /\ cpu \in V /\ n \in Nat
  BY RegistersAreMachines, AluAssumption DEF TypeOK
<1>2. /\ k \in Nat /\ k <= n /\ k <= 2 * Width - 1
      /\ k = n \/ k = 2 * Width - 1 \/ Normal(s)
      /\ \A j \in 0..k - 1 : ~Normal(Repeat("SLLD", j, cpu))
  BY <1>1, NormalStops
<1>3. normal = [s EXCEPT !.X = x, !.C = c, !.OV = o]
  BY <1>1, NormalizeAt DEF shift_instr
<1>4. normal \in V
  BY <1>1, ShiftInstrType DEF SpecialTypes
<1> HIDE DEF k, normal
<1>5. s \in V /\ s.X = cpu.X
  <2> DEFINE T == {j \in Nat : Repeat("SLLD", j, cpu).X = cpu.X}
  <2>1. 0 \in T
    BY <1>1, OneMore DEF Positions
  <2>2. ASSUME NEW j \in Nat, j \in T PROVE j + 1 \in T
    <3> DEFINE u == Repeat("SLLD", j, cpu)
    <3>1. u \in V /\ Repeat("SLLD", j + 1, cpu) = ShiftOnce("SLLD", u)
      <4>1. "SLLD" \in Positions /\ j \in Nat
        BY DEF Positions
      <4> HIDE DEF V
      <4> QED  BY <1>1, <4>1, OneMore
    <3> HIDE DEF u
    <3>2. ShiftOnce("SLLD", u).X = u.X
      BY <3>1 DEF ShiftOnce, shift_lld, Registers
    <3> QED  BY <2>2, <3>1, <3>2 DEF u
  <2>3. Nat \subseteq T
    <3> HIDE DEF T
    <3> QED  BY <2>1, <2>2, SetInduction
  <2>4. s \in V
    BY <1>1, <1>2, OneMore DEF Positions
  <2> QED  BY <1>2, <2>3, <2>4
<1>6. normal.X = x /\ SamePair(normal, s) /\ (Normal(normal) <=> Normal(s))
  <2> HIDE DEF s, x, c, o
  <2>1. normal.X = x /\ normal.E = s.E /\ normal.A = s.A
    BY <1>3, <1>5 DEF Registers
  <2> QED  BY <2>1 DEF SamePair, Normal
<1>7. (cpu.X - normal.X) % Modulus = k
  <2> DEFINE M == Modulus
             w == cpu.X
             d == w - k
             q == d \div M
  <2>1. w \in Int /\ M \in Nat \ {0} /\ d \in Int
    BY <1>1, <1>2, Sizes DEF Registers, Word
  <2>2. k \in 0..M - 1
    <3> DEFINE T == {j \in Nat : 2 * j + 2 <= 2 * 2^j}
    <3>1. 0 \in T
      BY Powers
    <3>2. ASSUME NEW j \in Nat, j \in T PROVE j + 1 \in T
      <4>1. 2^j \in Nat \ {0} /\ 2^(j + 1) = 2 * 2^j
        BY Powers
      <4> QED  BY <3>2, <4>1
    <3>3. Nat \subseteq T
      <4> HIDE DEF T
      <4> QED  BY <3>1, <3>2, SetInduction
    <3>4. Width - 1 \in Nat /\ Half = 2^(Width - 1) /\ Width \in Nat
      BY WidthAssumption
    <3>5. 2 * (Width - 1) + 2 <= 2 * Half
      BY <3>3, <3>4
    <3> QED  BY <1>2, <3>4, <3>5, Sizes
  <2>3. normal.X = d % M
    BY <1>5, <1>6
  <2> HIDE DEF M, w, d
  <2>4. q \in Int /\ d % M = d - q * M /\ q * M \in Int
    <3> DEFINE r == d % M
    <3>1. q \in Int /\ d = q * M + r /\ r \in Int
      BY <2>1
    <3> HIDE DEF q, r
    <3>2. q * M \in Int
      BY <2>1, <3>1
    <3>3. r = d - q * M
      BY <2>1, <3>1, <3>2
    <3> QED  BY <3>1, <3>2, <3>3 DEF r
  <2> HIDE DEF q
  <2>5. w - normal.X = q * M + k
    BY <1>2, <2>1, <2>3, <2>4 DEF d
  <2>6. (q * M + k) % M = k
    BY <2>1, <2>2, <2>4, Divided
  <2> QED  BY <2>5, <2>6 DEF w, M
<1>8. Double(ShiftRegister("SAD", k, normal)) = Double(cpu)
  <2> HIDE DEF s
  <2>1. \A j \in 0..k - 1 : Repeat("SLLD", j, cpu) \in V
    <3>1. \A j \in 0..k - 1 : j \in Nat
      BY <1>2
    <3> QED  BY <1>1, <3>1, OneMore DEF Positions
  <2>2. \A j \in 0..k - 1 : \A t \in V :
          SamePair(t, ShiftOnce("SLLD", Repeat("SLLD", j, cpu)))
            => SamePair(ShiftOnce("SAD", t), Repeat("SLLD", j, cpu))
    BY <1>1, <1>2, <2>1, NormalPositions
  <2>3. SamePair(Repeat("SAD", k, normal), cpu)
    BY <1>1, <1>2, <1>4, <1>6, <2>2, UndoneByShift DEF Positions, s
  <2> DEFINE u == Repeat("SAD", k, normal)
  <2>4. u \in V /\ ShiftRegister("SAD", k, normal) = set_condition_codes_load(u, u.A)
    BY <1>1, <1>2, <1>4, OneMore DEF Positions, ShiftRegister
  <2> HIDE DEF u
  <2>5. SamePair(ShiftRegister("SAD", k, normal), u)
    BY <1>1, <2>4, CodesKeep DEF SamePair
  <2> QED  BY <2>3, <2>5 DEF SamePair, Double, u
<1> QED  BY <1>2, <1>6, <1>7, <1>8 DEF normal

\* PTY in two parts counts the bits of the word, in every state of the type.
LEMMA ParityInType == TypeOK => ParityAdds
<1> SUFFICES ASSUME TypeOK, NEW n \in Counts, n <= Width
             PROVE  LET part == shift_instr("PTY", n, cpu)
                        rest == shift_instr("PTY", Width - n, part)
                    IN  /\ rest.A = cpu.A
                        /\ part.E + rest.E = Cardinality(Bits(cpu.A))
                        /\ (part.OV + rest.OV) % 2 = Cardinality(Bits(cpu.A)) % 2
  BY DEF ParityAdds
<1> DEFINE V == Registers
           v == cpu.A
           m == Width - n
           part == shift_instr("PTY", n, cpu)
           rest == shift_instr("PTY", m, part)
           upper == Ones(v, m, Width)
           lower == Ones(v, 0, m)
<1>1. Machines(V) /\ cpu \in V /\ n \in Nat /\ v \in Word
  BY RegistersAreMachines, AluAssumption DEF TypeOK, Registers
<1>2. m \in Nat /\ m \in 0..Width /\ n \in 0..Width /\ Width \in Nat /\ n + m = Width
  BY <1>1, WidthAssumption
<1>3. ASSUME NEW r \in V, NEW k \in 0..Width, r.A = Rotated(v, k), NEW j \in 0..Width - k
      PROVE  LET s == shift_instr("PTY", j, r)
             IN  /\ s \in V
                 /\ s.A = Rotated(v, k + j)
                 /\ s.E = Cardinality(Ones(v, Width - k - j, Width - k))
                 /\ s.OV = s.E % 2
  <2> DEFINE cleared == [r EXCEPT !.E = 0, !.C = 0]
             last == Repeat("PTY", j, cleared)
             s == shift_instr("PTY", j, r)
  <2>1. j \in Nat
    BY <1>2
  <2>2. cleared \in V /\ cleared.A = r.A /\ cleared.E = 0
    <3>1. 0 \in Word /\ 0 \in Flag
      BY Sizes DEF Word, Flag
    <3>2. cleared \in V
      BY <1>1, <3>1, Assigned
    <3> QED  BY <3>2 DEF Registers
  <2>3. s = [last EXCEPT !.OV = LowBit(last.E)]
    BY DEF shift_instr, compute_parity
  <2>4. s \in V
    BY <1>1, <2>1, ShiftInstrType DEF SpecialTypes
  <2> HIDE DEF cleared, s
  <2>5. last \in V
    BY <1>1, <2>1, <2>2, OneMore DEF Positions
  <2>6. /\ last.A = Rotated(v, k + j)
        /\ last.E = Cardinality(Ones(v, Width - k - j, Width - k))
    BY <1>1, <1>3, <2>2, ParityRun
  <2> HIDE DEF last
  <2>7. s.A = last.A /\ s.E = last.E /\ s.OV = last.E % 2
    BY <2>3, <2>5 DEF Registers, LowBit
  <2> QED  BY <2>4, <2>6, <2>7 DEF s
<1>4. /\ part \in V /\ part.A = Rotated(v, n) /\ part.E = Cardinality(upper)
      /\ part.OV = part.E % 2
  <2>1. v = Rotated(v, 0) /\ 0 \in 0..Width /\ n \in 0..Width - 0 /\ 0 + n = n
        /\ Width - 0 - n = m /\ Width - 0 = Width
    BY <1>1, <1>2, RotatedEnds
  <2> HIDE DEF m, V
  <2>2. LET s == shift_instr("PTY", n, cpu)
        IN  /\ s \in V /\ s.A = Rotated(v, 0 + n)
            /\ s.E = Cardinality(Ones(v, Width - 0 - n, Width - 0))
            /\ s.OV = s.E % 2
    BY <1>1, <1>3, <2>1
  <2> QED  BY <2>1, <2>2
<1> HIDE DEF part
<1>5. /\ rest.A = v /\ rest.E = Cardinality(lower) /\ rest.OV = rest.E % 2
  <2>1. Width - n - m = 0 /\ Rotated(v, n + m) = v /\ m \in 0..Width - n
    BY <1>1, <1>2, RotatedEnds
  <2> HIDE DEF V
  <2>2. LET s == shift_instr("PTY", m, part)
        IN  /\ s \in V /\ s.A = Rotated(v, n + m)
            /\ s.E = Cardinality(Ones(v, Width - n - m, Width - n))
            /\ s.OV = s.E % 2
    BY <1>2, <1>3, <1>4, <2>1
  <2> QED  BY <2>1, <2>2
<1> HIDE DEF rest, v
<1>6. Cardinality(upper) + Cardinality(lower) = Cardinality(Bits(v))
  <2>1. upper \cup lower = Bits(v) /\ upper \cap lower = {}
    BY <1>2 DEF Ones, Bits
  <2>2. /\ IsFiniteSet(upper) /\ IsFiniteSet(lower)
        /\ Cardinality(upper) \in Nat /\ Cardinality(lower) \in Nat
    BY <1>1, OnesFinite
  <2> HIDE DEF upper, lower
  <2>3. Cardinality(upper \cup lower)
          = Cardinality(upper) + Cardinality(lower) - Cardinality(upper \cap lower)
    BY <2>2, FS_Union
  <2>4. Cardinality(upper \cap lower) = 0
    BY <2>1, FS_EmptySet
  <2>5. Cardinality(Bits(v)) = Cardinality(upper \cup lower)
    BY <2>1
  <2> QED  BY <2>2, <2>3, <2>4, <2>5
<1>7. Cardinality(upper) \in Nat /\ Cardinality(lower) \in Nat
  BY <1>1, OnesFinite
<1> DEFINE x == Cardinality(upper)
           y == Cardinality(lower)
<1>8. ASSUME NEW i \in Nat, NEW j \in Nat
      PROVE  ((i % 2) + (j % 2)) % 2 = (i + j) % 2
  OBVIOUS
<1> HIDE DEF upper, lower
<1>9. (part.OV + rest.OV) % 2 = (x + y) % 2
  BY <1>4, <1>5, <1>7, <1>8
<1> QED  BY <1>4, <1>5, <1>6, <1>7, <1>9 DEF part, rest, v

----------------------------------------------------------------------------
(* What the addition of zero writes. *)

\* The double word that a mantissa and a characteristic make, read back.
LEMMA ReadBack ==
  ASSUME NEW k \in 0..2 * Bias - 1, NEW m \in 1..Fraction - 1
  PROVE  LET raw == k * Fraction + m
         IN  /\ raw \in 1..Doubles - 1 /\ Opposite(raw) \in 1..Doubles - 1
             /\ mitra_to_double(raw)
                  = [num |-> m, den |-> Fraction, exp |-> k - Bias]
             /\ mitra_to_double(Opposite(raw))
                  = [num |-> -m, den |-> Fraction, exp |-> k - Bias]
<1> DEFINE F == Fraction
           B == Bias
           D == Doubles
           raw == k * F + m
           opposite == Opposite(raw)
<1>1. F \in Nat \ {0} /\ B \in Nat \ {0} /\ D = 4 * B * F /\ D \in Nat \ {0}
  BY RadixPowers, Bounds, FloatingAssumption, Sizes, Products DEF Doubles
<1> HIDE DEF F, B, D
<1>2. k \in Nat /\ k < 2 * B /\ m \in Nat /\ 0 < m /\ m < F
  BY <1>1 DEF F, B
<1>3. raw \in Nat /\ 0 < raw /\ 2 * raw < D
  <2>1. k * F \in Nat /\ (k + 1) * F = k * F + F
    BY <1>1, <1>2
  <2>2. (k + 1) * F <= (2 * B) * F
    BY <1>1, <1>2
  <2>3. 4 * B * F = 2 * ((2 * B) * F) /\ (2 * B) * F \in Nat
    BY <1>1
  <2> QED  BY <1>1, <1>2, <2>1, <2>2, <2>3
<1>4. raw \div F = k /\ raw % F = m
  <2>1. m \in 0..F - 1 /\ k \in Int
    BY <1>1, <1>2
  <2> QED  BY <1>1, <2>1, Divided
<1>5. k % (2 * B) = k
  <2>1. k \in 0..2 * B - 1 /\ 2 * B \in Nat \ {0}
    BY <1>1, <1>2
  <2> QED  BY <2>1
<1> HIDE DEF raw
<1>6. ~IsNegative(raw)
  BY <1>1, <1>3 DEF IsNegative, D
<1>7. opposite = D - raw
  <2> DEFINE x == D - raw
  <2>1. x \in 0..D - 1 /\ -1 \in Int /\ -raw = (-1) * D + x
    BY <1>1, <1>3
  <2>2. Opposite(raw) = (-raw) % D
    BY DEF Opposite, D
  <2> DEFINE minus == -1
  <2>3. minus \in Int /\ -raw = minus * D + x
    BY <2>1
  <2> HIDE DEF x, minus
  <2>4. (minus * D + x) % D = x
    BY <1>1, <2>1, <2>3, Divided
  <2>5. (-raw) % D = x
    BY <2>3, <2>4
  <2> QED  BY <2>2, <2>5 DEF x
<1> HIDE DEF opposite
<1>8. IsNegative(opposite)
  BY <1>1, <1>3, <1>7 DEF IsNegative, D
<1>9. Opposite(opposite) = raw
  <2> DEFINE minus == -1
  <2>1. raw \in 0..D - 1 /\ minus \in Int /\ -opposite = minus * D + raw
    BY <1>1, <1>3, <1>7
  <2>2. Opposite(opposite) = (-opposite) % D
    BY DEF Opposite, D
  <2> HIDE DEF minus
  <2>3. (minus * D + raw) % D = raw
    BY <1>1, <2>1, Divided
  <2>4. (-opposite) % D = raw
    BY <2>1, <2>3
  <2> QED  BY <2>2, <2>4
<1>10. mitra_to_double(raw) = [num |-> m, den |-> Fraction, exp |-> k - Bias]
  BY <1>4, <1>5, <1>6 DEF mitra_to_double, F, B
<1>11. mitra_to_double(opposite) = [num |-> -m, den |-> Fraction, exp |-> k - Bias]
  BY <1>4, <1>5, <1>8, <1>9 DEF mitra_to_double, F, B
<1>12. raw \in 1..Doubles - 1 /\ opposite \in 1..Doubles - 1
  BY <1>1, <1>3, <1>7 DEF D
<1> QED  BY <1>10, <1>11, <1>12 DEF raw, opposite, F

\* A number with nothing added to it.
Alone(a) == [num |-> a.num * Power(a.exp + Bias), den |-> Fraction, exp |-> -Bias]

LEMMA NothingAdded ==
  /\ mitra_to_double(0) = [num |-> 0, den |-> Fraction, exp |-> -Bias]
  /\ \A a : Readable(a) => Combined("FAD", a, mitra_to_double(0)) = Alone(a)
<1> DEFINE zero == [num |-> 0, den |-> Fraction, exp |-> -Bias]
<1>1. Fraction \in Nat \ {0} /\ Bias \in Nat \ {0} /\ Doubles \in Nat \ {0}
  BY RadixPowers, Bounds, Sizes, Products DEF Doubles
<1>2. mitra_to_double(0) = zero
  <2>1. ~IsNegative(0)
    BY <1>1 DEF IsNegative
  <2>2. 0 % Fraction = 0 /\ 0 \div Fraction = 0
    <3>1. 0 \in 0..Fraction - 1 /\ 0 = 0 * Fraction + 0
      BY <1>1
    <3> QED  BY <1>1, <3>1, Divided
  <2>3. 0 % (2 * Bias) = 0
    BY <1>1
  <2>4. 0 - Bias = -Bias
    BY <1>1
  <2> QED  BY <2>1, <2>2, <2>3, <2>4 DEF mitra_to_double
<1>3. ASSUME NEW a, Readable(a) PROVE Combined("FAD", a, zero) = Alone(a)
  <2>1. a.num \in Int /\ a.exp \in -Bias..Bias - 1
    BY <1>3 DEF Readable
  <2>2. Min({a.exp, -Bias}) = -Bias
    <3>1. -Bias \in Int /\ a.exp \in Int /\ -Bias <= a.exp
      BY <1>1, <2>1
    <3>2. -Bias \in {a.exp, -Bias} /\ \A y \in {a.exp, -Bias} : -Bias <= y
      BY <3>1
    <3>3. \A x \in {a.exp, -Bias} : (\A y \in {a.exp, -Bias} : x <= y) => x = -Bias
      BY <3>1
    <3>4. Min({a.exp, -Bias})
            = CHOOSE x \in {a.exp, -Bias} : \A y \in {a.exp, -Bias} : x <= y
      BY DEF Min
    <3> QED  BY <3>2, <3>3, <3>4
  <2>3. a.exp - (-Bias) = a.exp + Bias /\ -Bias - (-Bias) = 0 /\ a.exp + Bias >= 0
    BY <1>1, <2>1
  <2>4. Raised(a.num, a.exp + Bias) = a.num * Power(a.exp + Bias)
    BY <2>3 DEF Raised
  <2>5. Raised(0, 0) = 0
    BY RadixPowers DEF Raised
  <2>6. a.num * Power(a.exp + Bias) \in Int
    <3>1. a.exp + Bias \in Nat
      BY <1>1, <2>1
    <3>2. Power(a.exp + Bias) \in Nat
      BY <3>1, RadixPowers
    <3> QED  BY <2>1, <3>2
  <2>7. Combined("FAD", a, zero) = Sum(a, zero)
    BY DEF Combined
  <2>8. Sum(a, zero) = [num |-> Raised(a.num, a.exp + Bias) + Raised(0, 0),
                        den |-> Fraction, exp |-> -Bias]
    BY <2>2, <2>3 DEF Sum
  <2> QED  BY <2>4, <2>5, <2>6, <2>7, <2>8 DEF Alone
<1> QED  BY <1>2, <1>3

\* What is written for such a number is exact: its digits move to the left.
LEMMA WrittenAlone ==
  ASSUME NEW a, Readable(a), a.num # 0, NEW v, v = Alone(a),
         NEW k, k = Magnitude(v)
  PROVE  /\ Computed(v) /\ v.num # 0
         /\ k \in Int /\ k <= a.exp + Bias
         /\ double_to_mitra(v).status
              \in {"MITRA_FP_OK", "MITRA_FP_UNDERFLOW", "MITRA_FP_OVERFLOW"}
         /\ double_to_mitra(v).status = "MITRA_FP_OK" =>
              LET m == Absolute(a.num) * Power((a.exp + Bias) - k)
                  raw == k * Fraction + m
              IN  /\ k \in 1..2 * Bias - 2
                  /\ m \in 1..Fraction - 1
                  /\ double_to_mitra(v).raw = IF a.num < 0 THEN Opposite(raw) ELSE raw
<1> DEFINE F == Fraction
           B == Bias
           da == a.exp + Bias
           n == Absolute(a.num)
           p == Power(da)
<1>1. /\ F \in Nat \ {0} /\ F >= 2 /\ B \in Nat \ {0}
      /\ a.num \in Int /\ n \in Nat \ {0} /\ n < F
      /\ da \in 0..2 * B - 1 /\ da \in Nat
  <2>1. a.num \in Int /\ a.exp \in -Bias..Bias - 1 /\ n < F
    BY DEF Readable
  <2>2. n \in Nat \ {0}
    BY <2>1, AbsoluteValues
  <2>3. F \in Nat /\ F >= 2
    BY RadixPowers
  <2>4. B \in Nat \ {0}
    BY Bounds
  <2>5. a.exp \in -B..B - 1
    BY <2>1
  <2> HIDE DEF F, B, n
  <2> QED  BY <2>1, <2>2, <2>3, <2>4, <2>5 DEF B
<1>2. p \in Nat \ {0}
  BY <1>1, RadixPowers
<1>3. v.num = a.num * p /\ v.den = F /\ v.exp = -B
  BY DEF Alone
<1>4. Absolute(v.num) = n * p /\ v.num \in Int /\ n * p \in Nat \ {0} /\ v.num # 0
  <2>1. Absolute(p) = p
    BY <1>2 DEF Absolute
  <2>2. v.num \in Int /\ Absolute(v.num) = n * p
    <3> HIDE DEF p
    <3>1. a.num \in Int /\ p \in Int
      BY <1>1, <1>2
    <3>2. a.num * p \in Int /\ Absolute(a.num * p) = Absolute(a.num) * Absolute(p)
      BY <3>1, AbsoluteValues
    <3> QED  BY <1>3, <2>1, <3>2
  <2>3. n * p \in Nat \ {0}
    <3> HIDE DEF n, p
    <3> QED  BY <1>1, <1>2, Products
  <2> QED  BY <2>2, <2>3 DEF Absolute
<1>5. n * p < F * p /\ F * p \in Nat
  <2> HIDE DEF n, p, F
  <2> QED  BY <1>1, <1>2
<1>6. Computed(v)
  <2> DEFINE h == Power(2 * Bias - 1)
             top == Power(2 * (Digits + Bias))
  <2>1. F <= Power(2 * Digits) /\ 2 * (F * h) <= top /\ top \in Nat
    BY Limits, Bounds
  <2>2. p <= h /\ h \in Nat
    <3>1. 2 * Bias - 1 \in Nat /\ da <= 2 * Bias - 1
      BY <1>1
    <3> QED  BY <1>1, <3>1, RadixPowers
  <2> DEFINE u == n * p
  <2>3. u \in Nat /\ u < F * p /\ Absolute(v.num) = u
    BY <1>4, <1>5
  <2> HIDE DEF u, p, h, F, top
  <2>4. F * p <= F * h /\ F * p \in Nat /\ F * h \in Nat
    BY <1>1, <1>2, <2>2
  <2>5. Absolute(v.num) < top
    BY <2>1, <2>3, <2>4
  <2>6. v.exp \in Int
    BY <1>1, <1>3
  <2> QED  BY <1>1, <1>3, <1>4, <2>1, <2>5, <2>6 DEF Computed, top, F
<1>7. k \in Int /\ Below(v, k) /\ ~Below(v, k - 1)
  BY <1>4, <1>6, MagnitudeFound
<1>8. k <= da
  <2> SUFFICES ASSUME k > da PROVE FALSE
    BY <1>1, <1>7
  <2> DEFINE j == k - 1
             q == Power(j)
  <2>1. j \in Nat /\ da <= j
    BY <1>1, <1>7
  <2>2. q \in Nat /\ p <= q
    BY <1>1, <2>1, RadixPowers
  <2>3. Raised(F, j) = F * q
    BY <2>1 DEF Raised
  <2> DEFINE u == n * p
  <2>4. u \in Nat /\ u < F * p /\ Absolute(v.num) = u
    BY <1>4, <1>5
  <2>5. Raised(u, -j) = u
    <3> HIDE DEF u, j
    <3>1. CASE j = 0
      <4>1. Raised(u, -j) = u * Power(0)
        BY <3>1 DEF Raised
      <4> QED  BY <2>4, <4>1, RadixPowers
    <3>2. CASE j # 0
      BY <2>1, <3>2 DEF Raised
    <3> QED  BY <3>1, <3>2
  <2> HIDE DEF u, q, p, F, j
  <2>6. F * p <= F * q /\ F * p \in Nat /\ F * q \in Nat
    BY <1>1, <1>2, <2>2
  <2>7. Below(v, j)
    BY <1>3, <2>3, <2>4, <2>5, <2>6 DEF Below
  <2> QED  BY <1>7, <2>7 DEF j
<1> DEFINE num == Raised(Absolute(v.num), -k)
           den == Raised(v.den, k)
           rounded == (2 * num * F + den) \div (2 * den)
           c == Carried(rounded, k + v.exp)
           full == (c.e + B) * F + c.mantissa
           m == n * Power(da - k)
<1>9. double_to_mitra(v)
        = IF k + v.exp + B <= 0
            THEN [raw |-> 0, status |-> "MITRA_FP_UNDERFLOW"]
          ELSE IF c.e + B >= 2 * B - 1
            THEN [raw |-> 0, status |-> "MITRA_FP_OVERFLOW"]
          ELSE [raw |-> IF v.num < 0 THEN Opposite(full) ELSE full,
                status |-> "MITRA_FP_OK"]
  BY <1>4 DEF double_to_mitra
<1>10. k + v.exp + B = k /\ k + v.exp = k - B
  BY <1>1, <1>3, <1>7
<1>11. v.num < 0 <=> a.num < 0
  <2>1. CASE a.num < 0
    <3>1. (-a.num) * p \in Nat /\ (-a.num) * p = -(a.num * p) /\ a.num * p \in Int
      <4> HIDE DEF p
      <4> QED  BY <1>1, <1>2, <2>1
    <3> HIDE DEF p
    <3> QED  BY <1>3, <1>4, <2>1, <3>1
  <2>2. CASE a.num >= 0
    <3>1. a.num * p >= 0
      <4> HIDE DEF p
      <4> QED  BY <1>1, <1>2, <2>2
    <3> HIDE DEF p
    <3> QED  BY <1>1, <1>3, <1>4, <2>2, <3>1
  <2> QED  BY <1>1, <2>1, <2>2
<1>12. ASSUME k > 0
       PROVE  /\ rounded = m /\ m \in 1..F - 1
              /\ c.e + B = k /\ c.mantissa = m
  <2> DEFINE w == Power(k)
             z == F * w
             s == Power(da - k)
  <2>1. k \in Nat /\ da - k \in Nat /\ k + (da - k) = da
    BY <1>1, <1>7, <1>8, <1>12
  <2>2. w \in Nat \ {0} /\ s \in Nat \ {0} /\ p = w * s
    <3>1. p = Power(k + (da - k))
      BY <2>1
    <3> HIDE DEF da
    <3> QED  BY <2>1, <3>1, RadixPowers
  <2>3. m \in Nat \ {0} /\ n * p = m * w
    <3> HIDE DEF n, w, s, p
    <3>1. n * s \in Nat \ {0}
      BY <1>1, <2>2, Products
    <3>2. n * (w * s) = (n * s) * w
      BY <1>1, <2>2
    <3> QED  BY <2>2, <3>1, <3>2 DEF s
  <2>4. num = m * w /\ den = z
    <3>1. -k < 0 /\ ~(-k >= 0) /\ k >= 0
      BY <1>7, <1>12
    <3>2. num = Absolute(v.num)
      BY <3>1 DEF Raised
    <3>3. den = F * w
      BY <1>3, <3>1 DEF Raised
    <3> QED  BY <1>4, <2>3, <3>2, <3>3
  <2>5. m < F
    <3>1. Raised(Absolute(v.num), -k) < Raised(v.den, k)
      BY <1>7 DEF Below
    <3>2. m * w < F * w
      BY <2>4, <3>1
    <3> HIDE DEF m, w, F
    <3>3. ASSUME m >= F PROVE FALSE
      <4>1. m * w >= F * w /\ m * w \in Nat /\ F * w \in Nat
        BY <1>1, <2>2, <2>3, <3>3
      <4> QED  BY <3>2, <4>1
    <3> QED  BY <1>1, <2>3, <3>3
  <2> HIDE DEF num, den
  <2>6. rounded = m
    <3>1. z \in Nat \ {0}
      <4> HIDE DEF w, F
      <4> QED  BY <1>1, <2>2, Products
    <3>2. 2 * (m * w) * F = m * (2 * z)
      <4> HIDE DEF m, w, F
      <4> QED  BY <1>1, <2>2, <2>3
    <3> HIDE DEF z, m
    <3>3. (m * (2 * z) + z) \div (2 * z) = m
      <4> DEFINE d == 2 * z
      <4>1. d \in Nat \ {0} /\ z \in 0..d - 1 /\ m \in Int
        BY <2>3, <3>1
      <4> HIDE DEF d
      <4>2. (m * d + z) \div d = m
        BY <4>1, Divided
      <4> QED  BY <4>2 DEF d
    <3> QED  BY <2>4, <3>2, <3>3
  <2> HIDE DEF rounded, m
  <2>7. c.e = k + v.exp /\ c.mantissa = m
    BY <1>1, <2>3, <2>5, <2>6 DEF Carried
  <2> HIDE DEF c
  <2>8. c.e + B = k
    BY <1>1, <1>3, <1>7, <2>7
  <2> QED  BY <1>1, <2>3, <2>5, <2>6, <2>7, <2>8
<1> HIDE DEF c, rounded, num, den
<1>13. double_to_mitra(v).status
         \in {"MITRA_FP_OK", "MITRA_FP_UNDERFLOW", "MITRA_FP_OVERFLOW"}
  BY <1>9
<1>14. ASSUME double_to_mitra(v).status = "MITRA_FP_OK"
       PROVE  /\ k \in 1..2 * B - 2
              /\ m \in 1..F - 1
              /\ double_to_mitra(v).raw
                   = IF a.num < 0 THEN Opposite(k * F + m) ELSE k * F + m
  <2>1. ~(k + v.exp + B <= 0) /\ ~(c.e + B >= 2 * B - 1)
    BY <1>9, <1>14
  <2>2. k > 0
    BY <1>7, <1>10, <2>1
  <2>3. c.e + B = k /\ c.mantissa = m /\ m \in 1..F - 1
    BY <1>12, <2>2
  <2>4. k \in 1..2 * B - 2
    BY <1>1, <1>7, <2>1, <2>2, <2>3
  <2>5. full = k * F + m
    BY <2>3
  <2> HIDE DEF full, m
  <2> QED  BY <1>9, <1>11, <2>1, <2>3, <2>4, <2>5
<1>15. k <= a.exp + Bias
  BY <1>8
<1>16. ASSUME double_to_mitra(v).status = "MITRA_FP_OK"
       PROVE  LET mm == Absolute(a.num) * Power((a.exp + Bias) - k)
                  rr == k * Fraction + mm
              IN  /\ k \in 1..2 * Bias - 2
                  /\ mm \in 1..Fraction - 1
                  /\ double_to_mitra(v).raw = IF a.num < 0 THEN Opposite(rr) ELSE rr
  BY <1>14, <1>16
<1> QED  BY <1>4, <1>6, <1>7, <1>13, <1>15, <1>16

\* Adding zero once more to what it left: the value stays, and the result too.
LEMMA WrittenAgain ==
  ASSUME NEW a, Readable(a),
         double_to_mitra(Alone(a)).status \in {"MITRA_FP_OK", "MITRA_FP_ZERO"}
  PROVE  LET raw == double_to_mitra(Alone(a)).raw
         IN  /\ Sum(mitra_to_double(raw), [a EXCEPT !.num = -@]).num = 0
             /\ Alone(mitra_to_double(raw)) = Alone(a)
<1> DEFINE F == Fraction
           B == Bias
           da == a.exp + Bias
           v == Alone(a)
           k == Magnitude(v)
           raw == double_to_mitra(v).raw
           once == mitra_to_double(raw)
           c == [a EXCEPT !.num = -@]
<1>1. /\ a \in [num : Int, den : {Fraction}, exp : -Bias..Bias - 1]
      /\ a.num \in Int /\ da \in Nat /\ da - B = a.exp /\ B \in Nat \ {0}
      /\ a.exp \in -B..B - 1 /\ a.exp \in Int
  <2>1. B \in Nat \ {0}
    BY Bounds
  <2>2. a \in [num : Int, den : {Fraction}, exp : -Bias..Bias - 1]
    BY DEF Readable
  <2>3. a.exp \in -B..B - 1 /\ a.num \in Int
    BY <2>2
  <2> QED  BY <2>1, <2>2, <2>3
<1>2. c.num = -a.num /\ c.exp = a.exp
  BY <1>1
<1> HIDE DEF c
<1>3. CASE a.num = 0
  <2>1. v.num = 0 /\ v = [num |-> 0, den |-> F, exp |-> -B]
    <3>1. Power(da) \in Int
      BY <1>1, RadixPowers
    <3>2. 0 * Power(da) = 0
      BY <3>1
    <3> QED  BY <1>3, <3>2 DEF Alone
  <2>2. raw = 0
    BY <2>1 DEF double_to_mitra
  <2>3. once = [num |-> 0, den |-> F, exp |-> -B]
    BY <2>2, NothingAdded
  <2>4. \A j \in Int : Raised(0, j) = 0
    <3> TAKE j \in Int
    <3>1. CASE j >= 0
      <4>1. j \in Nat
        BY <3>1
      <4>2. Power(j) \in Nat
        BY <4>1, RadixPowers
      <4> QED  BY <3>1, <4>2 DEF Raised
    <3>2. CASE ~(j >= 0)
      BY <3>2 DEF Raised
    <3> QED  BY <3>1, <3>2
  <2> DEFINE exp == Min({once.exp, c.exp})
  <2>5. exp \in Int
    <3>1. once.exp \in Int /\ c.exp \in Int
      BY <1>1, <1>2, <2>3
    <3>2. \E x \in {once.exp, c.exp} : \A y \in {once.exp, c.exp} : x <= y
      BY <3>1
    <3>3. exp = CHOOSE x \in {once.exp, c.exp} : \A y \in {once.exp, c.exp} : x <= y
      BY DEF Min
    <3> HIDE DEF exp, once
    <3> QED  BY <3>1, <3>2, <3>3
  <2>6. Sum(once, c).num = Raised(once.num, once.exp - exp) + Raised(c.num, c.exp - exp)
    BY DEF Sum
  <2>7. once.num = 0 /\ c.num = 0 /\ once.exp - exp \in Int /\ c.exp - exp \in Int
    <3>1. once.num = 0 /\ once.exp = -B
      BY <2>3
    <3>2. -B \in Int
      BY <1>1
    <3>3. c.num = 0
      <4>1. -a.num = 0
        <5> DEFINE i == a.num
        <5>1. i \in Int /\ i <= 0 /\ i >= 0
          BY <1>1, <1>3
        <5> HIDE DEF i
        <5>2. -i = 0
          BY <5>1
        <5> QED  BY <5>2 DEF i
      <4> QED  BY <1>2, <4>1
    <3>4. c.exp \in Int
      BY <1>1, <1>2
    <3> HIDE DEF exp, once, B
    <3> QED  BY <2>5, <3>1, <3>2, <3>3, <3>4
  <2> HIDE DEF exp
  <2>8. Sum(once, c).num = 0
    BY <2>4, <2>6, <2>7
  <2>9. Alone(once) = v
    <3>1. once.exp + Bias = 0 /\ once.num = 0
      BY <1>1, <2>3
    <3>2. 0 * Power(0) = 0
      BY RadixPowers
    <3> QED  BY <2>1, <3>1, <3>2 DEF Alone
  <2> QED  BY <2>8, <2>9 DEF c
<1>4. CASE a.num # 0
  <2> DEFINE n == Absolute(a.num)
             s == Power(da - k)
             m == n * s
             full == k * F + m
  <2>1. /\ v.num # 0 /\ k \in Int /\ k <= da
        /\ k \in 1..2 * B - 2 /\ m \in 1..F - 1
        /\ raw = IF a.num < 0 THEN Opposite(full) ELSE full
    <3>1. /\ v.num # 0 /\ k \in Int /\ k <= da
          /\ double_to_mitra(v).status # "MITRA_FP_ZERO"
          /\ double_to_mitra(v).status = "MITRA_FP_OK" =>
               /\ k \in 1..2 * B - 2 /\ m \in 1..F - 1
               /\ raw = IF a.num < 0 THEN Opposite(full) ELSE full
      BY <1>4, WrittenAlone
    <3> QED  BY <3>1
  <2>2. /\ mitra_to_double(full) = [num |-> m, den |-> F, exp |-> k - B]
        /\ mitra_to_double(Opposite(full)) = [num |-> -m, den |-> F, exp |-> k - B]
    <3>1. k \in 0..2 * B - 1
      BY <1>1, <2>1
    <3> HIDE DEF k, m
    <3> QED  BY <2>1, <3>1, ReadBack
  <2> DEFINE x == IF a.num < 0 THEN -m ELSE m
  <2>3. once = [num |-> x, den |-> F, exp |-> k - B]
    BY <2>1, <2>2
  <2>4. s \in Nat \ {0} /\ da - k \in Nat /\ k \in Nat
    <3>1. da - k \in Nat /\ k \in Nat
      BY <1>1, <2>1
    <3> HIDE DEF da, k
    <3> QED  BY <3>1, RadixPowers
  <2>5. x = a.num * s /\ x \in Int
    <3> DEFINE u == a.num
    <3>1. u \in Int /\ s \in Nat
      BY <1>1, <2>4
    <3> HIDE DEF s, u
    <3>2. (-u) * s = -(u * s) /\ u * s \in Int
      BY <3>1
    <3>3. n = IF u < 0 THEN -u ELSE u
      BY DEF Absolute, u
    <3>4. -(-(u * s)) = u * s
      BY <3>2
    <3>5. x = IF u < 0 THEN -(n * s) ELSE n * s
      BY DEF u
    <3> HIDE DEF x, n
    <3> QED  BY <3>2, <3>3, <3>4, <3>5 DEF u
  <2> HIDE DEF x
  <2>6. k - B \in Int /\ k - B <= a.exp /\ a.exp - (k - B) = da - k
        /\ (k - B) - (k - B) = 0 /\ (k - B) + B = k
    BY <1>1, <2>1
  <2> DEFINE lo == k - B
  <2>7. Min({once.exp, c.exp}) = lo
    <3>1. once.exp = lo /\ c.exp = a.exp /\ lo \in Int /\ a.exp \in Int /\ lo <= a.exp
      BY <1>1, <1>2, <2>3, <2>6
    <3> HIDE DEF lo, once
    <3>2. lo \in {lo, a.exp} /\ \A y \in {lo, a.exp} : lo <= y
      BY <3>1
    <3>3. \A z \in {lo, a.exp} : (\A y \in {lo, a.exp} : z <= y) => z = lo
      BY <3>1
    <3>4. Min({lo, a.exp})
            = CHOOSE z \in {lo, a.exp} : \A y \in {lo, a.exp} : z <= y
      BY DEF Min
    <3> QED  BY <3>1, <3>2, <3>3, <3>4
  <2>8. Sum(once, c).num
          = Raised(once.num, once.exp - lo) + Raised(c.num, c.exp - lo)
    BY <2>7 DEF Sum
  <2>9. Raised(x, 0) = x
    BY <2>5, RadixPowers DEF Raised
  <2>10. Raised(-a.num, da - k) = -x
    <3>1. Raised(-a.num, da - k) = (-a.num) * s
      BY <2>4 DEF Raised
    <3> HIDE DEF s
    <3>2. (-a.num) * s = -(a.num * s)
      BY <1>1, <2>4
    <3> QED  BY <2>5, <3>1, <3>2
  <2>11. Sum(once, c).num = 0
    <3>1. once.num = x /\ once.exp - lo = 0 /\ c.num = -a.num /\ c.exp - lo = da - k
      BY <1>2, <2>3, <2>6
    <3>2. x + (-x) = 0
      BY <2>5
    <3> HIDE DEF once, lo, k, da
    <3> QED  BY <2>8, <2>9, <2>10, <3>1, <3>2
  <2>12. Alone(once) = v
    <3> DEFINE w == Power(k)
    <3>1. Power(da) = w * s /\ w \in Nat
      <4>1. da = k + (da - k)
        BY <1>1, <2>1
      <4>2. Power(k + (da - k)) = w * s
        <5> HIDE DEF k, da
        <5> QED  BY <2>4, RadixPowers
      <4> QED  BY <2>4, <4>1, <4>2, RadixPowers
    <3>2. x * w = a.num * Power(da)
      <4> DEFINE u == a.num
      <4>1. u \in Int
        BY <1>1
      <4> HIDE DEF s, w, u
      <4>2. (u * s) * w = u * (w * s)
        BY <2>4, <3>1, <4>1
      <4> QED  BY <2>5, <3>1, <4>2 DEF u
    <3>3. once.num = x /\ once.exp + Bias = k
      BY <2>3, <2>6
    <3> HIDE DEF once, x, k
    <3> QED  BY <3>2, <3>3 DEF Alone, w
  <2> QED  BY <2>11, <2>12 DEF c
<1> QED  BY <1>3, <1>4

\* FloatNormalForm in every state of the type.
LEMMA NormalFormInType ==
  TypeOK => FloatNormalForm
<1> SUFFICES ASSUME TypeOK
             PROVE  LET once == floating_inst("FAD", cpu, 0)
                    IN  once.OV = 0 =>
                          /\ Sum(mitra_to_double(Double(once)),
                                 [mitra_to_double(Double(cpu)) EXCEPT !.num = -@]).num = 0
                          /\ floating_inst("FAD", once, 0) = once
  BY DEF FloatNormalForm
<1> DEFINE a == mitra_to_double(Double(cpu))
           result == double_to_mitra(Alone(a))
           raw == result.raw
           e == raw \div Modulus
           l == raw % Modulus
           c == Test(result.status \in {"MITRA_FP_ZERO", "MITRA_FP_UNDERFLOW"})
           o == Test(result.status \in {"MITRA_FP_OVERFLOW", "MITRA_FP_UNDERFLOW"})
           Written(r) == [[r EXCEPT !.E = e, !.A = l] EXCEPT !.C = c, !.OV = o]
           once == floating_inst("FAD", cpu, 0)
<1>1. cpu \in Registers /\ cpu.E \in Word /\ cpu.A \in Word
  BY DEF TypeOK, Registers
<1>2. Readable(a)
  <2>1. Double(cpu) \in Int
    BY <1>1, Sizes DEF Double, Word
  <2> QED  BY <2>1, ReadType
<1> HIDE DEF a
<1>3. ASSUME NEW r, Alone(mitra_to_double(Double(r))) = Alone(a),
             Readable(mitra_to_double(Double(r)))
      PROVE  floating_inst("FAD", r, 0) = Written(r)
  <2> DEFINE b == mitra_to_double(Double(r))
  <2>2. Combined("FAD", b, mitra_to_double(0)) = Alone(a)
    BY <1>3, NothingAdded
  <2>3. floating_inst("FAD", r, 0)
          = set_condition_codes_float([r EXCEPT !.E = e, !.A = l], result.status)
    BY <2>2 DEF floating_inst
  <2> QED  BY <2>3 DEF set_condition_codes_float
<1>4. once = Written(cpu)
  BY <1>2, <1>3 DEF a
<1>5. raw \in 0..Doubles - 1
  <2>1. Computed(Alone(a))
    <3>1. Combined("FAD", a, mitra_to_double(0)) = Alone(a)
      BY <1>2, NothingAdded
    <3>2. Readable(mitra_to_double(0))
      BY ReadType
    <3> QED  BY <1>2, <3>1, <3>2, CombinedType DEF FloatOperations
  <2> QED  BY <2>1, RawType
<1>6. e \in Word /\ l \in Word /\ e * Modulus + l = raw
  BY <1>5, TwoWords
<1>7. c \in Flag /\ o \in Flag
  BY Bit
<1> HIDE DEF result, e, l, c, o, once
<1>8. once \in Registers /\ once.E = e /\ once.A = l /\ once.C = c /\ once.OV = o
  <2>1. cpu \in Registers /\ e \in Word /\ l \in Word /\ c \in Flag /\ o \in Flag
    BY <1>1, <1>6, <1>7
  <2> QED  BY <1>4, <2>1 DEF Registers
<1>9. Double(once) = raw
  BY <1>6, <1>8 DEF Double
<1>10. SUFFICES ASSUME o = 0
                PROVE  /\ Sum(mitra_to_double(raw), [a EXCEPT !.num = -@]).num = 0
                       /\ floating_inst("FAD", once, 0) = once
  BY <1>8, <1>9 DEF a, once
<1>11. result.status \in {"MITRA_FP_OK", "MITRA_FP_ZERO"}
  <2>1. result.status \in FpStatus
    BY DEF result, double_to_mitra, FpStatus
  <2>2. result.status \notin {"MITRA_FP_OVERFLOW", "MITRA_FP_UNDERFLOW"}
    BY <1>10 DEF o, Test
  <2> QED  BY <2>1, <2>2 DEF FpStatus
<1>12. /\ Sum(mitra_to_double(raw), [a EXCEPT !.num = -@]).num = 0
       /\ Alone(mitra_to_double(raw)) = Alone(a)
  BY <1>2, <1>11, WrittenAgain DEF result
<1>13. floating_inst("FAD", once, 0) = Written(once)
  <2>1. raw \in Int
    BY <1>5, Sizes DEF Doubles
  <2>2. Readable(mitra_to_double(raw))
    BY <2>1, ReadType
  <2> QED  BY <1>3, <1>9, <1>12, <2>2
<1>14. Written(once) = once
  <2>1. [[once EXCEPT !.E = once.E, !.A = once.A] EXCEPT !.C = once.C, !.OV = once.OV] = once
    BY <1>8 DEF Registers
  <2> QED  BY <1>8, <2>1
<1> QED  BY <1>12, <1>13, <1>14

----------------------------------------------------------------------------
(* The order of the sums. *)

\* What a quotient is at least, and what a common factor does to it.
LEMMA QuotientBound ==
  ASSUME NEW x \in Nat, NEW d \in Nat \ {0}, NEW q \in Int
  PROVE  x \div d \in Nat /\ (q <= x \div d <=> q * d <= x)
<1> DEFINE p == x \div d
           r == x % d
<1>1. p \in Nat /\ r \in 0..d - 1 /\ x = p * d + r
  OBVIOUS
<1> HIDE DEF p, r
<1>2. p * d \in Int /\ q * d \in Int
  BY <1>1
<1>3. ASSUME q <= p PROVE q * d <= x
  <2>1. q * d <= p * d
    BY <1>1, <1>3
  <2> QED  BY <1>1, <1>2, <2>1
<1>4. ASSUME p < q PROVE x < q * d
  <2>1. (p + 1) * d <= q * d /\ (p + 1) * d = p * d + d
    BY <1>1, <1>4
  <2> QED  BY <1>1, <1>2, <2>1
<1> QED  BY <1>1, <1>2, <1>3, <1>4 DEF p

LEMMA CommonFactor ==
  ASSUME NEW y \in Nat, NEW z \in Nat \ {0}, NEW c \in Nat \ {0}
  PROVE  (c * y) \div (c * z) = y \div z
<1> DEFINE p == y \div z
           r == y % z
<1>1. p \in Nat /\ r \in 0..z - 1 /\ y = p * z + r
  OBVIOUS
<1> HIDE DEF p, r
<1>2. c * z \in Nat \ {0} /\ c * r \in Nat
  BY <1>1, Products
<1>3. c * r <= c * z - 1
  <2>1. c * r <= c * (z - 1) /\ c * (z - 1) = c * z - c
    BY <1>1
  <2> QED  BY <1>2, <2>1
<1>4. c * y = p * (c * z) + c * r
  <2>1. c * (p * z + r) = p * (c * z) + c * r
    BY <1>1
  <2> QED  BY <1>1, <2>1
<1> DEFINE d == c * z
           s == c * r
<1>5. d \in Nat \ {0} /\ s \in 0..d - 1 /\ p \in Int
  BY <1>1, <1>2, <1>3
<1> HIDE DEF d, s
<1>6. (p * d + s) \div d = p
  BY <1>5, Divided
<1> QED  BY <1>4, <1>6 DEF d, s, p

\* A readable number in units of the smallest one.
Scaled(v) == v.num * Power(v.exp + Bias)

\* The sum of two numbers is the exact one.
LEMMA SumParts ==
  ASSUME NEW a, NEW b,
         a.num \in Int, a.exp \in -Bias..Bias - 1,
         b.num \in Int, b.exp \in -Bias..Bias - 1
  PROVE  /\ Sum(a, b).num \in Int /\ Sum(a, b).den = Fraction
         /\ Sum(a, b).exp \in -Bias..Bias - 1
         /\ Sum(a, b).exp + Bias \in Nat
         /\ Scaled(a) \in Int /\ Scaled(b) \in Int
         /\ Scaled(Sum(a, b)) = Scaled(a) + Scaled(b)
<1> DEFINE B == Bias
           exp == Min({a.exp, b.exp})
           i == a.exp - exp
           j == b.exp - exp
           x == Raised(a.num, i)
           y == Raised(b.num, j)
<1>1. B \in Nat \ {0}
  BY Bounds
<1>2. a.exp \in -B..B - 1 /\ b.exp \in -B..B - 1
  OBVIOUS
<1> HIDE DEF B
<1>3. exp \in {a.exp, b.exp} /\ exp <= a.exp /\ exp <= b.exp
  <2>1. \E u \in {a.exp, b.exp} : \A w \in {a.exp, b.exp} : u <= w
    BY <1>1, <1>2
  <2>2. exp = CHOOSE u \in {a.exp, b.exp} : \A w \in {a.exp, b.exp} : u <= w
    BY DEF Min
  <2> HIDE DEF exp
  <2> QED  BY <2>1, <2>2
<1>4. Sum(a, b) = [num |-> x + y, den |-> Fraction, exp |-> exp]
  BY DEF Sum
<1> HIDE DEF exp
<1> DEFINE e == exp + B
           da == a.exp + B
           db == b.exp + B
<1>5. /\ exp \in -B..B - 1 /\ i \in Nat /\ j \in Nat
      /\ e \in Nat /\ da = i + e /\ db = j + e
  BY <1>1, <1>2, <1>3
<1>6. Scaled(a) = a.num * Power(da) /\ Scaled(b) = b.num * Power(db)
  BY DEF Scaled, B
<1> HIDE DEF i, j, e, da, db
<1> DEFINE pe == Power(e)
           pi == Power(i)
           pj == Power(j)
           u == a.num
           w == b.num
<1>7. pe \in Nat /\ pi \in Nat /\ pj \in Nat /\ u \in Int /\ w \in Int
  BY <1>5, RadixPowers
<1>8. Power(da) = pi * pe /\ Power(db) = pj * pe
  BY <1>5, RadixPowers
<1>9. x = u * pi /\ y = w * pj
  BY <1>5 DEF Raised
<1>10. Scaled(Sum(a, b)) = (u * pi + w * pj) * pe
  BY <1>4, <1>9 DEF Scaled, e, B
<1> HIDE DEF pe, pi, pj, u, w, x, y
<1>11. /\ u * pi \in Int /\ w * pj \in Int /\ u * (pi * pe) \in Int /\ w * (pj * pe) \in Int
       /\ (u * pi + w * pj) * pe = u * (pi * pe) + w * (pj * pe)
  BY <1>7
<1>12. Scaled(a) = u * (pi * pe) /\ Scaled(b) = w * (pj * pe)
  BY <1>6, <1>8 DEF u, w
<1>13. Sum(a, b).num \in Int
  <2>1. u * pi + w * pj \in Int
    BY <1>11
  <2> QED  BY <1>4, <1>9, <2>1
<1>14. /\ Sum(a, b).den = Fraction /\ Sum(a, b).exp \in -Bias..Bias - 1
       /\ Sum(a, b).exp + Bias \in Nat
  BY <1>4, <1>5 DEF e, B
<1> QED  BY <1>10, <1>11, <1>12, <1>13, <1>14

\* The order of two numbers, by the sign of their difference.
LEMMA ScaledOrder ==
  ASSUME NEW a, Readable(a), NEW b, Readable(b)
  PROVE  /\ Scaled(a) \in Int /\ Scaled(b) \in Int
         /\ Sum(a, [b EXCEPT !.num = -@]).num <= 0 <=> Scaled(a) <= Scaled(b)
<1> DEFINE c == [b EXCEPT !.num = -@]
           s == Sum(a, c)
<1>1. /\ b \in [num : Int, den : {Fraction}, exp : -Bias..Bias - 1]
      /\ a \in [num : Int, den : {Fraction}, exp : -Bias..Bias - 1]
  BY DEF Readable
<1>2. c.num = -b.num /\ c.exp = b.exp
  BY <1>1
<1> HIDE DEF c
<1>3. /\ a.num \in Int /\ a.exp \in -Bias..Bias - 1
      /\ b.num \in Int /\ b.exp \in -Bias..Bias - 1
      /\ c.num \in Int /\ c.exp \in -Bias..Bias - 1
  BY <1>1, <1>2
<1>4. /\ s.num \in Int /\ s.exp + Bias \in Nat
      /\ Scaled(a) \in Int /\ Scaled(c) \in Int /\ Scaled(s) = Scaled(a) + Scaled(c)
  BY <1>3, SumParts
<1>5. Scaled(b) \in Int
  BY <1>3, SumParts
<1> DEFINE p == Power(b.exp + Bias)
           q == Power(s.exp + Bias)
           n == s.num
           u == b.num
<1>6. p \in Nat \ {0} /\ q \in Nat \ {0}
  <2>1. b.exp + Bias \in Nat
    BY <1>3, Bounds
  <2> QED  BY <1>4, <2>1, RadixPowers
<1>7. Scaled(b) = u * p /\ Scaled(c) = (-u) * p /\ Scaled(s) = n * q
  BY <1>2 DEF Scaled
<1>8. u \in Int /\ n \in Int
  BY <1>3, <1>4
<1> HIDE DEF s, p, q, n, u
<1>9. (-u) * p = -(u * p) /\ u * p \in Int /\ n * q \in Int
  BY <1>6, <1>8
<1>10. n <= 0 <=> n * q <= 0
  <2>1. CASE n <= 0
    <3>1. n * q <= 0
      BY <1>6, <1>8, <2>1
    <3> QED  BY <2>1, <3>1
  <2>2. CASE n > 0
    <3>1. n * q > 0
      <4>1. n \in Nat \ {0}
        BY <1>8, <2>2
      <4> QED  BY <1>6, <4>1, Products
    <3> QED  BY <1>8, <1>9, <2>2, <3>1
  <2> QED  BY <1>8, <2>1, <2>2
<1>11. n * q <= 0 <=> Scaled(a) <= Scaled(b)
  BY <1>4, <1>7, <1>9
<1> QED  BY <1>4, <1>5, <1>10, <1>11 DEF n, s, c

\* The mantissa that a magnitude is rounded to in units of Power(t), and the
\* magnitudes that have t as their characteristic.
Rounded(x, t) == (2 * x + Power(t)) \div (2 * Power(t))
InDigits(x, t) ==
  /\ x \in Nat /\ t \in Nat \ {0}
  /\ Fraction * Power(t - 1) <= x /\ x < Fraction * Power(t)

\* The first of the Digits digits.
LEMMA FirstDigit ==
  LET first == Power(Digits - 1)
  IN  /\ first \in Nat \ {0} /\ first < Fraction
      /\ Radix * first = Fraction /\ Fraction \div Radix = first
      /\ \A t \in Nat \ {0} : Fraction * Power(t - 1) = first * Power(t)
<1> DEFINE p == Power(Digits - 1)
           F == Fraction
           R == Radix
<1>1. Digits - 1 \in Nat /\ Digits = 1 + (Digits - 1) /\ 1 \in Nat
  BY Bounds
<1>2. p \in Nat \ {0} /\ R \in Nat /\ R >= 2 /\ F \in Nat
  BY <1>1, RadixPowers
<1>3. F = R * p
  <2>1. Power(1 + (Digits - 1)) = Power(1) * p
    BY <1>1, RadixPowers
  <2> QED  BY <1>1, <2>1 DEF Fraction, Radix
<1>4. ASSUME NEW t \in Nat \ {0} PROVE F * Power(t - 1) = p * Power(t)
  <2> DEFINE q == Power(t - 1)
  <2>1. t - 1 \in Nat /\ t = 1 + (t - 1)
    OBVIOUS
  <2>2. Power(1 + (t - 1)) = Power(1) * q /\ q \in Nat
    BY <1>1, <2>1, RadixPowers
  <2>3. Power(t) = R * q
    BY <2>1, <2>2 DEF Radix
  <2> HIDE DEF p, q, R, F
  <2>4. (R * p) * q = p * (R * q)
    BY <1>2, <2>2
  <2> QED  BY <1>3, <2>3, <2>4 DEF q
<1>5. p < F /\ F \div R = p
  <2> HIDE DEF p, F, R
  <2>1. R * p >= 2 * p
    BY <1>2
  <2>2. 0 \in 0..R - 1 /\ R \in Nat \ {0} /\ p \in Int /\ R * p = p * R + 0
    BY <1>2
  <2>3. (p * R + 0) \div R = p
    BY <2>2, Divided
  <2> QED  BY <1>2, <1>3, <2>1, <2>2, <2>3
<1> QED  BY <1>2, <1>3, <1>4, <1>5

\* A rounded mantissa has the digits of a mantissa, or carries to Fraction.
LEMMA RoundedBounds ==
  ASSUME NEW x, NEW t, InDigits(x, t)
  PROVE  /\ Rounded(x, t) \in Nat \ {0}
         /\ Power(Digits - 1) <= Rounded(x, t)
         /\ Rounded(x, t) <= Fraction
<1> DEFINE F == Fraction
           P == Power(t)
           f == Power(Digits - 1)
           y == 2 * x + P
           d == 2 * P
<1>1. F \in Nat /\ P \in Nat \ {0} /\ f \in Nat \ {0} /\ x \in Nat
  BY RadixPowers, FirstDigit DEF InDigits
<1>2. f * P <= x /\ x < F * P
  BY FirstDigit DEF InDigits
<1> HIDE DEF F, P, f
<1>3. y \in Nat /\ d \in Nat \ {0}
  BY <1>1
<1>4. f * d <= y
  <2>1. f * d = 2 * (f * P) /\ f * P \in Nat
    BY <1>1
  <2> QED  BY <1>1, <1>2, <1>3, <2>1
<1>5. ~((F + 1) * d <= y)
  <2>1. (F + 1) * d = 2 * (F * P) + 2 * P /\ F * P \in Nat
    BY <1>1
  <2> QED  BY <1>1, <1>2, <1>3, <2>1
<1>6. Rounded(x, t) = y \div d
  BY DEF Rounded, P
<1> HIDE DEF y, d
<1>7. y \div d \in Nat /\ (f <= y \div d <=> f * d <= y)
      /\ (F + 1 <= y \div d <=> (F + 1) * d <= y)
  <2>1. f \in Int /\ F + 1 \in Int
    BY <1>1
  <2>2. y \div d \in Nat /\ (f <= y \div d <=> f * d <= y)
    BY <1>3, <2>1, QuotientBound
  <2>3. F + 1 <= y \div d <=> (F + 1) * d <= y
    BY <1>3, <2>1, QuotientBound
  <2> QED  BY <2>2, <2>3
<1> QED  BY <1>1, <1>4, <1>5, <1>6, <1>7 DEF f, F

\* Rounding keeps the order of magnitudes, across characteristics too.
LEMMA RoundingOrdered ==
  ASSUME NEW x, NEW t, InDigits(x, t), NEW y, NEW u, InDigits(y, u), x <= y
  PROVE  Rounded(x, t) * Power(t) <= Rounded(y, u) * Power(u)
<1> DEFINE F == Fraction
           P == Power(t)
           Q == Power(u)
           f == Power(Digits - 1)
           m == Rounded(x, t)
           n == Rounded(y, u)
<1>1. /\ F \in Nat /\ P \in Nat \ {0} /\ Q \in Nat \ {0} /\ f \in Nat
      /\ x \in Nat /\ y \in Nat /\ t \in Nat \ {0} /\ u \in Nat \ {0}
  BY RadixPowers, FirstDigit DEF InDigits
<1>2. m \in Nat /\ n \in Nat /\ m <= F /\ f <= n
  BY RoundedBounds
<1>3. CASE t = u
  <2> DEFINE a == 2 * x + P
             b == 2 * y + P
             d == 2 * P
  <2>1. a \in Nat /\ b \in Nat /\ d \in Nat \ {0} /\ a <= b
    BY <1>1
  <2>2. m = a \div d /\ n = b \div d
    BY <1>3 DEF Rounded
  <2> HIDE DEF a, b, d, m, n
  <2>3. m * d <= a
    <3>1. m \in Int /\ (m <= a \div d <=> m * d <= a)
      BY <1>2, <2>1, QuotientBound
    <3> QED  BY <1>2, <2>2, <3>1
  <2>4. m <= n
    <3>1. m \in Int /\ m * d \in Int
      BY <1>2, <2>1
    <3>2. m <= b \div d <=> m * d <= b
      BY <2>1, <3>1, QuotientBound
    <3> QED  BY <2>1, <2>2, <2>3, <3>1, <3>2
  <2> HIDE DEF P, Q
  <2>5. m * P <= n * P
    BY <1>1, <1>2, <2>4
  <2> QED  BY <1>3, <2>5 DEF P, Q, m, n
<1>4. CASE t < u
  <2> DEFINE w == Power(u - 1)
  <2>1. w \in Nat /\ P <= w
    <3>1. u - 1 \in Nat /\ t <= u - 1
      BY <1>1, <1>4
    <3> QED  BY <1>1, <3>1, RadixPowers
  <2>2. F * w = f * Q
    BY <1>1, FirstDigit
  <2> HIDE DEF F, P, Q, f, m, n, w
  <2>3. m * P <= F * P
    BY <1>1, <1>2
  <2>4. F * P <= F * w
    BY <1>1, <2>1
  <2>5. f * Q <= n * Q
    BY <1>1, <1>2
  <2>6. m * P \in Int /\ F * P \in Int /\ F * w \in Int /\ n * Q \in Int
    BY <1>1, <1>2, <2>1
  <2>7. m * P <= n * Q
    BY <2>2, <2>3, <2>4, <2>5, <2>6
  <2> QED  BY <2>7 DEF m, n, P, Q
<1>5. ASSUME u < t PROVE FALSE
  <2> DEFINE w == Power(t - 1)
  <2>1. w \in Nat /\ Q <= w
    <3>1. t - 1 \in Nat /\ u <= t - 1
      BY <1>1, <1>5
    <3> QED  BY <1>1, <3>1, RadixPowers
  <2>2. y < F * Q /\ F * w <= x
    BY DEF InDigits
  <2> HIDE DEF F, Q, w
  <2>3. F * Q <= F * w /\ F * Q \in Int /\ F * w \in Int
    BY <1>1, <2>1
  <2> QED  BY <1>1, <2>2, <2>3
<1> QED  BY <1>1, <1>3, <1>4, <1>5

\* The search of the magnitude, in units of the smallest number.
LEMMA BelowScaled ==
  ASSUME NEW v, v.num \in Int, v.den = Fraction, v.exp + Bias \in Nat,
         NEW k \in Int, k + (v.exp + Bias) \in Nat
  PROVE  Below(v, k)
           <=> Absolute(v.num) * Power(v.exp + Bias)
                 < Fraction * Power(k + (v.exp + Bias))
<1> DEFINE n == Absolute(v.num)
           d == v.exp + Bias
           t == k + d
           F == Fraction
           P == Power(d)
           T == Power(t)
<1>1. n \in Nat /\ F \in Nat /\ d \in Nat /\ t \in Nat /\ v.den = F
  BY AbsoluteValues, RadixPowers
<1>2. P \in Nat \ {0} /\ T \in Nat \ {0}
  BY <1>1, RadixPowers
<1>3. Below(v, k) <=> Raised(n, -k) < Raised(F, k)
  BY <1>1 DEF Below
<1>4. CASE k >= 0
  <2> DEFINE K == Power(k)
  <2>1. K \in Nat /\ T = K * P
    <3>1. k \in Nat
      BY <1>4
    <3> HIDE DEF d
    <3> QED  BY <1>1, <3>1, RadixPowers
  <2>2. Raised(n, -k) = n
    <3>1. CASE k = 0
      <4>1. -k = 0
        <5>1. k \in Int /\ k >= 0 /\ k <= 0
          BY <3>1
        <5> QED  BY <5>1
      <4>2. Power(0) = 1
        BY RadixPowers
      <4> HIDE DEF n
      <4> QED  BY <1>1, <4>1, <4>2 DEF Raised
    <3>2. CASE k # 0
      <4>1. ~(-k >= 0)
        BY <1>4, <3>2
      <4> QED  BY <4>1 DEF Raised
    <3> QED  BY <3>1, <3>2
  <2>3. Raised(F, k) = F * K
    BY <1>4 DEF Raised
  <2> HIDE DEF n, F, P, T, K
  <2>4. F * T = (F * K) * P /\ F * K \in Int
    BY <1>1, <1>2, <2>1
  <2> DEFINE z == F * K
  <2>5. z \in Int
    BY <2>4
  <2> HIDE DEF z
  <2>6. n < z <=> n * P < z * P
    <3>1. ASSUME n < z PROVE n * P < z * P
      BY <1>1, <1>2, <2>5, <3>1
    <3>2. ASSUME z <= n PROVE z * P <= n * P
      BY <1>1, <1>2, <2>5, <3>2
    <3>3. z * P \in Int /\ n * P \in Int
      BY <1>1, <1>2, <2>5
    <3> QED  BY <1>1, <2>5, <3>1, <3>2, <3>3
  <2> QED  BY <1>3, <2>2, <2>3, <2>4, <2>6 DEF z, n, P, F, T, t, d
<1>5. CASE k < 0
  <2> DEFINE K == Power(-k)
  <2>1. K \in Nat /\ P = K * T
    <3>1. -k \in Nat /\ d = (-k) + t
      BY <1>1, <1>5
    <3> HIDE DEF d, t
    <3> QED  BY <1>1, <3>1, RadixPowers
  <2>2. Raised(n, -k) = n * K /\ Raised(F, k) = F
    <3>1. -k >= 0 /\ ~(k >= 0)
      BY <1>5
    <3> QED  BY <3>1 DEF Raised
  <2> HIDE DEF n, F, P, T, K
  <2>3. n * P = (n * K) * T
    BY <1>1, <1>2, <2>1
  <2> DEFINE z == n * K
  <2>4. z \in Int
    BY <1>1, <2>1
  <2> HIDE DEF z
  <2>5. z < F <=> z * T < F * T
    <3>1. ASSUME z < F PROVE z * T < F * T
      BY <1>1, <1>2, <2>4, <3>1
    <3>2. ASSUME F <= z PROVE F * T <= z * T
      BY <1>1, <1>2, <2>4, <3>2
    <3>3. z * T \in Int /\ F * T \in Int
      BY <1>1, <1>2, <2>4
    <3> QED  BY <1>1, <2>4, <3>1, <3>2, <3>3
  <2> QED  BY <1>3, <2>2, <2>3, <2>5 DEF z, n, P, F, T, t, d
<1> QED  BY <1>4, <1>5

\* The mantissa that double_to_mitra rounds to is that of the scaled number.
LEMMA RoundedScaled ==
  ASSUME NEW n \in Nat, NEW d \in Nat, NEW k \in Int, k + d \in Nat
  PROVE  (2 * Raised(n, -k) * Fraction + Raised(Fraction, k))
             \div (2 * Raised(Fraction, k))
           = Rounded(n * Power(d), k + d)
<1> DEFINE F == Fraction
           num == Raised(n, -k)
           den == Raised(F, k)
           t == k + d
           P == Power(d)
           T == Power(t)
           x == n * P
<1> SUFFICES (2 * num * F + den) \div (2 * den) = (2 * x + T) \div (2 * T)
  BY DEF Rounded
<1>1. F \in Nat \ {0} /\ P \in Nat \ {0} /\ T \in Nat \ {0} /\ t \in Nat
  <2>1. F \in Nat /\ F >= 2 /\ t \in Nat
    BY RadixPowers
  <2>2. P \in Nat \ {0} /\ T \in Nat \ {0}
    BY <2>1, RadixPowers
  <2> QED  BY <2>1, <2>2
<1>2. ASSUME NEW Y \in Nat, NEW Z \in Nat \ {0}, NEW c \in Nat \ {0},
             2 * num * F + den = F * Y, 2 * den = F * Z,
             2 * x + T = c * Y, 2 * T = c * Z
      PROVE  (2 * num * F + den) \div (2 * den) = (2 * x + T) \div (2 * T)
  <2>1. (F * Y) \div (F * Z) = Y \div Z /\ (c * Y) \div (c * Z) = Y \div Z
    <3> HIDE DEF F
    <3> QED  BY <1>1, <1>2, CommonFactor
  <2> HIDE DEF num, den, F, x, T
  <2> QED  BY <1>2, <2>1
<1>3. CASE k >= 0
  <2> DEFINE K == Power(k)
             Y == 2 * n + K
             Z == 2 * K
  <2>1. K \in Nat \ {0} /\ T = K * P
    <3>1. k \in Nat
      BY <1>3
    <3> QED  BY <3>1, RadixPowers
  <2>2. num = n
    <3>1. CASE k = 0
      <4>1. -k = 0
        <5>1. k \in Int /\ k >= 0 /\ k <= 0
          BY <3>1
        <5> QED  BY <5>1
      <4>2. Power(0) = 1
        BY RadixPowers
      <4> QED  BY <4>1, <4>2 DEF Raised
    <3>2. CASE k # 0
      <4>1. ~(-k >= 0)
        BY <1>3, <3>2
      <4> QED  BY <4>1 DEF Raised
    <3> QED  BY <3>1, <3>2
  <2>3. den = F * K
    BY <1>3 DEF Raised
  <2> HIDE DEF F, P, T, K, num, den
  <2>4. Y \in Nat /\ Z \in Nat \ {0}
    BY <2>1
  <2>5. 2 * num * F + den = F * Y
    <3>1. 2 * n * F + F * K = F * (2 * n + K)
      BY <1>1, <2>1
    <3> QED  BY <2>2, <2>3, <3>1
  <2>6. 2 * den = F * Z
    <3>1. 2 * (F * K) = F * (2 * K)
      BY <1>1, <2>1
    <3> QED  BY <2>3, <3>1
  <2>7. 2 * x + T = P * Y
    <3>1. 2 * (n * P) + K * P = P * (2 * n + K)
      BY <1>1, <2>1
    <3> QED  BY <2>1, <3>1
  <2>8. 2 * T = P * Z
    <3>1. 2 * (K * P) = P * (2 * K)
      BY <1>1, <2>1
    <3> QED  BY <2>1, <3>1
  <2> HIDE DEF Y, Z, x
  <2> QED  BY <1>1, <1>2, <2>4, <2>5, <2>6, <2>7, <2>8
<1>4. CASE k < 0
  <2> DEFINE K == Power(-k)
             Y == 2 * (n * K) + 1
             Z == 2
  <2>1. K \in Nat \ {0} /\ P = K * T
    <3>1. -k \in Nat /\ d = (-k) + t
      BY <1>1, <1>4
    <3> HIDE DEF t
    <3> QED  BY <1>1, <3>1, RadixPowers
  <2>2. num = n * K /\ den = F
    <3>1. -k >= 0 /\ ~(k >= 0)
      BY <1>4
    <3> QED  BY <3>1 DEF Raised
  <2> HIDE DEF F, P, T, K, num, den
  <2>3. n * K \in Nat /\ Y \in Nat /\ Z \in Nat \ {0}
    <3>1. n * K \in Nat
      BY <2>1
    <3> QED  BY <3>1
  <2>4. 2 * num * F + den = F * Y
    <3>1. 2 * (n * K) * F + F = F * (2 * (n * K) + 1)
      BY <1>1, <2>3
    <3> QED  BY <2>2, <3>1
  <2>5. 2 * den = F * Z
    BY <1>1, <2>2
  <2>6. 2 * x + T = T * Y
    <3>1. 2 * (n * (K * T)) + T = T * (2 * (n * K) + 1)
      BY <1>1, <2>1
    <3> QED  BY <2>1, <3>1
  <2>7. 2 * T = T * Z
    BY <1>1
  <2> HIDE DEF Y, Z, x
  <2> QED  BY <1>1, <1>2, <2>3, <2>4, <2>5, <2>6, <2>7
<1> QED  BY <1>3, <1>4

\* What is read of a written number is the number, rounded.
WrittenAs(s, w) ==
  \/ s = 0 /\ w = 0
  \/ \E x, t : InDigits(x, t) /\ s = x /\ w = Rounded(x, t) * Power(t)
  \/ \E x, t : InDigits(x, t) /\ s = -x /\ w = -(Rounded(x, t) * Power(t))

LEMMA SumWritten ==
  ASSUME NEW v, Computed(v), v.den = Fraction, v.exp + Bias \in Nat,
         double_to_mitra(v).status \in {"MITRA_FP_OK", "MITRA_FP_ZERO"}
  PROVE  WrittenAs(Scaled(v), Scaled(mitra_to_double(double_to_mitra(v).raw)))
<1> DEFINE F == Fraction
           B == Bias
           d == v.exp + B
           k == Magnitude(v)
           n == Absolute(v.num)
           t == k + d
           x == n * Power(d)
           m == Rounded(x, t)
           c == Carried(m, k + v.exp)
           e == c.e + B
           full == e * F + c.mantissa
           raw == double_to_mitra(v).raw
           w == mitra_to_double(raw)
<1>1. /\ F \in Nat /\ F >= 2 /\ B \in Nat \ {0} /\ d \in Nat
      /\ v.num \in Int /\ v.exp \in Int /\ n \in Nat
  <2>1. v.num \in Int /\ v.exp \in Int
    BY DEF Computed
  <2>2. F \in Nat /\ F >= 2 /\ n \in Nat
    BY <2>1, RadixPowers, AbsoluteValues
  <2>3. B \in Nat \ {0} /\ d \in Nat
    BY Bounds
  <2> QED  BY <2>1, <2>2, <2>3
<1>2. CASE v.num = 0
  <2>1. raw = 0
    BY <1>2 DEF double_to_mitra
  <2>2. w = [num |-> 0, den |-> Fraction, exp |-> -Bias]
    BY <2>1, NothingAdded
  <2>3. Scaled(w) = 0
    <3>1. Power(w.exp + Bias) = 1
      <4>1. w.exp + Bias = 0
        BY <1>1, <2>2
      <4> QED  BY <4>1, RadixPowers
    <3>2. w.num = 0
      BY <2>2
    <3> QED  BY <3>1, <3>2 DEF Scaled
  <2>4. Scaled(v) = 0
    <3>1. Power(v.exp + Bias) \in Nat
      BY RadixPowers
    <3> QED  BY <1>2, <3>1 DEF Scaled
  <2> QED  BY <2>3, <2>4 DEF WrittenAs
<1>3. CASE v.num # 0
  <2>1. k \in Int /\ Below(v, k) /\ ~Below(v, k - 1)
    BY <1>3, MagnitudeFound
  <2> DEFINE num == Raised(Absolute(v.num), -k)
             den == Raised(v.den, k)
             rounded == (2 * num * Fraction + den) \div (2 * den)
             cc == Carried(rounded, k + v.exp)
             ff == (cc.e + Bias) * Fraction + cc.mantissa
  <2>2. double_to_mitra(v)
          = IF k + v.exp + Bias <= 0
              THEN [raw |-> 0, status |-> "MITRA_FP_UNDERFLOW"]
            ELSE IF cc.e + Bias >= 2 * Bias - 1
              THEN [raw |-> 0, status |-> "MITRA_FP_OVERFLOW"]
            ELSE [raw |-> IF v.num < 0 THEN Opposite(ff) ELSE ff,
                  status |-> "MITRA_FP_OK"]
    BY <1>3 DEF double_to_mitra
  <2> HIDE DEF cc
  <2>3. /\ ~(k + v.exp + Bias <= 0) /\ ~(cc.e + Bias >= 2 * Bias - 1)
        /\ raw = IF v.num < 0 THEN Opposite(ff) ELSE ff
    BY <2>2
  <2>4. t \in Nat \ {0} /\ (k - 1) + d = t - 1 /\ t - 1 \in Nat
        /\ k + v.exp = t - B
    BY <1>1, <2>1, <2>3
  <2>5. rounded = m
    BY <1>1, <2>1, <2>4, RoundedScaled
  <2>6. cc = c
    BY <2>5 DEF cc
  <2> HIDE DEF num, den, rounded
  <2>7. InDigits(x, t)
    <3>1. Below(v, k) <=> x < F * Power(t)
      BY <1>1, <2>1, <2>4, BelowScaled
    <3>2. Below(v, k - 1) <=> x < F * Power(t - 1)
      <4> DEFINE j == k - 1
      <4>1. j \in Int /\ j + d = t - 1 /\ j + d \in Nat
        BY <2>1, <2>4
      <4> HIDE DEF j, t
      <4>2. Below(v, j) <=> x < F * Power(j + d)
        BY <1>1, <4>1, BelowScaled
      <4> QED  BY <4>1, <4>2 DEF j
    <3>3. Power(d) \in Nat /\ Power(t - 1) \in Nat /\ Power(t) \in Nat
      BY <1>1, <2>4, RadixPowers
    <3>4. x \in Nat /\ F * Power(t - 1) \in Nat
      <4> DEFINE p == Power(d)
                 q == Power(t - 1)
      <4> HIDE DEF n, F, p, q
      <4> QED  BY <1>1, <3>3 DEF p, q
    <3> HIDE DEF x, t
    <3> QED  BY <2>1, <2>4, <3>1, <3>2, <3>4 DEF InDigits
  <2>8. m \in Nat \ {0} /\ m <= F
    BY <2>7, RoundedBounds
  <2>9. /\ c.mantissa \in 1..F - 1 /\ e >= 1 /\ e \in Nat
        /\ c.mantissa * Power(e) = m * Power(t)
    <3> HIDE DEF m, t
    <3>1. CASE m >= F
      <4> DEFINE f == Power(Digits - 1)
      <4>1. f \in Nat \ {0} /\ f < F /\ F \div Radix = f
        BY FirstDigit
      <4>2. c.mantissa = f /\ c.e = (k + v.exp) + 1
        BY <3>1, <4>1 DEF Carried
      <4>3. e = t + 1 /\ t + 1 \in Nat \ {0} /\ (t + 1) - 1 = t
        BY <1>1, <2>4, <4>2
      <4>4. F * Power((t + 1) - 1) = f * Power(t + 1)
        BY <4>3, FirstDigit
      <4>5. m = F
        BY <1>1, <2>8, <3>1
      <4> HIDE DEF f, F, c, e
      <4>6. f \in 1..F - 1
        BY <1>1, <4>1
      <4> QED  BY <4>2, <4>3, <4>4, <4>5, <4>6
    <3>2. CASE m < F
      <4>1. c.mantissa = m /\ c.e = k + v.exp
        BY <1>1, <2>8, <3>2 DEF Carried
      <4>2. e = t
        BY <1>1, <2>4, <4>1
      <4> HIDE DEF c, e
      <4>3. m \in 1..F - 1
        BY <1>1, <2>8, <3>2
      <4> QED  BY <2>4, <4>1, <4>2, <4>3
    <3> QED  BY <1>1, <2>8, <3>1, <3>2
  <2> DEFINE g == c.mantissa
  <2>10. e \in 0..2 * B - 1
    <3>1. ~(e >= 2 * B - 1)
      BY <2>3, <2>6
    <3> HIDE DEF e
    <3> QED  BY <1>1, <2>9, <3>1
  <2>11. raw = IF v.num < 0 THEN Opposite(full) ELSE full
    BY <2>3, <2>6
  <2> HIDE DEF e, g, c
  <2>12. /\ mitra_to_double(full) = [num |-> g, den |-> F, exp |-> e - B]
         /\ mitra_to_double(Opposite(full)) = [num |-> -g, den |-> F, exp |-> e - B]
    BY <2>9, <2>10, ReadBack DEF g
  <2>13. (e - B) + B = e /\ g \in Nat
    BY <1>1, <2>9 DEF g
  <2> DEFINE s == m * Power(t)
  <2>14. g * Power(e) = s
    BY <2>9 DEF g
  <2>15. Scaled(v) = v.num * Power(d)
    BY DEF Scaled
  <2> HIDE DEF full, raw
  <2>16. CASE v.num < 0
    <3>1. w = [num |-> -g, den |-> F, exp |-> e - B]
      BY <2>11, <2>12, <2>16
    <3>2. w.num = -g /\ w.exp + Bias = e
      BY <2>13, <3>1
    <3>3. Scaled(w) = (-g) * Power(e)
      BY <3>2 DEF Scaled
    <3>4. Scaled(w) = -s
      <4> DEFINE p == Power(e)
      <4>1. p \in Nat
        BY <2>9, RadixPowers
      <4> HIDE DEF p, s
      <4>2. (-g) * p = -(g * p)
        BY <2>13, <4>1
      <4> QED  BY <2>14, <3>3, <4>2 DEF p
    <3>5. Scaled(v) = -x
      <4> DEFINE p == Power(d)
      <4>1. p \in Nat /\ n = -v.num
        BY <1>1, <2>16, RadixPowers DEF Absolute
      <4> DEFINE u == v.num
      <4>2. u \in Int
        BY <1>1
      <4> HIDE DEF p, u, n
      <4>3. u * p = -((-u) * p)
        BY <4>1, <4>2
      <4> QED  BY <2>15, <4>1, <4>3 DEF p, u
    <3> HIDE DEF x, t, w, m
    <3>6. Scaled(w) = -(Rounded(x, t) * Power(t))
      BY <3>4 DEF m
    <3> QED  BY <2>7, <3>5, <3>6 DEF WrittenAs, w, raw
  <2>17. CASE v.num > 0
    <3>1. w = [num |-> g, den |-> F, exp |-> e - B]
      BY <1>1, <2>11, <2>12, <2>17
    <3>2. w.num = g /\ w.exp + Bias = e
      BY <2>13, <3>1
    <3>3. Scaled(w) = s
      BY <2>14, <3>2 DEF Scaled
    <3>4. Scaled(v) = x
      BY <1>1, <2>15, <2>17 DEF Absolute
    <3> HIDE DEF x, t, w, m
    <3>5. Scaled(w) = Rounded(x, t) * Power(t)
      BY <3>3 DEF m
    <3> QED  BY <2>7, <3>4, <3>5 DEF WrittenAs, w, raw
  <2> QED  BY <1>1, <1>3, <2>16, <2>17
<1> QED  BY <1>2, <1>3

\* What is written keeps the order.
LEMMA WrittenOrdered ==
  ASSUME NEW s1 \in Int, NEW s2 \in Int, NEW w1, NEW w2,
         WrittenAs(s1, w1), WrittenAs(s2, w2), s1 <= s2
  PROVE  w1 <= w2
<1>1. ASSUME NEW x, NEW t, InDigits(x, t)
      PROVE  /\ x \in Nat \ {0} /\ Rounded(x, t) * Power(t) \in Nat
  <2> DEFINE m == Rounded(x, t)
             p == Power(t)
             q == Power(t - 1)
  <2>1. m \in Nat /\ p \in Nat /\ q \in Nat \ {0}
    <3>1. t \in Nat /\ t - 1 \in Nat
      BY <1>1 DEF InDigits
    <3> QED  BY <1>1, <3>1, RoundedBounds, RadixPowers
  <2>2. Fraction \in Nat \ {0} /\ x \in Nat /\ Fraction * q <= x
    BY <1>1, RadixPowers DEF InDigits
  <2> DEFINE F == Fraction
  <2> HIDE DEF m, p, q, F
  <2>3. F * q \in Nat \ {0}
    BY <2>1, <2>2, Products DEF F
  <2>4. m * p \in Nat
    BY <2>1
  <2> QED  BY <2>2, <2>3, <2>4 DEF m, p, F
<1>2. ASSUME NEW x, NEW t, InDigits(x, t), NEW y, NEW u, InDigits(y, u), x <= y
      PROVE  Rounded(x, t) * Power(t) <= Rounded(y, u) * Power(u)
  BY <1>2, RoundingOrdered
<1>3. CASE s1 = 0 /\ w1 = 0
  <2>1. CASE s2 = 0 /\ w2 = 0
    BY <1>3, <2>1
  <2>2. CASE \E x, t : InDigits(x, t) /\ s2 = x /\ w2 = Rounded(x, t) * Power(t)
    <3>1. w2 \in Nat
      BY <1>1, <2>2
    <3> QED  BY <1>3, <3>1
  <2>3. CASE \E x, t : InDigits(x, t) /\ s2 = -x /\ w2 = -(Rounded(x, t) * Power(t))
    <3>1. s2 < 0
      BY <1>1, <2>3
    <3> QED  BY <1>3, <3>1
  <2> QED  BY <2>1, <2>2, <2>3 DEF WrittenAs
<1>4. CASE \E x, t : InDigits(x, t) /\ s1 = x /\ w1 = Rounded(x, t) * Power(t)
  <2>1. PICK x, t : InDigits(x, t) /\ s1 = x /\ w1 = Rounded(x, t) * Power(t)
    BY <1>4
  <2>2. s1 > 0
    BY <1>1, <2>1
  <2>3. CASE s2 = 0 /\ w2 = 0
    BY <2>2, <2>3
  <2>4. CASE \E y, u : InDigits(y, u) /\ s2 = y /\ w2 = Rounded(y, u) * Power(u)
    BY <1>2, <2>1, <2>4
  <2>5. CASE \E y, u : InDigits(y, u) /\ s2 = -y /\ w2 = -(Rounded(y, u) * Power(u))
    <3>1. s2 < 0
      BY <1>1, <2>5
    <3> QED  BY <2>2, <3>1
  <2> QED  BY <2>3, <2>4, <2>5 DEF WrittenAs
<1>5. CASE \E x, t : InDigits(x, t) /\ s1 = -x /\ w1 = -(Rounded(x, t) * Power(t))
  <2>1. PICK x, t : InDigits(x, t) /\ s1 = -x /\ w1 = -(Rounded(x, t) * Power(t))
    BY <1>5
  <2> DEFINE r == Rounded(x, t) * Power(t)
  <2>2. r \in Nat /\ w1 = -r /\ x \in Nat
    BY <1>1, <2>1
  <2> HIDE DEF r
  <2>3. w1 <= 0 /\ w1 \in Int
    BY <2>2
  <2>4. CASE s2 = 0 /\ w2 = 0
    BY <2>3, <2>4
  <2>5. CASE \E y, u : InDigits(y, u) /\ s2 = y /\ w2 = Rounded(y, u) * Power(u)
    <3>1. w2 \in Nat
      BY <1>1, <2>5
    <3> QED  BY <2>3, <3>1
  <2>6. CASE \E y, u : InDigits(y, u) /\ s2 = -y /\ w2 = -(Rounded(y, u) * Power(u))
    <3>1. PICK y, u : InDigits(y, u) /\ s2 = -y /\ w2 = -(Rounded(y, u) * Power(u))
      BY <2>6
    <3> DEFINE z == Rounded(y, u) * Power(u)
    <3>2. z \in Nat /\ w2 = -z /\ y \in Nat
      BY <1>1, <3>1
    <3>3. y <= x
      BY <2>1, <2>2, <3>1, <3>2
    <3>4. z <= r
      BY <1>2, <2>1, <3>1, <3>3 DEF r
    <3> HIDE DEF z
    <3> QED  BY <2>2, <3>2, <3>4
  <2> QED  BY <2>4, <2>5, <2>6 DEF WrittenAs
<1> QED  BY <1>3, <1>4, <1>5 DEF WrittenAs

\* What FAD leaves in E and A is the exact sum, rounded.
LEMMA FloatAdded ==
  ASSUME NEW r \in Registers, NEW m \in 0..Doubles - 1,
         floating_inst("FAD", r, m).OV = 0
  PROVE  LET a == mitra_to_double(Double(r))
             z == mitra_to_double(m)
             s == mitra_to_double(Double(floating_inst("FAD", r, m)))
         IN  /\ Readable(a) /\ Readable(z) /\ Readable(s)
             /\ WrittenAs(Scaled(a) + Scaled(z), Scaled(s))
<1> DEFINE a == mitra_to_double(Double(r))
           z == mitra_to_double(m)
           v == Sum(a, z)
           result == double_to_mitra(v)
           raw == result.raw
           e == raw \div Modulus
           l == raw % Modulus
           c == Test(result.status \in {"MITRA_FP_ZERO", "MITRA_FP_UNDERFLOW"})
           o == Test(result.status \in {"MITRA_FP_OVERFLOW", "MITRA_FP_UNDERFLOW"})
           sum == floating_inst("FAD", r, m)
<1>1. Readable(a) /\ Readable(z)
  <2>1. Double(r) \in Int
    <3>1. r.E \in Word /\ r.A \in Word
      BY DEF Registers
    <3> QED  BY <3>1, Sizes DEF Double, Word
  <2>2. m \in Int
    OBVIOUS
  <2> QED  BY <2>1, <2>2, ReadType
<1> HIDE DEF a, z
<1>2. Combined("FAD", a, z) = v
  BY DEF Combined
<1>3. sum = [[r EXCEPT !.E = e, !.A = l] EXCEPT !.C = c, !.OV = o]
  BY <1>2 DEF floating_inst, set_condition_codes_float, a, z
<1>4. Computed(v)
  BY <1>1, <1>2, CombinedType DEF FloatOperations
<1>5. raw \in 0..Doubles - 1
  BY <1>4, RawType
<1>6. e \in Word /\ l \in Word /\ e * Modulus + l = raw
  BY <1>5, TwoWords
<1> HIDE DEF result, e, l, c, o, sum
<1>7. sum.E = e /\ sum.A = l /\ sum.OV = o
  BY <1>3 DEF Registers
<1>8. Double(sum) = raw
  BY <1>6, <1>7 DEF Double
<1>9. result.status \in {"MITRA_FP_OK", "MITRA_FP_ZERO"}
  <2>1. result.status \in FpStatus
    BY DEF result, double_to_mitra, FpStatus
  <2>2. result.status \notin {"MITRA_FP_OVERFLOW", "MITRA_FP_UNDERFLOW"}
    BY <1>7 DEF o, Test, sum
  <2> QED  BY <2>1, <2>2 DEF FpStatus
<1>10. /\ v.den = Fraction /\ v.exp + Bias \in Nat
       /\ Scaled(v) = Scaled(a) + Scaled(z)
  <2>1. /\ a.num \in Int /\ a.exp \in -Bias..Bias - 1
        /\ z.num \in Int /\ z.exp \in -Bias..Bias - 1
    BY <1>1 DEF Readable
  <2> QED  BY <2>1, SumParts
<1>11. WrittenAs(Scaled(v), Scaled(mitra_to_double(raw)))
  BY <1>4, <1>9, <1>10, SumWritten DEF result
<1>12. Readable(mitra_to_double(raw))
  <2>1. raw \in Int
    BY <1>5, Sizes DEF Doubles
  <2> QED  BY <2>1, ReadType
<1> QED  BY <1>1, <1>8, <1>10, <1>11, <1>12 DEF a, z, sum

\* FloatOrder in every state of the type.
LEMMA OrderInType ==
  TypeOK => FloatOrder
<1> DEFINE Number(r) == mitra_to_double(Double(r))
           AtMost(r, t) == Sum(Number(r), [Number(t) EXCEPT !.num = -@]).num <= 0
<1> SUFFICES ASSUME TypeOK, NEW other \in Numbers, NEW m \in Numbers
             PROVE  LET second == [cpu EXCEPT !.E = other \div Modulus,
                                              !.A = other % Modulus]
                        sum1 == floating_inst("FAD", cpu, m)
                        sum2 == floating_inst("FAD", second, m)
                    IN  AtMost(cpu, second) /\ sum1.OV = 0 /\ sum2.OV = 0
                          => AtMost(sum1, sum2)
  BY DEF FloatOrder
<1> DEFINE high == other \div Modulus
           low == other % Modulus
           second == [cpu EXCEPT !.E = high, !.A = low]
           sum1 == floating_inst("FAD", cpu, m)
           sum2 == floating_inst("FAD", second, m)
<1>1. m \in 0..Doubles - 1 /\ other \in 0..Doubles - 1
  BY AluAssumption
<1>2. high \in Word /\ low \in Word
  BY <1>1, TwoWords
<1> HIDE DEF high, low
<1>3. cpu \in Registers /\ second \in Registers
  BY <1>2 DEF TypeOK, Registers
<1> HIDE DEF second, sum1, sum2
<1>4. SUFFICES ASSUME AtMost(cpu, second), sum1.OV = 0, sum2.OV = 0
               PROVE  AtMost(sum1, sum2)
  BY DEF second, sum1, sum2, high, low
<1> DEFINE a == Number(cpu)
           b == Number(second)
           z == mitra_to_double(m)
           s == Number(sum1)
           t == Number(sum2)
<1>5. /\ Readable(a) /\ Readable(z) /\ Readable(s)
      /\ WrittenAs(Scaled(a) + Scaled(z), Scaled(s))
  BY <1>1, <1>3, <1>4, FloatAdded DEF sum1
<1>6. /\ Readable(b) /\ Readable(t)
      /\ WrittenAs(Scaled(b) + Scaled(z), Scaled(t))
  BY <1>1, <1>3, <1>4, FloatAdded DEF sum2
<1>7. Sum(a, [b EXCEPT !.num = -@]).num <= 0
  BY <1>4
<1>8. SUFFICES Sum(s, [t EXCEPT !.num = -@]).num <= 0
  OBVIOUS
<1> HIDE DEF a, b, z, s, t
<1>9. Scaled(a) <= Scaled(b) /\ Scaled(a) \in Int /\ Scaled(b) \in Int
  BY <1>5, <1>6, <1>7, ScaledOrder
<1>10. Scaled(z) \in Int
  BY <1>5, ScaledOrder
<1> DEFINE s1 == Scaled(a) + Scaled(z)
           s2 == Scaled(b) + Scaled(z)
<1>11. s1 \in Int /\ s2 \in Int /\ s1 <= s2
  BY <1>9, <1>10
<1> HIDE DEF s1, s2
<1>12. Scaled(s) <= Scaled(t)
  <2>1. WrittenAs(s1, Scaled(s)) /\ WrittenAs(s2, Scaled(t))
    BY <1>5, <1>6 DEF s1, s2
  <2> QED  BY <1>11, <2>1, WrittenOrdered
<1> QED  BY <1>5, <1>6, <1>12, ScaledOrder

----------------------------------------------------------------------------
(* The properties of every state. *)

\* CMP and SUB order two words alike and ADD undoes SUB (set_register,
\* Mem_OP_Reg_To_Reg), for words of every width.
THEOREM ComparisonIsDifference == Spec => []CompareAgreesWithSubtract
BY TypeCorrect, ComparisonInType, PTL

\* The carry of the low halves of two double words reaches the high one (ADD,
\* ACE, ADD between two XAE), for every width of a word.
THEOREM DoubleWordsAdd == Spec => []DoubleAddition
BY TypeCorrect, DoubleWordsInType, PTL

\* DIV finds again the factor MUL multiplied (mul32, div32), for positive
\* numbers of every width.
THEOREM ProductsDivide == Spec => []MultiplyDivide
BY TypeCorrect, ProductsInType, PTL

\* The arithmetic shifts divide signed numbers, the logical ones multiply and
\* divide unsigned words, and circular ones undo each other (ShiftRegister,
\* shift_instr), for every count and every width.
THEOREM ShiftsAreScales == Spec => []ShiftsScale
BY TypeCorrect, ShiftsInType, PTL

\* NLZ loses no significant bit: SAD by the positions it took from X brings
\* the double word back, and NLZ stops at a normal number or at its limit.
THEOREM NormalizationUndone == Spec => []NormalizeUndone
BY TypeCorrect, NormalizeInType, PTL

\* PTY over the two parts of a word counts its bits once each and brings the
\* word back, wherever the word is cut.
THEOREM ParitiesAdd == Spec => []ParityAdds
BY TypeCorrect, ParityInType, PTL

\* FAD keeps the order of two numbers to which the same third one is added:
\* the alignment, the rounding and the carry of the mantissa (floating_inst,
\* double_to_mitra) never cross, for every radix 2^DigitBits and number of digits.
THEOREM OrderKept == Spec => []FloatOrder
BY TypeCorrect, OrderInType, PTL

\* FAD of zero keeps the value of a number in range and normalises it once
\* and for all (mitra_to_double, double_to_mitra), for every radix 2^DigitBits.
THEOREM NormalFormKept == Spec => []FloatNormalForm
BY TypeCorrect, NormalFormInType, PTL

=============================================================================
