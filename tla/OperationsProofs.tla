--------------------------- MODULE OperationsProofs ---------------------------
(***************************************************************************)
(* What the operators of Operations do to words and to records of           *)
(* registers, for words of every width.                                     *)
(***************************************************************************)
EXTENDS Operations, FiniteSetTheorems, Induction

----------------------------------------------------------------------------
(* Powers of two. *)

\* The powers of two count the sets of numbers up to n.
Subsets(n) == SUBSET (1..n)

LEMMA SubsetsCounted ==
  ASSUME NEW n \in Nat
  PROVE  /\ IsFiniteSet(Subsets(n))
         /\ Cardinality(Subsets(n)) = 2^n
         /\ 2^n \in Nat
<1>1. IsFiniteSet(1..n) /\ Cardinality(1..n) = n
  <2>1. 1 \in Int /\ n \in Int
    OBVIOUS
  <2>2. (IF 1 > n THEN 0 ELSE n - 1 + 1) = n
    OBVIOUS
  <2> QED  BY <2>1, <2>2, FS_Interval
<1>2. IsFiniteSet(Subsets(n)) /\ Cardinality(Subsets(n)) = 2^n
  BY <1>1, FS_SUBSET DEF Subsets
<1> QED  BY <1>2, FS_CardinalityType

LEMMA Doubling ==
  ASSUME NEW n \in Nat
  PROVE  2^(n + 1) = 2 * 2^n
<1> DEFINE T == {S \cup {n + 1} : S \in Subsets(n)}
           f == [S \in Subsets(n) |-> S \cup {n + 1}]
<1>1. /\ IsFiniteSet(Subsets(n)) /\ Cardinality(Subsets(n)) = 2^n
      /\ IsFiniteSet(Subsets(n + 1)) /\ Cardinality(Subsets(n + 1)) = 2^(n + 1)
      /\ 2^n \in Nat /\ 2^(n + 1) \in Nat
  <2>1. n + 1 \in Nat
    OBVIOUS
  <2> QED  BY <2>1, SubsetsCounted
<1>2. 1..n + 1 = (1..n) \cup {n + 1} /\ n + 1 \notin 1..n
  OBVIOUS
<1>3. Subsets(n + 1) = Subsets(n) \cup T
  <2>1. ASSUME NEW S \in Subsets(n + 1) PROVE S \in Subsets(n) \cup T
    <3>1. CASE n + 1 \in S
      <4>1. S \ {n + 1} \in Subsets(n) /\ S = (S \ {n + 1}) \cup {n + 1}
        BY <1>2, <3>1 DEF Subsets
      <4> QED  BY <4>1
    <3>2. CASE n + 1 \notin S
      BY <1>2, <3>2 DEF Subsets
    <3> QED  BY <3>1, <3>2
  <2>2. ASSUME NEW S \in Subsets(n) \cup T PROVE S \in Subsets(n + 1)
    BY <1>2, <2>2 DEF Subsets
  <2> QED  BY <2>1, <2>2
<1>4. Subsets(n) \cap T = {}
  BY <1>2 DEF Subsets
<1>5. f \in Bijection(Subsets(n), T)
  <2>1. f \in [Subsets(n) -> T]
    OBVIOUS
  <2>2. \A R, S \in Subsets(n) : f[R] = f[S] => R = S
    BY <1>2 DEF Subsets
  <2>3. \A t \in T : \E S \in Subsets(n) : f[S] = t
    OBVIOUS
  <2> HIDE DEF f, T
  <2> QED  BY <2>1, <2>2, <2>3 DEF Bijection, Injection, Surjection, IsInjective
<1> HIDE DEF f, T
<1>6. IsFiniteSet(T) /\ Cardinality(T) = 2^n
  BY <1>1, <1>5, FS_Bijection DEF ExistsBijection
<1>7. Cardinality(Subsets(n) \cup T) = 2^n + 2^n - Cardinality({})
  BY <1>1, <1>4, <1>6, FS_Union
<1> QED  BY <1>1, <1>3, <1>7, FS_EmptySet

\* The powers of two that the width of a word names.
LEMMA Powers ==
  /\ 2^0 = 1
  /\ \A n \in Nat : 2^n \in Nat \ {0} /\ 2^(n + 1) = 2 * 2^n
<1> DEFINE S == {n \in Nat : 2^n # 0}
<1>1. 0 \in S
  OBVIOUS
<1>2. \A n \in Nat : n \in S => n + 1 \in S
  BY Doubling, SubsetsCounted
<1>3. Nat \subseteq S
  <2> HIDE DEF S
  <2> QED  BY <1>1, <1>2, SetInduction
<1> QED  BY <1>3, Doubling, SubsetsCounted

\* The power of a sum is the product of the powers.
LEMMA PowerOfSum ==
  ASSUME NEW a \in Nat, NEW b \in Nat
  PROVE  2^(a + b) = 2^a * 2^b
<1> DEFINE S == {n \in Nat : 2^(a + n) = 2^a * 2^n}
<1>1. 0 \in S
  BY Powers
<1>2. ASSUME NEW n \in Nat, n \in S PROVE n + 1 \in S
  <2>1. a + n \in Nat /\ a + (n + 1) = (a + n) + 1
    OBVIOUS
  <2>2. /\ 2^(a + (n + 1)) = 2 * 2^(a + n) /\ 2^(n + 1) = 2 * 2^n
        /\ 2^a \in Nat /\ 2^n \in Nat
    BY <2>1, Powers
  <2> DEFINE p == 2^a
             q == 2^n
  <2>3. 2^(a + n) = p * q
    BY <1>2
  <2> HIDE DEF p, q
  <2>4. 2 * (p * q) = p * (2 * q)
    BY <2>2 DEF p, q
  <2> QED  BY <2>2, <2>3, <2>4 DEF p, q
<1>3. Nat \subseteq S
  <2> HIDE DEF S
  <2> QED  BY <1>1, <1>2, SetInduction
<1> QED  BY <1>3

----------------------------------------------------------------------------
(* Remainders. *)

LEMMA Sizes ==
  /\ Half \in Nat \ {0}
  /\ Modulus \in Nat \ {0}
  /\ Modulus = 2 * Half
BY WidthAssumption DEF Modulus

\* A quotient and a remainder are the only ones.
LEMMA Divided ==
  ASSUME NEW m \in Nat \ {0}, NEW q \in Int, NEW r \in 0..m - 1
  PROVE  /\ (q * m + r) % m = r
         /\ (q * m + r) \div m = q
OBVIOUS

\* A quotient and a remainder by the modulus.
LEMMA Reduced ==
  ASSUME NEW x \in Int, NEW q \in Int, NEW r \in Word, x = q * Modulus + r
  PROVE  x % Modulus = r /\ x \div Modulus = q
<1>1. r \in 0..Modulus - 1
  BY DEF Word
<1> QED  BY <1>1, Sizes, Divided

\* A difference of two words is one word or its value less a modulus.
LEMMA Difference ==
  ASSUME NEW a \in Word, NEW m \in Word
  PROVE  /\ (a - m) % Modulus \in Word
         /\ (a - m) % Modulus = IF a < m THEN a - m + Modulus ELSE a - m
<1> DEFINE x == a - m
           q == IF a < m THEN -1 ELSE 0
           r == IF a < m THEN a - m + Modulus ELSE a - m
<1>1. x \in Int /\ q \in Int /\ r \in Word
  BY Sizes DEF Word
<1>2. x = q * Modulus + r
  BY Sizes DEF Word
<1>3. x % Modulus = r
  <2> HIDE DEF x, q, r
  <2> QED  BY <1>1, <1>2, Reduced
<1> QED  BY <1>1, <1>3

\* A sum of two words is a word and a carry.
LEMMA SumOfWords ==
  ASSUME NEW a \in Word, NEW m \in Word
  PROVE  /\ (a + m) % Modulus \in Word
         /\ (a + m) \div Modulus \in Flag
         /\ a + m = ((a + m) \div Modulus) * Modulus + ((a + m) % Modulus)
<1> DEFINE x == a + m
           q == IF a + m < Modulus THEN 0 ELSE 1
           r == IF a + m < Modulus THEN a + m ELSE a + m - Modulus
<1>1. x \in Int /\ q \in Int /\ r \in Word /\ q \in Flag
  BY Sizes DEF Word, Flag
<1>2. x = q * Modulus + r
  BY Sizes DEF Word
<1>3. x % Modulus = r /\ x \div Modulus = q
  <2> HIDE DEF x, q, r
  <2> QED  BY <1>1, <1>2, Reduced
<1> HIDE DEF q, r
<1> QED  BY <1>1, <1>2, <1>3

----------------------------------------------------------------------------
(* Bytes and bits. *)

ByteSize == 2^(Width \div 2)

LEMMA ByteSizes ==
  /\ ByteSize \in Nat \ {0}
  /\ ByteSize * ByteSize = Modulus
  /\ 2^Width = Modulus
<1> DEFINE h == Width \div 2
           w == Width - 1
<1>1. h \in Nat /\ Width = h + h
  BY WidthAssumption
<1>2. w \in Nat /\ Width = w + 1 /\ Half = 2^w
  BY WidthAssumption
<1> HIDE DEF h, w
<1>3. 2^h \in Nat \ {0} /\ 2^(h + h) = 2^h * 2^h /\ 2^(w + 1) = 2 * 2^w
  BY <1>1, <1>2, Powers, PowerOfSum
<1>4. 2^Width = Modulus
  BY <1>2, <1>3 DEF Modulus
<1> QED  BY <1>1, <1>3, <1>4 DEF ByteSize, h

\* The bytes of a word, and the word of two bytes.
LEMMA BytesOfWord ==
  ASSUME NEW v \in Word
  PROVE  /\ Left(v) \in Byte /\ Right(v) \in Byte
         /\ Join(Left(v), Right(v)) = v
<1> DEFINE B == ByteSize
           q == v \div B
           r == v % B
<1>1. /\ v \in Nat /\ v < B * B
      /\ B \in Nat \ {0}
  BY ByteSizes, Sizes DEF Word
<1> HIDE DEF B
<1>2. q \in Nat /\ r \in 0..B - 1 /\ v = q * B + r
  BY <1>1
<1> HIDE DEF q, r
<1>3. q < B
  <2> SUFFICES ASSUME q >= B PROVE FALSE
    BY <1>1, <1>2
  <2>1. q * B >= B * B
    BY <1>1, <1>2
  <2> QED  BY <1>1, <1>2, <2>1
<1>4. Left(v) = q /\ Right(v) = r /\ Join(q, r) = q * B + r
  BY DEF Left, Right, Join, q, r, B, ByteSize
<1> QED  BY <1>1, <1>2, <1>3, <1>4 DEF Byte, B, ByteSize

LEMMA WordOfBytes ==
  ASSUME NEW a \in Byte, NEW b \in Byte
  PROVE  /\ Join(a, b) \in Word
         /\ Left(Join(a, b)) = a /\ Right(Join(a, b)) = b
<1> DEFINE B == ByteSize
           j == a * B + b
<1>1. B \in Nat \ {0} /\ B * B = Modulus /\ a \in 0..B - 1 /\ b \in 0..B - 1
  BY ByteSizes DEF Byte, ByteSize
<1>2. Join(a, b) = j /\ Left(j) = j \div B /\ Right(j) = j % B
  BY DEF Join, Left, Right, ByteSize
<1> HIDE DEF B
<1>3. j % B = b /\ j \div B = a
  <2>1. B \in Nat \ {0} /\ a \in Int /\ b \in 0..B - 1
    BY <1>1
  <2> QED  BY <2>1, Divided, Zenon
<1>4. j \in Word
  <2>1. a * B <= (B - 1) * B
    BY <1>1
  <2>2. (B - 1) * B = B * B - B
    BY <1>1
  <2>3. a * B \in Nat
    BY <1>1
  <2> DEFINE p == a * B
  <2> HIDE DEF p
  <2>4. p + b \in Nat /\ p + b < B * B
    BY <1>1, <2>1, <2>2, <2>3 DEF p
  <2> QED  BY <1>1, <2>4, Sizes DEF Word, p
<1> QED  BY <1>2, <1>3, <1>4

\* The sum of the powers of two of a set, bit by bit.
Sums(f, S) ==
  /\ f \in [0..Width -> Nat]
  /\ f[0] = 0
  /\ \A n \in 1..Width : f[n] = f[n - 1] + (IF n - 1 \in S THEN 2^(n - 1) ELSE 0)

LEMMA BitByBit ==
  ASSUME NEW S
  PROVE  \E f : Sums(f, S) /\ FromBits(S) = f[Width]
<1> DEFINE bit(n) == IF n \in S THEN 2^n ELSE 0
           step == [p \in Nat \X (1..Width) |-> p[1] + bit(p[2] - 1)]
           Is(g) == g = [n \in 0..Width |-> IF n = 0 THEN 0 ELSE g[n - 1] + bit(n - 1)]
           sum == CHOOSE g : Is(g)
<1>1. Width \in Nat
  BY WidthAssumption
<1>2. \A n \in 1..Width : bit(n - 1) \in Nat
  BY Powers
<1>3. step \in Steps(Nat, Width)
  <2> HIDE DEF bit
  <2> QED  BY <1>2 DEF Steps
<1>4. PICK f : Follows(f, Nat, 0, step, Width)
  <2> HIDE DEF step
  <2> QED  BY <1>1, <1>3, Recursion
<1>5. /\ f \in [0..Width -> Nat] /\ f[0] = 0
      /\ \A n \in 1..Width : f[n] = f[n - 1] + bit(n - 1)
  <2> HIDE DEF bit
  <2>1. \A n \in 1..Width : n - 1 \in 0..Width
    BY <1>1
  <2> QED  BY <1>4, <2>1 DEF Follows
<1>6. Is(f)
  <2> HIDE DEF bit
  <2>1. 0..Width = {0} \cup (1..Width) /\ 0 \notin 1..Width
    BY <1>1
  <2> QED  BY <1>5, <2>1
<1>7. Is(sum)
  <2> HIDE DEF Is
  <2> QED  BY <1>6
<1>8. FromBits(S) = sum[Width]
  BY DEF FromBits
<1>9. Sums(sum, S)
  <2> HIDE DEF sum
  <2> DEFINE T == {n \in 0..Width : sum[n] \in Nat}
  <2>1. /\ DOMAIN sum = 0..Width
        /\ sum[0] = 0
        /\ \A n \in 1..Width : sum[n] = sum[n - 1] + bit(n - 1)
    <3> HIDE DEF bit
    <3>1. \A n \in 1..Width : n \in 0..Width /\ n # 0
      BY <1>1
    <3>2. 0 \in 0..Width
      BY <1>1
    <3> QED  BY <1>7, <3>1, <3>2
  <2>2. 0 \in T
    BY <1>1, <2>1
  <2>3. ASSUME NEW n \in 0..Width - 1, n \in T PROVE n + 1 \in T
    <3>1. n + 1 \in 1..Width /\ (n + 1) - 1 = n
      BY <1>1
    <3> HIDE DEF bit
    <3>2. sum[n + 1] = sum[n] + bit(n) /\ bit(n) \in Nat
      BY <1>2, <2>1, <3>1
    <3> QED  BY <1>1, <2>3, <3>1, <3>2
  <2>4. 0..Width \subseteq T
    <3> HIDE DEF T
    <3> QED  BY <1>1, <2>2, <2>3, RangeInduction
  <2>5. sum \in [0..Width -> Nat]
    <3>1. sum = [n \in 0..Width |-> sum[n]]
      BY <1>7, <2>1
    <3> QED  BY <2>4, <3>1
  <2> QED  BY <2>1, <2>5 DEF Sums
<1> QED  BY <1>8, <1>9

\* The sum of a set is below the next power of two, and grows with the set.
LEMMA SumsOrdered ==
  ASSUME NEW S, NEW T, S \subseteq T, NEW f, Sums(f, S), NEW g, Sums(g, T)
  PROVE  f[Width] < 2^Width /\ f[Width] <= g[Width]
<1> DEFINE P == {n \in 0..Width : f[n] < 2^n /\ f[n] <= g[n]}
<1>1. Width \in Nat
  BY WidthAssumption
<1>2. 0 \in P
  BY <1>1, Powers DEF Sums
<1>3. ASSUME NEW n \in 0..Width - 1, n \in P PROVE n + 1 \in P
  <2>1. n + 1 \in 1..Width /\ (n + 1) - 1 = n /\ n \in 0..Width /\ n \in Nat
    BY <1>1
  <2>2. /\ f[n + 1] = f[n] + (IF n \in S THEN 2^n ELSE 0)
        /\ g[n + 1] = g[n] + (IF n \in T THEN 2^n ELSE 0)
        /\ f[n] \in Nat /\ g[n] \in Nat
    BY <2>1 DEF Sums
  <2>3. 2^n \in Nat \ {0} /\ 2^(n + 1) = 2 * 2^n
    BY <2>1, Powers
  <2> QED  BY <1>1, <1>3, <2>1, <2>2, <2>3
<1>4. 0..Width \subseteq P
  <2> HIDE DEF P
  <2> QED  BY <1>1, <1>2, <1>3, RangeInduction
<1> QED  BY <1>1, <1>4

LEMMA SumOfBits ==
  ASSUME NEW S, NEW T, S \subseteq T
  PROVE  FromBits(S) \in Word /\ FromBits(S) <= FromBits(T)
<1>1. PICK f : Sums(f, S) /\ FromBits(S) = f[Width]
  BY BitByBit
<1>2. PICK g : Sums(g, T) /\ FromBits(T) = g[Width]
  BY BitByBit
<1>3. f[Width] < Modulus /\ f[Width] <= g[Width]
  BY <1>1, <1>2, SumsOrdered, ByteSizes
<1>4. f[Width] \in Nat
  BY <1>1, WidthAssumption DEF Sums
<1> QED  BY <1>1, <1>2, <1>3, <1>4, Sizes DEF Word

\* The logical operations make words.
LEMMA LogicalWords ==
  ASSUME NEW v, NEW w
  PROVE  /\ BitAnd(v, w) \in Word /\ BitOr(v, w) \in Word /\ BitXor(v, w) \in Word
         /\ v \in Word => Complement(v) \in Word
<1> DEFINE meet == Bits(v) \cap Bits(w)
           join == Bits(v) \cup Bits(w)
<1>1. meet \subseteq join /\ join \subseteq join
  OBVIOUS
<1>2. BitAnd(v, w) = FromBits(meet) /\ BitOr(v, w) = FromBits(join)
  BY DEF BitAnd, BitOr
<1> HIDE DEF meet, join
<1>3. /\ FromBits(meet) \in Word /\ FromBits(join) \in Word
      /\ FromBits(meet) <= FromBits(join)
  BY <1>1, SumOfBits
<1>4. BitXor(v, w) \in Word
  BY <1>2, <1>3, Sizes DEF BitXor, Word
<1>5. v \in Word => Complement(v) \in Word
  BY Sizes DEF Complement, Word
<1> QED  BY <1>2, <1>3, <1>4, <1>5

----------------------------------------------------------------------------
(* Records of registers. *)

\* A set of records whose registers hold words and whose indicators are bits,
\* whatever else they have.
Machines(V) ==
  \A r \in V :
    /\ {"A", "E", "X", "C", "OV"} \subseteq DOMAIN r
    /\ r.A \in Word /\ r.E \in Word /\ r.X \in Word
    /\ r.C \in Flag /\ r.OV \in Flag
    /\ \A v \in Word : /\ [r EXCEPT !.A = v] \in V
                       /\ [r EXCEPT !.E = v] \in V
                       /\ [r EXCEPT !.X = v] \in V
    /\ \A b \in Flag : [r EXCEPT !.C = b] \in V /\ [r EXCEPT !.OV = b] \in V

LEMMA AssignedTogether ==
  ASSUME NEW V, Machines(V), NEW r \in V,
         NEW a \in Word, NEW e \in Word, NEW x \in Word, NEW c \in Flag, NEW o \in Flag
  PROVE  /\ [r EXCEPT !.E = e, !.A = a] \in V
         /\ [r EXCEPT !.A = a, !.E = e] \in V
         /\ [r EXCEPT !.A = a, !.X = x] \in V
         /\ [r EXCEPT !.E = e, !.X = x] \in V
         /\ [r EXCEPT !.C = c, !.OV = o] \in V
         /\ [r EXCEPT !.E = e, !.C = c] \in V
         /\ [r EXCEPT !.X = x, !.C = c, !.OV = o] \in V
         /\ [r EXCEPT !.A = a, !.C = c, !.OV = o] \in V
<1> DEFINE ra == [r EXCEPT !.A = a]
           re == [r EXCEPT !.E = e]
           rx == [r EXCEPT !.X = x]
           rc == [r EXCEPT !.C = c]
           rac == [ra EXCEPT !.C = c]
           rxc == [rx EXCEPT !.C = c]
<1>1. ra \in V /\ re \in V /\ rx \in V /\ rc \in V /\ [r EXCEPT !.OV = o] \in V
  BY DEF Machines
<1>2. [r EXCEPT !.E = e, !.A = a] = [re EXCEPT !.A = a]
  OBVIOUS
<1>3. [r EXCEPT !.A = a, !.E = e] = [ra EXCEPT !.E = e]
  OBVIOUS
<1>4. [r EXCEPT !.A = a, !.X = x] = [ra EXCEPT !.X = x]
  OBVIOUS
<1>5. [r EXCEPT !.E = e, !.X = x] = [re EXCEPT !.X = x]
  OBVIOUS
<1>6. [r EXCEPT !.C = c, !.OV = o] = [rc EXCEPT !.OV = o]
  OBVIOUS
<1>7. [r EXCEPT !.E = e, !.C = c] = [re EXCEPT !.C = c]
  OBVIOUS
<1>8. [r EXCEPT !.X = x, !.C = c, !.OV = o] = [rxc EXCEPT !.OV = o]
  OBVIOUS
<1>9. [r EXCEPT !.A = a, !.C = c, !.OV = o] = [rac EXCEPT !.OV = o]
  OBVIOUS
<1> HIDE DEF ra, re, rx, rc
<1>10. rac \in V /\ rxc \in V
  BY <1>1 DEF Machines
<1> HIDE DEF rac, rxc
<1>11. /\ [re EXCEPT !.A = a] \in V /\ [ra EXCEPT !.E = e] \in V
       /\ [ra EXCEPT !.X = x] \in V /\ [re EXCEPT !.X = x] \in V
       /\ [rc EXCEPT !.OV = o] \in V /\ [re EXCEPT !.C = c] \in V
       /\ [rxc EXCEPT !.OV = o] \in V /\ [rac EXCEPT !.OV = o] \in V
  BY <1>1, <1>10 DEF Machines
<1> QED  BY <1>1, <1>2, <1>3, <1>4, <1>5, <1>6, <1>7, <1>8, <1>9, <1>11
            DEF ra, re, rx, rc

LEMMA Assigned ==
  ASSUME NEW V, Machines(V), NEW r \in V
  PROVE  /\ \A a \in Word : [r EXCEPT !.A = a] \in V
         /\ \A e \in Word : [r EXCEPT !.E = e] \in V
         /\ \A x \in Word : [r EXCEPT !.X = x] \in V
         /\ \A o \in Flag : [r EXCEPT !.OV = o] \in V
         /\ \A c \in Flag : [r EXCEPT !.C = c] \in V
         /\ \A a, e \in Word : [r EXCEPT !.E = e, !.A = a] \in V
         /\ \A a, e \in Word : [r EXCEPT !.A = a, !.E = e] \in V
         /\ \A a, x \in Word : [r EXCEPT !.A = a, !.X = x] \in V
         /\ \A e, x \in Word : [r EXCEPT !.E = e, !.X = x] \in V
         /\ \A e \in Word, c \in Flag : [r EXCEPT !.E = e, !.C = c] \in V
         /\ \A c, o \in Flag : [r EXCEPT !.C = c, !.OV = o] \in V
         /\ \A x \in Word, c, o \in Flag :
              [r EXCEPT !.X = x, !.C = c, !.OV = o] \in V
         /\ \A a \in Word, c, o \in Flag :
              [r EXCEPT !.A = a, !.C = c, !.OV = o] \in V
<1>1. 0 \in Flag /\ 0 \in Word
  BY Sizes DEF Word, Flag
<1>2. \A a, e, x \in Word, c, o \in Flag :
        /\ [r EXCEPT !.E = e, !.A = a] \in V
        /\ [r EXCEPT !.A = a, !.E = e] \in V
        /\ [r EXCEPT !.A = a, !.X = x] \in V
        /\ [r EXCEPT !.E = e, !.X = x] \in V
        /\ [r EXCEPT !.C = c, !.OV = o] \in V
        /\ [r EXCEPT !.E = e, !.C = c] \in V
        /\ [r EXCEPT !.X = x, !.C = c, !.OV = o] \in V
        /\ [r EXCEPT !.A = a, !.C = c, !.OV = o] \in V
  BY AssignedTogether
<1>3. /\ \A v \in Word : /\ [r EXCEPT !.A = v] \in V
                         /\ [r EXCEPT !.E = v] \in V
                         /\ [r EXCEPT !.X = v] \in V
      /\ \A b \in Flag : [r EXCEPT !.C = b] \in V /\ [r EXCEPT !.OV = b] \in V
  BY DEF Machines
<1> QED  BY <1>1, <1>2, <1>3, Zenon

LEMMA Bit ==
  /\ \A b : Test(b) \in Flag
  /\ \A v \in Word : LowBit(v) \in Flag /\ TopBit(v) \in Flag
  /\ \A x \in Int : x % Modulus \in Word
<1>1. \A b : Test(b) \in Flag
  BY DEF Test, Flag
<1>2. ASSUME NEW v \in Word PROVE LowBit(v) \in Flag
  BY Sizes DEF Word, LowBit, Flag
<1>3. ASSUME NEW v \in Word PROVE TopBit(v) = IF v < Half THEN 0 ELSE 1
  BY Sizes DEF Word, TopBit
<1>4. ASSUME NEW x \in Int PROVE x % Modulus \in Word
  BY Sizes DEF Word
<1> QED  BY <1>1, <1>2, <1>3, <1>4 DEF Flag

LEMMA LoadCodes ==
  ASSUME NEW V, Machines(V), NEW r \in V, NEW v, NEW w
  PROVE  /\ set_condition_codes_load(r, v) \in V
         /\ set_condition_codes_compare(r, v, w) \in V
<1> DEFINE c1 == Test(v = 0)
           o1 == Test(Negative(v))
           c2 == Test(v = w)
           o2 == Test(Signed(v) < Signed(w))
<1>1. c1 \in Flag /\ o1 \in Flag /\ c2 \in Flag /\ o2 \in Flag
  BY Bit
<1>2. /\ set_condition_codes_load(r, v) = [r EXCEPT !.C = c1, !.OV = o1]
      /\ set_condition_codes_compare(r, v, w) = [r EXCEPT !.C = c2, !.OV = o2]
  BY DEF set_condition_codes_load, set_condition_codes_compare
<1> HIDE DEF c1, o1, c2, o2
<1>3. [r EXCEPT !.C = c1] \in V /\ [r EXCEPT !.C = c2] \in V
  BY <1>1 DEF Machines
<1>4. ASSUME NEW c, NEW o PROVE [r EXCEPT !.C = c, !.OV = o] = [[r EXCEPT !.C = c] EXCEPT !.OV = o]
  OBVIOUS
<1>5. /\ [[r EXCEPT !.C = c1] EXCEPT !.OV = o1] \in V
      /\ [[r EXCEPT !.C = c2] EXCEPT !.OV = o2] \in V
  BY <1>1, <1>3 DEF Machines
<1> QED  BY <1>2, <1>4, <1>5

----------------------------------------------------------------------------
(* Arithmetic. *)

LEMMA SumTypes ==
  ASSUME NEW a \in Word, NEW b \in Word
  PROVE  /\ add16(a, b).result \in Word
         /\ add16(a, b).carry \in Flag
         /\ add16(a, b).overflow \in Flag
         /\ sub16(a, b).result \in Word
         /\ sub16(a, b).carry \in Flag
         /\ sub16(a, b).overflow \in Flag
<1>1. (a + b) % Modulus \in Word /\ (a + b) \div Modulus \in Flag
  BY SumOfWords
<1>2. (a - b) % Modulus \in Word
  BY Difference
<1> QED  BY <1>1, <1>2, Bit DEF add16, sub16

LEMMA ProductTypes ==
  ASSUME NEW a \in Word, NEW b \in Word
  PROVE  mul32(a, b).high \in Word /\ mul32(a, b).low \in Word
<1> DEFINE M == Modulus
           p == a * b
           q == p \div M
<1>1. M \in Nat \ {0} /\ a \in Nat /\ b \in Nat /\ a < M /\ b < M
  BY Sizes DEF Word
<1>2. Word = 0..M - 1
  BY DEF Word
<1>3. mul32(a, b).high = q /\ mul32(a, b).low = p % M
  BY DEF mul32
<1> HIDE DEF M
<1>4. p \in Nat /\ p < M * M
  <2>1. a * b <= a * M
    BY <1>1
  <2>2. a * M < M * M
    BY <1>1
  <2>3. p \in Nat /\ a * M \in Nat /\ M * M \in Nat
    BY <1>1
  <2> HIDE DEF p
  <2> QED  BY <2>1, <2>2, <2>3 DEF p
<1> HIDE DEF p
<1>5. q \in Nat /\ p % M \in 0..M - 1 /\ q * M <= p
  BY <1>1, <1>4
<1> HIDE DEF q
<1>6. q < M
  <2> SUFFICES ASSUME q >= M PROVE FALSE
    BY <1>1, <1>5
  <2>1. q * M >= M * M
    BY <1>1, <1>5
  <2> QED  BY <1>1, <1>4, <1>5, <2>1
<1> QED  BY <1>1, <1>2, <1>3, <1>5, <1>6

LEMMA SignedTypes ==
  ASSUME NEW v \in Word
  PROVE  Signed(v) \in Int /\ (v # 0 => Signed(v) # 0)
BY Sizes DEF Word, Signed

LEMMA QuotientType ==
  ASSUME NEW a \in Int, NEW b \in Int, b # 0
  PROVE  Quotient(a, b) \in Int
<1> DEFINE p == IF a < 0 THEN -a ELSE a
           m == IF b < 0 THEN -b ELSE b
           q == p \div m
<1>1. p \in Nat /\ m \in Nat \ {0}
  OBVIOUS
<1>2. q \in Int
  <2> HIDE DEF p, m
  <2> QED  BY <1>1
<1>3. Quotient(a, b) = IF (a < 0) = (b < 0) THEN q ELSE -q
  BY DEF Quotient
<1> HIDE DEF q
<1> QED  BY <1>2, <1>3

LEMMA DivisionTypes ==
  ASSUME NEW V, Machines(V), NEW r \in V, NEW m \in Word
  PROVE  div32(r, m).A \in Word /\ div32(r, m).E \in Word
<1> DEFINE d == Dividend(r)
           s == Signed(m)
           q == Quotient(d, s)
<1>1. r.A \in Word /\ r.E \in Word
  BY DEF Machines
<1>2. d \in Int /\ s \in Int
  <2>1. Signed(r.E) \in Int /\ s \in Int /\ r.A \in Int /\ Modulus \in Int
    BY <1>1, SignedTypes, Sizes DEF Word
  <2> QED  BY <2>1 DEF Dividend
<1>3. CASE m = 0
  BY <1>1, <1>3 DEF div32
<1>4. CASE m # 0
  <2>1. q \in Int
    <3> HIDE DEF d
    <3> QED  BY <1>2, <1>4, SignedTypes, QuotientType
  <2>2. /\ div32(r, m).A = q % Modulus
        /\ div32(r, m).E = r.E \/ div32(r, m).E = (d - q * s) % Modulus
    BY <1>4 DEF div32
  <2>3. d - q * s \in Int
    <3> HIDE DEF d, q, s
    <3> QED  BY <1>2, <2>1
  <2> HIDE DEF d, q, s
  <2> QED  BY <1>1, <2>1, <2>2, <2>3, Bit
<1> QED  BY <1>3, <1>4

----------------------------------------------------------------------------
(* One position of a shift. *)

LEMMA ShiftedWord ==
  ASSUME NEW v \in Word, NEW b \in Flag
  PROVE  /\ v \div 2 \in Word
         /\ v \div 2 + Half * b \in Word
         /\ Doubled(v) \in Word
         /\ Doubled(v) + b \in Word
<1>1. v \div 2 \in Nat /\ v \div 2 < Half
  BY Sizes DEF Word
<1>2. Half * b \in {0, Half}
  BY Sizes DEF Flag
<1>3. v \div 2 + Half * b \in Word /\ v \div 2 \in Word
  <2> DEFINE q == v \div 2
             p == Half * b
  <2>1. q \in Nat /\ q < Half /\ p \in {0, Half}
    BY <1>1, <1>2
  <2> HIDE DEF q, p
  <2>2. q \in Word /\ q + p \in Word
    BY <2>1, Sizes DEF Word
  <2> QED  BY <2>2 DEF q, p
<1>4. Doubled(v) = IF v < Half THEN 2 * v ELSE 2 * v - Modulus
  <2> DEFINE q == IF v < Half THEN 0 ELSE 1
             x == IF v < Half THEN 2 * v ELSE 2 * v - Modulus
  <2>1. q \in Int /\ x \in Word /\ 2 * v = q * Modulus + x /\ 2 * v \in Int
    BY Sizes DEF Word
  <2> HIDE DEF q, x
  <2>2. (2 * v) % Modulus = x
    BY <2>1, Reduced
  <2> QED  BY <2>2 DEF Doubled, x
<1>5. Doubled(v) \in Word /\ Doubled(v) + b \in Word
  BY <1>4, Sizes DEF Word, Flag
<1> QED  BY <1>3, <1>5

Positions ==
  {"SLLS", "SRLS", "SAS", "SRCS", "SLCS", "SAD", "SLCD", "SRCD", "SLLD", "SRLD",
   "PTY"}

LEMMA ShiftOnceType ==
  ASSUME NEW V, Machines(V), NEW r \in V, NEW type \in Positions
  PROVE  ShiftOnce(type, r) \in V
<1>1. r.A \in Word /\ r.E \in Word
  BY DEF Machines
<1>2. TopBit(r.A) \in Flag /\ TopBit(r.E) \in Flag /\ LowBit(r.A) \in Flag
      /\ LowBit(r.E) \in Flag
  BY <1>1, Bit
<1> DEFINE a == {Doubled(r.A), r.A \div 2, r.A \div 2 + Half * TopBit(r.A),
                 r.A \div 2 + Half * LowBit(r.A), Doubled(r.A) + TopBit(r.A),
                 r.A \div 2 + Half * LowBit(r.E), Doubled(r.A) + TopBit(r.E)}
           e == {Doubled(r.E), r.E \div 2, r.E \div 2 + Half * TopBit(r.E),
                 r.E \div 2 + Half * LowBit(r.A), Doubled(r.E) + TopBit(r.A)}
<1>3. a \subseteq Word /\ e \subseteq Word
  BY <1>1, <1>2, ShiftedWord
<1>4. CASE type # "PTY"
  <2>1. \/ \E v \in a : ShiftOnce(type, r) = [r EXCEPT !.A = v]
        \/ \E v \in a, w \in e :
             \/ ShiftOnce(type, r) = [r EXCEPT !.A = v, !.E = w]
             \/ ShiftOnce(type, r) = [r EXCEPT !.E = w, !.A = v]
    <3>1. CASE type \in {"SLLS", "SRLS", "SAS", "SRCS", "SLCS"}
      BY <3>1 DEF ShiftOnce, shift_lls, shift_rls, shift_sas, shift_srcs, shift_slcs
    <3>2. CASE type \in {"SAD", "SLCD", "SRCD", "SLLD", "SRLD"}
      BY <3>2 DEF ShiftOnce, shift_sad, shift_lcd, shift_rcd, shift_lld, shift_rld
    <3> QED  BY <1>4, <3>1, <3>2 DEF Positions
  <2> HIDE DEF a, e
  <2>2. \A v \in a : v \in Word
    BY <1>3
  <2>3. \A w \in e : w \in Word
    BY <1>3
  <2>4. \A v \in Word : [r EXCEPT !.A = v] \in V
    BY DEF Machines
  <2>5. \A v, w \in Word : [r EXCEPT !.A = v, !.E = w] \in V
    BY Assigned, Zenon
  <2>6. \A v, w \in Word : [r EXCEPT !.E = w, !.A = v] \in V
    BY Assigned, Zenon
  <2>7. \A v \in a : [r EXCEPT !.A = v] \in V
    BY <2>2, <2>4, Zenon
  <2>8. \A v \in a, w \in e : [r EXCEPT !.A = v, !.E = w] \in V
    BY <2>2, <2>3, <2>5, Zenon
  <2>9. \A v \in a, w \in e : [r EXCEPT !.E = w, !.A = v] \in V
    BY <2>2, <2>3, <2>6, Zenon
  <2> QED  BY <2>1, <2>7, <2>8, <2>9, Zenon
<1>5. CASE type = "PTY"
  <2> DEFINE x == Doubled(r.A) + TopBit(r.A)
             y == (r.E + TopBit(r.A)) % Modulus
             z == TopBit(r.A)
             s == [r EXCEPT !.A = x, !.E = y]
  <2>1. x \in Word /\ y \in Word /\ z \in Flag
    <3>1. r.E + TopBit(r.A) \in Int
      BY <1>1, <1>2, Sizes DEF Word, Flag
    <3> QED  BY <1>1, <1>2, <3>1, ShiftedWord, Bit
  <2>2. ShiftOnce(type, r) = [s EXCEPT !.C = z]
    BY <1>5 DEF ShiftOnce, ParityStep, shift_slcs
  <2> HIDE DEF x, y, z
  <2>3. s \in V
    BY <2>1, Assigned DEF Machines
  <2> HIDE DEF s
  <2> QED  BY <2>1, <2>2, <2>3 DEF Machines
<1> QED  BY <1>4, <1>5

\* The registers after each position of a shift.
Shifted(f, V, type, n, r) ==
  /\ f \in [0..n -> V]
  /\ f[0] = r
  /\ \A k \in 1..n : f[k] = ShiftOnce(type, f[k - 1])
  /\ Repeat(type, n, r) = f[n]

LEMMA PositionByPosition ==
  ASSUME NEW V, Machines(V), NEW r \in V, NEW type \in Positions, NEW n \in Nat
  PROVE  \E f : Shifted(f, V, type, n, r)
<1> DEFINE step == [p \in V \X (1..n) |-> ShiftOnce(type, p[1])]
           Is(g) == g = [k \in 0..n |-> IF k = 0 THEN r ELSE ShiftOnce(type, g[k - 1])]
           after == CHOOSE g : Is(g)
<1>1. step \in Steps(V, n)
  BY ShiftOnceType DEF Steps
<1>2. PICK f : Follows(f, V, r, step, n)
  <2> HIDE DEF step
  <2> QED  BY <1>1, Recursion
<1>3. /\ f \in [0..n -> V] /\ f[0] = r
      /\ \A k \in 1..n : f[k] = ShiftOnce(type, f[k - 1])
  <2>1. \A k \in 1..n : k - 1 \in 0..n
    OBVIOUS
  <2> QED  BY <1>2, <2>1 DEF Follows
<1>4. 0..n = {0} \cup (1..n) /\ 0 \notin 1..n
  OBVIOUS
<1>5. Is(f)
  BY <1>3, <1>4
<1>6. Is(after)
  <2> HIDE DEF Is
  <2> QED  BY <1>5
<1>7. Repeat(type, n, r) = after[n]
  BY DEF Repeat
<1> HIDE DEF after
<1>8. after[0] = r /\ \A k \in 1..n : after[k] = ShiftOnce(type, after[k - 1])
  BY <1>4, <1>6
<1>9. after \in [0..n -> V]
  <2> DEFINE T == {k \in 0..n : after[k] \in V}
  <2>1. 0 \in T
    BY <1>8
  <2>2. ASSUME NEW k \in 0..n - 1, k \in T PROVE k + 1 \in T
    <3>1. k + 1 \in 1..n /\ (k + 1) - 1 = k
      OBVIOUS
    <3>2. after[k + 1] = ShiftOnce(type, after[k])
      BY <1>8, <3>1
    <3> QED  BY <2>2, <3>1, <3>2, ShiftOnceType
  <2>3. 0..n \subseteq T
    <3> HIDE DEF T
    <3> QED  BY <2>1, <2>2, RangeInduction
  <2>4. after = [k \in 0..n |-> after[k]]
    BY <1>6
  <2> QED  BY <2>3, <2>4
<1> QED  BY <1>7, <1>8, <1>9 DEF Shifted

\* A shift of no position, and of one more.
LEMMA OneMore ==
  ASSUME NEW V, Machines(V), NEW r \in V, NEW type \in Positions, NEW n \in Nat
  PROVE  /\ Repeat(type, 0, r) = r
         /\ Repeat(type, n, r) \in V
         /\ Repeat(type, n + 1, r) = ShiftOnce(type, Repeat(type, n, r))
<1>1. PICK z : Shifted(z, V, type, 0, r)
  <2>1. 0 \in Nat
    OBVIOUS
  <2> QED  BY <2>1, PositionByPosition
<1>2. PICK f : Shifted(f, V, type, n, r)
  BY PositionByPosition
<1>3. PICK g : Shifted(g, V, type, n + 1, r)
  <2>1. n + 1 \in Nat
    OBVIOUS
  <2> DEFINE m == n + 1
  <2> HIDE DEF m
  <2>2. \E g : Shifted(g, V, type, m, r)
    BY <2>1, PositionByPosition DEF m
  <2> QED  BY <2>2 DEF m
<1> DEFINE T == {k \in 0..n : f[k] = g[k]}
<1>4. 0 \in T
  BY <1>2, <1>3 DEF Shifted
<1>5. ASSUME NEW k \in 0..n - 1, k \in T PROVE k + 1 \in T
  <2>1. k + 1 \in 1..n /\ k + 1 \in 1..n + 1 /\ (k + 1) - 1 = k
    OBVIOUS
  <2>2. f[k + 1] = ShiftOnce(type, f[k]) /\ g[k + 1] = ShiftOnce(type, g[k])
    BY <1>2, <1>3, <2>1 DEF Shifted
  <2> QED  BY <1>5, <2>1, <2>2
<1>6. n \in T
  <2>1. n \in 0..n
    OBVIOUS
  <2> HIDE DEF T
  <2> QED  BY <2>1, <1>4, <1>5, RangeInduction
<1>7. g[n + 1] = ShiftOnce(type, g[n])
  <2>1. n + 1 \in 1..n + 1 /\ (n + 1) - 1 = n
    OBVIOUS
  <2> QED  BY <1>3, <2>1 DEF Shifted
<1> QED  BY <1>1, <1>2, <1>3, <1>6, <1>7 DEF Shifted

LEMMA ShiftRegisterType ==
  ASSUME NEW V, Machines(V), NEW r \in V, NEW type \in Positions, NEW n \in Nat
  PROVE  ShiftRegister(type, n, r) \in V
BY OneMore, LoadCodes DEF ShiftRegister

\* The positions NLZ takes: the first where it stops.
LEMMA FirstStop ==
  ASSUME NEW limit \in Nat, NEW S, limit \in S
  PROVE  LET k0 == CHOOSE k \in 0..limit : k \in S /\ \A j \in 0..k - 1 : j \notin S
         IN  k0 \in 0..limit /\ k0 \in S /\ \A j \in 0..k0 - 1 : j \notin S
<1> DEFINE T == {k \in 0..limit : k \in S}
<1>1. PICK m \in T : \A k \in T : m <= k
  <2>1. T \in SUBSET Nat /\ T # {}
    OBVIOUS
  <2> HIDE DEF T
  <2> QED  BY <2>1, Minimum
<1>2. m \in 0..limit /\ m \in S /\ \A j \in 0..m - 1 : j \notin S
  <2>1. ASSUME NEW j \in 0..m - 1, j \in S PROVE FALSE
    <3>1. j \in T
      BY <2>1
    <3> QED  BY <1>1, <3>1
  <2> QED  BY <2>1
<1> QED  BY <1>2

\* How many positions NLZ shifts.
NormalSteps(r, max) ==
  LET limit == Min({max, 2 * Width - 1})
      Stop(k) == k = limit \/ Normal(Repeat("SLLD", k, r))
  IN  CHOOSE k \in 0..limit : Stop(k) /\ \A j \in 0..k - 1 : ~Stop(j)

LEMMA NormalStops ==
  ASSUME NEW r, NEW max \in Nat
  PROVE  /\ NormalSteps(r, max) \in Nat
         /\ NormalSteps(r, max) <= max
         /\ NormalSteps(r, max) <= 2 * Width - 1
         /\ \/ NormalSteps(r, max) = max
            \/ NormalSteps(r, max) = 2 * Width - 1
            \/ Normal(Repeat("SLLD", NormalSteps(r, max), r))
         /\ \A j \in 0..NormalSteps(r, max) - 1 : ~Normal(Repeat("SLLD", j, r))
<1> DEFINE top == 2 * Width - 1
           limit == Min({max, top})
           S == {p \in 0..limit : p = limit \/ Normal(Repeat("SLLD", p, r))}
           steps == CHOOSE k \in 0..limit : k \in S /\ \A j \in 0..k - 1 : j \notin S
<1>1. top \in Nat /\ Width \in Nat
  BY WidthAssumption
<1>2. limit \in Nat /\ limit <= max /\ limit <= top /\ limit \in {max, top}
  <2> HIDE DEF top
  <2>1. \E x \in {max, top} : \A y \in {max, top} : x <= y
    BY <1>1
  <2>2. limit \in {max, top} /\ \A y \in {max, top} : limit <= y
    <3>1. limit = CHOOSE x \in {max, top} : \A y \in {max, top} : x <= y
      BY DEF Min
    <3> HIDE DEF limit
    <3> QED  BY <2>1, <3>1
  <2> HIDE DEF limit
  <2> QED  BY <1>1, <2>2
<1> HIDE DEF limit
<1>3. limit \in S
  BY <1>2
<1>4. steps \in 0..limit /\ steps \in S /\ \A j \in 0..steps - 1 : j \notin S
  <2> HIDE DEF S
  <2> QED  BY <1>2, <1>3, FirstStop
<1>5. NormalSteps(r, max) = steps
  <2>1. ASSUME NEW k \in 0..limit
        PROVE  (k \in S /\ \A j \in 0..k - 1 : j \notin S)
                 <=> /\ k = limit \/ Normal(Repeat("SLLD", k, r))
                     /\ \A j \in 0..k - 1 : ~(j = limit \/ Normal(Repeat("SLLD", j, r)))
    <3>1. \A j \in 0..k - 1 : j \in 0..limit
      BY <1>2
    <3> QED  BY <3>1
  <2>2. NormalSteps(r, max)
          = CHOOSE k \in 0..limit :
              /\ k = limit \/ Normal(Repeat("SLLD", k, r))
              /\ \A j \in 0..k - 1 : ~(j = limit \/ Normal(Repeat("SLLD", j, r)))
    BY DEF NormalSteps, limit
  <2> HIDE DEF S
  <2> QED  BY <2>1, <2>2
<1> HIDE DEF steps
<1>6. \A j \in 0..steps - 1 : j \in 0..limit
  BY <1>2, <1>4
<1> QED  BY <1>1, <1>2, <1>4, <1>5, <1>6

LEMMA NormalizeAt ==
  ASSUME NEW r, NEW max \in Nat
  PROVE  LET steps == NormalSteps(r, max)
         IN  normalize(r, max)
               = [Repeat("SLLD", steps, r) EXCEPT !.X = (@ - steps) % Modulus,
                                                  !.C = Test(steps = max /\ steps # 0),
                                                  !.OV = Test(steps = 0)]
BY DEF normalize, NormalSteps

LEMMA NormalizeType ==
  ASSUME NEW V, Machines(V), NEW r \in V, NEW max \in Nat
  PROVE  normalize(r, max) \in V
<1> DEFINE steps == NormalSteps(r, max)
           s == Repeat("SLLD", steps, r)
           x == (s.X - steps) % Modulus
           c == Test(steps = max /\ steps # 0)
           o == Test(steps = 0)
<1>1. steps \in Nat
  BY NormalStops
<1>2. s \in V
  <2> HIDE DEF steps
  <2> QED  BY <1>1, OneMore DEF Positions
<1>3. normalize(r, max) = [s EXCEPT !.X = x, !.C = c, !.OV = o]
  BY NormalizeAt
<1> HIDE DEF s, steps
<1>4. x \in Word
  <2>1. s.X \in Word
    BY <1>2 DEF Machines
  <2>2. s.X - steps \in Int
    BY <1>1, <2>1, Sizes DEF Word
  <2> QED  BY <2>2, Bit
<1>5. c \in Flag /\ o \in Flag
  BY Bit
<1> HIDE DEF x, c, o
<1>6. [s EXCEPT !.X = x, !.C = c, !.OV = o] \in V
  BY <1>2, <1>4, <1>5, Assigned
<1> QED  BY <1>3, <1>6

LEMMA ParityType ==
  ASSUME NEW V, Machines(V), NEW r \in V, NEW n \in Nat
  PROVE  compute_parity(r, n) \in V
<1> DEFINE s == [r EXCEPT !.E = 0, !.C = 0]
           last == Repeat("PTY", n, s)
<1>1. s \in V
  <2>1. 0 \in Word /\ 0 \in Flag
    BY Sizes DEF Word, Flag
  <2> QED  BY <2>1, Assigned
<1>2. compute_parity(r, n) = [last EXCEPT !.OV = LowBit(last.E)]
  BY DEF compute_parity
<1> HIDE DEF s
<1>3. last \in V
  BY <1>1, OneMore DEF Positions
<1> HIDE DEF last
<1>4. LowBit(last.E) \in Flag
  BY <1>3, Bit DEF Machines
<1> QED  BY <1>2, <1>3, <1>4 DEF Machines

LEMMA ShiftInstrType ==
  ASSUME NEW V, Machines(V), NEW r \in V, NEW type \in SpecialTypes, NEW n \in Nat
  PROVE  shift_instr(type, n, r) \in V
<1>1. CASE type = "PTY"
  BY <1>1, ParityType DEF shift_instr
<1>2. CASE type = "NLZ"
  BY <1>2, NormalizeType DEF shift_instr
<1>3. CASE type \in {"SLLD", "SRLD"}
  <2> DEFINE s == Repeat(type, n, r)
  <2>1. shift_instr(type, n, r) = set_condition_codes_load(s, s.A)
    BY <1>3 DEF shift_instr
  <2>2. s \in V
    BY <1>3, OneMore DEF Positions
  <2> HIDE DEF s
  <2> QED  BY <2>1, <2>2, LoadCodes
<1>4. CASE type = "unknown"
  BY <1>4, LoadCodes DEF shift_instr
<1> QED  BY <1>1, <1>2, <1>3, <1>4 DEF SpecialTypes

----------------------------------------------------------------------------
(* The instructions. *)

LEMMA SetRegisterType ==
  ASSUME NEW V, Machines(V), NEW r \in V, NEW type \in RegisterTypes
  PROVE  set_register(type, r) \in V
<1>1. r.A \in Word /\ r.E \in Word /\ r.X \in Word /\ r.C \in Flag
  BY DEF Machines
<1> DEFINE a == {r.E, r.X, Join(Right(r.A), Left(r.A)), Complement(r.A),
                 BitXor(r.A, r.E), BitOr(r.A, r.E), BitAnd(r.A, r.E),
                 (-r.A) % Modulus}
           e == {r.A, r.X, Complement(r.E), (r.E + r.C) % Modulus, Modulus - 1}
           x == {r.A, r.E, (-r.X) % Modulus, r.X \div 2 + Half * TopBit(r.X)}
<1>2. \A v \in a : v \in Word
  <2>1. Join(Right(r.A), Left(r.A)) \in Word
    BY <1>1, BytesOfWord, WordOfBytes
  <2>2. (-r.A) % Modulus \in Word
    <3>1. -r.A \in Int
      BY <1>1, Sizes DEF Word
    <3> QED  BY <3>1, Bit
  <2> QED  BY <1>1, <2>1, <2>2, LogicalWords
<1>3. \A v \in e : v \in Word
  <2>1. (r.E + r.C) % Modulus \in Word
    <3>1. r.E + r.C \in Int
      BY <1>1, Sizes DEF Word, Flag
    <3> QED  BY <3>1, Bit
  <2>2. Modulus - 1 \in Word
    BY Sizes DEF Word
  <2> QED  BY <1>1, <2>1, <2>2, LogicalWords
<1>4. \A v \in x : v \in Word
  <2>1. (-r.X) % Modulus \in Word
    <3>1. -r.X \in Int
      BY <1>1, Sizes DEF Word
    <3> QED  BY <3>1, Bit
  <2>2. r.X \div 2 + Half * TopBit(r.X) \in Word
    <3>1. TopBit(r.X) \in Flag
      BY <1>1, Bit
    <3> QED  BY <1>1, <3>1, ShiftedWord
  <2> QED  BY <1>1, <2>1, <2>2
<1>5. /\ \A v \in Word : [r EXCEPT !.A = v] \in V
      /\ \A v \in Word : [r EXCEPT !.E = v] \in V
      /\ \A v \in Word : [r EXCEPT !.X = v] \in V
      /\ \A v, w \in Word : [r EXCEPT !.A = v, !.E = w] \in V
      /\ \A v, w \in Word : [r EXCEPT !.A = v, !.X = w] \in V
      /\ \A v, w \in Word : [r EXCEPT !.E = v, !.X = w] \in V
      /\ \A s \in V : TestedA(s) \in V
  BY LoadCodes, Assigned DEF TestedA
<1>6. \/ \E v \in a : \/ set_register(type, r) = [r EXCEPT !.A = v]
                      \/ set_register(type, r) = TestedA([r EXCEPT !.A = v])
      \/ \E v \in e : \/ set_register(type, r) = [r EXCEPT !.E = v]
                      \/ set_register(type, r) = TestedA([r EXCEPT !.E = v])
      \/ \E v \in x : set_register(type, r) = [r EXCEPT !.X = v]
      \/ \E v \in a, w \in e : set_register(type, r) = [r EXCEPT !.A = v, !.E = w]
      \/ \E v \in a, w \in x : set_register(type, r) = [r EXCEPT !.A = v, !.X = w]
      \/ \E v \in e, w \in x : set_register(type, r) = [r EXCEPT !.E = v, !.X = w]
  <2>1. CASE type \in {"XAE", "XAX", "XEX"}
    BY <2>1 DEF set_register
  <2>2. CASE type \in {"XAA", "CCA"}
    BY <2>2 DEF set_register
  <2>3. CASE type \in {"CCE", "LNE"}
    BY <2>3 DEF set_register
  <2>4. CASE type \in {"CNX", "CHX"}
    BY <2>4 DEF set_register
  <2>5. CASE type \in {"AEE", "AIE", "AAE", "CNA"}
    BY <2>5 DEF set_register
  <2>6. CASE type = "ACE"
    BY <2>6 DEF set_register
  <2> QED  BY <2>1, <2>2, <2>3, <2>4, <2>5, <2>6 DEF RegisterTypes
<1> HIDE DEF a, e, x
<1>7. \A v \in a : [r EXCEPT !.A = v] \in V /\ TestedA([r EXCEPT !.A = v]) \in V
  BY <1>2, <1>5, Zenon
<1>8. \A v \in e : [r EXCEPT !.E = v] \in V /\ TestedA([r EXCEPT !.E = v]) \in V
  BY <1>3, <1>5, Zenon
<1>9. \A v \in x : [r EXCEPT !.X = v] \in V
  BY <1>4, <1>5, Zenon
<1>10. \A v \in a, w \in e : [r EXCEPT !.A = v, !.E = w] \in V
  BY <1>2, <1>3, <1>5, Zenon
<1>11. \A v \in a, w \in x : [r EXCEPT !.A = v, !.X = w] \in V
  BY <1>2, <1>4, <1>5, Zenon
<1>12. \A v \in e, w \in x : [r EXCEPT !.E = v, !.X = w] \in V
  BY <1>3, <1>4, <1>5, Zenon
<1> QED  BY <1>6, <1>7, <1>8, <1>9, <1>10, <1>11, <1>12, Zenon

LEMMA LoadType ==
  ASSUME NEW V, Machines(V), NEW r \in V, NEW op \in LoadOperations, NEW m \in Word
  PROVE  Mem_OP_Reg_To_Reg(op, r, m) \in V
<1>1. r.A \in Word /\ r.E \in Word
  BY DEF Machines
<1>2. /\ \A v \in Word : [r EXCEPT !.A = v] \in V
      /\ \A v \in Word : [r EXCEPT !.E = v] \in V
      /\ \A v \in Word : [r EXCEPT !.X = v] \in V
      /\ \A v \in Word, c, o \in Flag :
           [r EXCEPT !.A = v, !.C = c, !.OV = o] \in V
      /\ \A v, w \in Word : [r EXCEPT !.A = v, !.E = w] \in V
      /\ \A v, w \in Word : [r EXCEPT !.E = w, !.A = v] \in V
  BY Assigned
<1>3. /\ \A s \in V : \A v : set_condition_codes_load(s, v) \in V
      /\ \A s \in V : \A v, w : set_condition_codes_compare(s, v, w) \in V
  BY LoadCodes
<1>4. CASE op \in {"LDA", "EOR", "IOR", "AND", "LBL", "LBR"}
  <2> DEFINE a == {m, BitXor(r.A, m), BitOr(r.A, m), BitAnd(r.A, m),
                   Join(Right(m), Right(r.A)), Right(m)}
  <2>1. \A v \in a : v \in Word
    <3>1. Right(m) \in Byte /\ Right(r.A) \in Byte
      BY <1>1, BytesOfWord
    <3>2. Right(m) \in Word
      <4>1. ByteSize <= Modulus
        <5> DEFINE B == ByteSize
        <5>1. B \in Nat \ {0} /\ B * B = Modulus
          BY ByteSizes
        <5> HIDE DEF B
        <5>2. B <= B * B
          BY <5>1
        <5> QED  BY <5>1, <5>2 DEF B
      <4> QED  BY <3>1, <4>1, ByteSizes, Sizes DEF Word, Byte, ByteSize
    <3> QED  BY <3>1, <3>2, WordOfBytes, LogicalWords
  <2>2. \E v \in a : Mem_OP_Reg_To_Reg(op, r, m)
                       = set_condition_codes_load([r EXCEPT !.A = v], v)
    BY <1>4 DEF Mem_OP_Reg_To_Reg
  <2> HIDE DEF a
  <2>3. \A v \in a : [r EXCEPT !.A = v] \in V
    BY <1>2, <2>1, Zenon
  <2> QED  BY <1>3, <2>2, <2>3, Zenon
<1>5. CASE op \in {"LDE", "LDX", "LBX"}
  <2>1. Right(m) \in Word
    <3>1. Right(m) \in Byte /\ m \in Nat
      BY BytesOfWord, Sizes DEF Word
    <3>2. Right(m) <= m
      <4> DEFINE B == ByteSize
      <4>1. Right(m) = m % B /\ B \in Nat \ {0}
        BY ByteSizes DEF Right, ByteSize
      <4> HIDE DEF B
      <4>2. m % B <= m
        BY <3>1, <4>1
      <4> QED  BY <4>1, <4>2
    <3> QED  BY <3>1, <3>2, ByteSizes, Sizes DEF Word, Byte, ByteSize
  <2>2. \/ Mem_OP_Reg_To_Reg(op, r, m)
             = set_condition_codes_load([r EXCEPT !.E = m], m)
        \/ \E v \in {m, Right(m)} :
             Mem_OP_Reg_To_Reg(op, r, m)
               = set_condition_codes_load([r EXCEPT !.X = v], v)
    BY <1>5 DEF Mem_OP_Reg_To_Reg
  <2>3. [r EXCEPT !.E = m] \in V /\ \A v \in {m, Right(m)} : [r EXCEPT !.X = v] \in V
    BY <1>2, <2>1, Zenon
  <2> QED  BY <1>3, <2>2, <2>3, Zenon
<1>6. CASE op \in {"ADD", "SUB"}
  <2>1. \E s \in {add16(r.A, m), sub16(r.A, m)} :
          Mem_OP_Reg_To_Reg(op, r, m)
            = [r EXCEPT !.A = s.result, !.C = s.carry, !.OV = s.overflow]
    BY <1>6 DEF Mem_OP_Reg_To_Reg
  <2>2. PICK s \in {add16(r.A, m), sub16(r.A, m)} :
          Mem_OP_Reg_To_Reg(op, r, m)
            = [r EXCEPT !.A = s.result, !.C = s.carry, !.OV = s.overflow]
    BY <2>1
  <2>3. s.result \in Word /\ s.carry \in Flag /\ s.overflow \in Flag
    BY <1>1, SumTypes
  <2>4. [r EXCEPT !.A = s.result, !.C = s.carry, !.OV = s.overflow] \in V
    BY <1>2, <2>3, Zenon
  <2> QED  BY <2>2, <2>4, Zenon
<1>7. CASE op = "CMP"
  BY <1>3, <1>7 DEF Mem_OP_Reg_To_Reg
<1>8. CASE op = "MUL"
  <2> DEFINE p == mul32(r.A, m)
  <2>1. Mem_OP_Reg_To_Reg(op, r, m)
          = set_condition_codes_load([r EXCEPT !.E = p.high, !.A = p.low], p.high)
    BY <1>8 DEF Mem_OP_Reg_To_Reg
  <2>2. p.high \in Word /\ p.low \in Word
    BY <1>1, ProductTypes
  <2> HIDE DEF p
  <2>3. [r EXCEPT !.E = p.high, !.A = p.low] \in V
    BY <1>2, <2>2, Zenon
  <2> QED  BY <1>3, <2>1, <2>3, Zenon
<1>9. CASE op = "DIV"
  <2> DEFINE d == div32(r, m)
             s == [r EXCEPT !.A = d.A, !.E = d.E]
  <2>1. \/ Mem_OP_Reg_To_Reg(op, r, m) = set_condition_codes_load(s, s.A)
        \/ Mem_OP_Reg_To_Reg(op, r, m) = [s EXCEPT !.OV = 1]
    BY <1>9 DEF Mem_OP_Reg_To_Reg
  <2>2. d.A \in Word /\ d.E \in Word
    BY DivisionTypes
  <2> HIDE DEF d
  <2>3. s \in V
    BY <1>2, <2>2, Zenon
  <2> HIDE DEF s
  <2>4. 1 \in Flag
    BY DEF Flag
  <2>5. [s EXCEPT !.OV = 1] \in V
    BY <2>3, <2>4 DEF Machines
  <2> QED  BY <1>3, <2>1, <2>3, <2>5
<1> QED  BY <1>4, <1>5, <1>6, <1>7, <1>8, <1>9 DEF LoadOperations

LEMMA StoreType ==
  ASSUME NEW V, Machines(V), NEW r \in V, NEW op \in StoreOperations, NEW m \in Word
  PROVE  /\ StoredValue(op, r, m) \in Word
         /\ AfterStore(op, r, m) \in V
<1>1. r.A \in Word /\ r.E \in Word /\ r.X \in Word
  BY DEF Machines
<1>2. /\ Left(r.A) \in Byte /\ Right(r.A) \in Byte
      /\ Left(m) \in Byte /\ Right(m) \in Byte
  BY <1>1, BytesOfWord
<1>3. /\ Join(Left(r.A), Right(m)) \in Word /\ Join(Left(m), Right(r.A)) \in Word
      /\ add16(m, r.A).result \in Word
      /\ add16(m, r.A).carry \in Flag /\ add16(m, r.A).overflow \in Flag
      /\ BitOr(BitAnd(m, Complement(r.E)), BitAnd(r.A, r.E)) \in Word
  BY <1>1, <1>2, WordOfBytes, SumTypes, LogicalWords
<1>4. StoredValue(op, r, m) \in Word
  BY <1>1, <1>3 DEF StoredValue, StoreOperations
<1>5. AfterStore(op, r, m) \in V
  <2> DEFINE s == add16(m, r.A)
  <2>1. CASE op = "ADM"
    <3>1. AfterStore(op, r, m)
            = [r EXCEPT !.A = s.result, !.C = s.carry, !.OV = s.overflow]
      BY <2>1 DEF AfterStore
    <3>2. s.result \in Word /\ s.carry \in Flag /\ s.overflow \in Flag
      BY <1>3, Zenon
    <3> HIDE DEF s
    <3>3. \A x \in Word, y, z \in Flag : [r EXCEPT !.A = x, !.C = y, !.OV = z] \in V
      BY Assigned
    <3> DEFINE v == s.result
               c == s.carry
               o == s.overflow
    <3>4. v \in Word /\ c \in Flag /\ o \in Flag
      BY <3>2
    <3> HIDE DEF v, c, o
    <3>5. [r EXCEPT !.A = v, !.C = c, !.OV = o] \in V
      BY <3>3, <3>4, Zenon
    <3> QED  BY <3>1, <3>5 DEF v, c, o
  <2>2. CASE op = "STS"
    BY <2>2, LoadCodes DEF AfterStore
  <2>3. CASE op \notin {"ADM", "STS"}
    BY <2>3 DEF AfterStore
  <2> QED  BY <2>1, <2>2, <2>3
<1> QED  BY <1>4, <1>5

LEMMA Products ==
  ASSUME NEW a \in Nat \ {0}, NEW b \in Nat \ {0}
  PROVE  a * b \in Nat \ {0} /\ a * b >= b /\ a * b >= a
<1>1. a * b = (a - 1) * b + b /\ (a - 1) * b \in Nat
  OBVIOUS
<1>2. a * b = a * (b - 1) + a /\ a * (b - 1) \in Nat
  OBVIOUS
<1> QED  BY <1>1, <1>2

----------------------------------------------------------------------------
(* What shifts do to numbers. *)

LEMMA HalvedAgain ==
  ASSUME NEW x \in Int, NEW p \in Nat \ {0}
  PROVE  (x \div p) \div 2 = x \div (2 * p)
<1> DEFINE q == x \div p
           l == x % p
           h == q \div 2
           b == q % 2
           z == b * p + l
<1>1. q \in Int /\ l \in 0..p - 1 /\ x = q * p + l
  OBVIOUS
<1> HIDE DEF q, l
<1>2. h \in Int /\ b \in 0..1 /\ q = 2 * h + b
  BY <1>1
<1> HIDE DEF h, b
<1>3. q * p = h * (2 * p) + b * p
  <2>1. (2 * h + b) * p = h * (2 * p) + b * p
    BY <1>2
  <2> QED  BY <1>2, <2>1
<1>4. z \in 0..2 * p - 1
  <2>1. b * p \in {0, p}
    BY <1>2
  <2> QED  BY <1>1, <2>1
<1>5. x = h * (2 * p) + z
  <2>1. q * p \in Int /\ h * (2 * p) \in Int /\ b * p \in Int
    BY <1>1, <1>2
  <2> QED  BY <1>1, <1>3, <2>1
<1>6. 2 * p \in Nat \ {0}
  OBVIOUS
<1> HIDE DEF z
<1>7. x \div (2 * p) = h
  BY <1>2, <1>4, <1>5, <1>6, Divided
<1> QED  BY <1>7 DEF h, q

\* A multiple of the divisor does not change a remainder.
LEMMA RemainderShifted ==
  ASSUME NEW d \in Nat \ {0}, NEW y \in Int, NEW c \in Int
  PROVE  (y + c * d) % d = y % d
<1> DEFINE q == y \div d
           l == y % d
<1>1. q \in Int /\ l \in 0..d - 1 /\ y = q * d + l
  OBVIOUS
<1> HIDE DEF q, l
<1>2. y + c * d = (q + c) * d + l /\ q + c \in Int
  <2>1. (q + c) * d = q * d + c * d /\ q * d \in Int /\ c * d \in Int
    BY <1>1
  <2> QED  BY <1>1, <2>1
<1>3. (y + c * d) % d = l
  <2>1. ((q + c) * d + l) % d = l
    BY <1>1, <1>2, Divided
  <2> QED  BY <1>2, <2>1
<1> QED  BY <1>3 DEF l

LEMMA DoubledAgain ==
  ASSUME NEW d \in Nat \ {0}, NEW y \in Int
  PROVE  (2 * (y % d)) % d = (2 * y) % d
<1> DEFINE q == y \div d
           l == y % d
<1>1. q \in Int /\ l \in 0..d - 1 /\ y = q * d + l
  OBVIOUS
<1> HIDE DEF q, l
<1>2. 2 * y = 2 * l + (2 * q) * d
  <2>1. (2 * q) * d = 2 * (q * d) /\ q * d \in Int
    BY <1>1
  <2> QED  BY <1>1, <2>1
<1>3. (2 * l + (2 * q) * d) % d = (2 * l) % d
  <2>1. 2 * l \in Int /\ 2 * q \in Int
    BY <1>1
  <2> QED  BY <2>1, RemainderShifted
<1> QED  BY <1>2, <1>3 DEF l

\* A number that one position halves, n positions divide by 2^n.
LEMMA HalvedByShift ==
  ASSUME NEW V, Machines(V), NEW r \in V, NEW type \in Positions, NEW n \in Nat,
         NEW f, \A s \in V : f[s] \in Int,
         \A s \in V : f[ShiftOnce(type, s)] = f[s] \div 2
  PROVE  f[Repeat(type, n, r)] = f[r] \div 2^n
<1> DEFINE T == {k \in Nat : f[Repeat(type, k, r)] = f[r] \div 2^k}
<1>1. 0 \in T
  <2>1. Repeat(type, 0, r) = r
    BY OneMore
  <2> QED  BY <2>1, Powers
<1>2. ASSUME NEW k \in Nat, k \in T PROVE k + 1 \in T
  <2>1. /\ Repeat(type, k + 1, r) = ShiftOnce(type, Repeat(type, k, r))
        /\ Repeat(type, k, r) \in V
    BY OneMore
  <2>2. f[Repeat(type, k + 1, r)] = (f[r] \div 2^k) \div 2
    BY <1>2, <2>1
  <2>3. 2^k \in Nat \ {0} /\ 2^(k + 1) = 2 * 2^k
    BY Powers
  <2>4. (f[r] \div 2^k) \div 2 = f[r] \div 2^(k + 1)
    <3>1. f[r] \in Int
      OBVIOUS
    <3> QED  BY <2>3, <3>1, HalvedAgain
  <2> QED  BY <2>2, <2>4
<1>3. Nat \subseteq T
  <2> HIDE DEF T
  <2> QED  BY <1>1, <1>2, SetInduction
<1> QED  BY <1>3

\* A number that one position doubles, cut to d, n positions multiply by 2^n.
LEMMA DoubledByShift ==
  ASSUME NEW V, Machines(V), NEW r \in V, NEW type \in Positions, NEW n \in Nat,
         NEW d \in Nat \ {0}, NEW f, \A s \in V : f[s] \in 0..d - 1,
         \A s \in V : f[ShiftOnce(type, s)] = (2 * f[s]) % d
  PROVE  f[Repeat(type, n, r)] = (f[r] * 2^n) % d
<1> DEFINE T == {k \in Nat : f[Repeat(type, k, r)] = (f[r] * 2^k) % d}
<1>0. f[r] \in 0..d - 1
  OBVIOUS
<1>1. 0 \in T
  <2>1. Repeat(type, 0, r) = r
    BY OneMore
  <2>2. f[r] * 2^0 = f[r]
    BY <1>0, Powers
  <2>3. f[r] % d = f[r]
    BY <1>0
  <2> QED  BY <2>1, <2>2, <2>3
<1>2. ASSUME NEW k \in Nat, k \in T PROVE k + 1 \in T
  <2> DEFINE p == 2^k
             x == f[r]
  <2>1. /\ Repeat(type, k + 1, r) = ShiftOnce(type, Repeat(type, k, r))
        /\ Repeat(type, k, r) \in V
    BY OneMore
  <2>2. f[Repeat(type, k + 1, r)] = (2 * ((x * p) % d)) % d
    BY <1>2, <2>1
  <2>3. p \in Nat \ {0} /\ 2^(k + 1) = 2 * p
    BY Powers
  <2>4. x \in Int
    BY <1>0
  <2> HIDE DEF p, x
  <2>5. x * p \in Int /\ 2 * (x * p) = x * (2 * p)
    BY <2>3, <2>4
  <2>6. (2 * ((x * p) % d)) % d = (x * (2 * p)) % d
    BY <2>5, DoubledAgain
  <2> QED  BY <2>2, <2>3, <2>6 DEF x
<1>3. Nat \subseteq T
  <2> HIDE DEF T
  <2> QED  BY <1>1, <1>2, SetInduction
<1> QED  BY <1>3

\* The registers of a shift.
SamePair(s, t) == s.A = t.A /\ s.E = t.E

\* When each position of one shift is undone by one of another, n are by n.
LEMMA UndoneByShift ==
  ASSUME NEW V, Machines(V), NEW r \in V, NEW n \in Nat, NEW y \in V,
         NEW there \in Positions, NEW back \in Positions,
         SamePair(y, Repeat(there, n, r)),
         \A j \in 0..n - 1 : \A t \in V :
           SamePair(t, ShiftOnce(there, Repeat(there, j, r)))
             => SamePair(ShiftOnce(back, t), Repeat(there, j, r))
  PROVE  SamePair(Repeat(back, n, y), r)
<1> DEFINE T == {k \in 0..n : SamePair(Repeat(back, k, y), Repeat(there, n - k, r))}
<1>1. 0 \in T
  <2>1. Repeat(back, 0, y) = y
    BY OneMore
  <2>2. n - 0 = n
    OBVIOUS
  <2> QED  BY <2>1, <2>2
<1>2. ASSUME NEW k \in 0..n - 1, k \in T PROVE k + 1 \in T
  <2> DEFINE j == n - (k + 1)
             t == Repeat(back, k, y)
  <2>1. j \in 0..n - 1 /\ j \in Nat /\ j + 1 = n - k /\ k \in Nat /\ k + 1 \in 0..n
    OBVIOUS
  <2> HIDE DEF j
  <2>2. t \in V /\ Repeat(back, k + 1, y) = ShiftOnce(back, t)
    BY <2>1, OneMore
  <2>3. Repeat(there, j + 1, r) = ShiftOnce(there, Repeat(there, j, r))
    BY <2>1, OneMore
  <2>4. SamePair(t, ShiftOnce(there, Repeat(there, j, r)))
    BY <1>2, <2>1, <2>3
  <2> HIDE DEF t
  <2>5. SamePair(ShiftOnce(back, t), Repeat(there, j, r))
    BY <2>1, <2>2, <2>4
  <2> QED  BY <2>1, <2>2, <2>5 DEF j
<1>3. 0..n \subseteq T
  <2> HIDE DEF T
  <2> QED  BY <1>1, <1>2, RangeInduction
<1>4. n \in T /\ n - n = 0
  BY <1>3
<1>5. Repeat(there, 0, r) = r
  BY OneMore
<1> QED  BY <1>4, <1>5

\* A word by its first and its last bit.
LEMMA WordParts ==
  ASSUME NEW v \in Word
  PROVE  /\ LowBit(v) \in {0, 1} /\ TopBit(v) \in {0, 1}
         /\ TopBit(v) = 1 <=> v >= Half
         /\ v \div 2 \in 0..Half - 1
         /\ v = 2 * (v \div 2) + LowBit(v)
         /\ Doubled(v) = 2 * (v - Half * TopBit(v))
         /\ v - Half * TopBit(v) \in 0..Half - 1
<1>1. v \in Nat /\ v < 2 * Half /\ Half \in Nat \ {0}
  BY Sizes DEF Word
<1>2. TopBit(v) = IF v < Half THEN 0 ELSE 1
  BY <1>1 DEF TopBit
<1>3. v - Half * TopBit(v) = IF v < Half THEN v ELSE v - Half
  BY <1>1, <1>2
<1>4. Doubled(v) = 2 * (v - Half * TopBit(v))
  <2> DEFINE q == TopBit(v)
             x == 2 * (v - Half * TopBit(v))
  <2>1. q \in Int /\ x \in Word /\ 2 * v = q * Modulus + x /\ 2 * v \in Int
    BY <1>1, <1>2, <1>3, Sizes DEF Word
  <2> HIDE DEF q, x
  <2>2. (2 * v) % Modulus = x
    BY <2>1, Reduced
  <2> QED  BY <2>2 DEF Doubled, x
<1> QED  BY <1>1, <1>2, <1>3, <1>4 DEF LowBit

\* A word shifted left, with a bit that comes in.
LEMMA DoubledParts ==
  ASSUME NEW v \in Word, NEW b \in Flag
  PROVE  /\ Doubled(v) + b \in Word
         /\ (Doubled(v) + b) \div 2 = v - Half * TopBit(v)
         /\ LowBit(Doubled(v) + b) = b
<1> DEFINE h == v - Half * TopBit(v)
<1>1. Doubled(v) = 2 * h /\ h \in 0..Half - 1 /\ b \in 0..1
  BY WordParts DEF Flag
<1> HIDE DEF h
<1>2. 2 * h + b \in Word /\ (2 * h + b) \div 2 = h /\ (2 * h + b) % 2 = b
  BY <1>1, Sizes DEF Word
<1> QED  BY <1>1, <1>2 DEF h, LowBit

\* A word shifted right, with a bit that comes in.
LEMMA HalvedParts ==
  ASSUME NEW v \in Word, NEW b \in Flag
  PROVE  /\ v \div 2 + Half * b \in Word
         /\ 2 * (v \div 2 + Half * b) = v - LowBit(v) + Modulus * b
         /\ TopBit(v \div 2 + Half * b) = b
<1> DEFINE h == v \div 2
<1>1. h \in 0..Half - 1 /\ v = 2 * h + LowBit(v) /\ b \in {0, 1} /\ LowBit(v) \in {0, 1}
  BY WordParts DEF Flag
<1> HIDE DEF h
<1>2. h + Half * b = IF b = 0 THEN h ELSE h + Half
  BY <1>1, Sizes
<1>3. h + Half * b \in Word
  BY <1>1, <1>2, Sizes DEF Word
<1>4. TopBit(h + Half * b) = 1 <=> h + Half * b >= Half
  BY <1>3, WordParts
<1>5. TopBit(h + Half * b) \in {0, 1}
  BY <1>3, WordParts
<1>6. 2 * (h + Half * b) = v - LowBit(v) + Modulus * b
  BY <1>1, <1>2, Sizes
<1> QED  BY <1>1, <1>2, <1>3, <1>4, <1>5, <1>6, Sizes DEF h

\* The registers after one position.
LEMMA PositionParts ==
  ASSUME NEW V, Machines(V), NEW s \in V
  PROVE  /\ s.A \in Word /\ s.E \in Word
         /\ ShiftOnce("SLLS", s).A = Doubled(s.A)
         /\ ShiftOnce("SRLS", s).A = s.A \div 2
         /\ ShiftOnce("SAS", s).A = s.A \div 2 + Half * TopBit(s.A)
         /\ ShiftOnce("SRCS", s).A = s.A \div 2 + Half * LowBit(s.A)
         /\ ShiftOnce("SRCS", s).E = s.E
         /\ ShiftOnce("SLCS", s).A = Doubled(s.A) + TopBit(s.A)
         /\ ShiftOnce("SLCS", s).E = s.E
         /\ ShiftOnce("SAD", s).A = s.A \div 2 + Half * LowBit(s.E)
         /\ ShiftOnce("SAD", s).E = s.E \div 2 + Half * TopBit(s.E)
         /\ ShiftOnce("SLCD", s).E = Doubled(s.E) + TopBit(s.A)
         /\ ShiftOnce("SLCD", s).A = Doubled(s.A) + TopBit(s.E)
         /\ ShiftOnce("SRCD", s).A = s.A \div 2 + Half * LowBit(s.E)
         /\ ShiftOnce("SRCD", s).E = s.E \div 2 + Half * LowBit(s.A)
         /\ ShiftOnce("SLLD", s).E = Doubled(s.E) + TopBit(s.A)
         /\ ShiftOnce("SLLD", s).A = Doubled(s.A)
         /\ ShiftOnce("SRLD", s).A = s.A \div 2 + Half * LowBit(s.E)
         /\ ShiftOnce("SRLD", s).E = s.E \div 2
         /\ ShiftOnce("PTY", s).A = Doubled(s.A) + TopBit(s.A)
         /\ ShiftOnce("PTY", s).E = (s.E + TopBit(s.A)) % Modulus
<1>1. {"A", "E", "C"} \subseteq DOMAIN s /\ s.A \in Word /\ s.E \in Word
  BY DEF Machines
<1>2. ASSUME NEW a, NEW e, NEW c
      PROVE  /\ [s EXCEPT !.A = a].A = a
             /\ [s EXCEPT !.A = a].E = s.E
             /\ [s EXCEPT !.A = a, !.E = e].A = a
             /\ [s EXCEPT !.A = a, !.E = e].E = e
             /\ [s EXCEPT !.E = e, !.A = a].A = a
             /\ [s EXCEPT !.E = e, !.A = a].E = e
             /\ [[s EXCEPT !.A = a] EXCEPT !.E = e, !.C = c].A = a
             /\ [[s EXCEPT !.A = a] EXCEPT !.E = e, !.C = c].E = e
  BY <1>1
<1>3. /\ ShiftOnce("SLLS", s).A = Doubled(s.A)
      /\ ShiftOnce("SRLS", s).A = s.A \div 2
      /\ ShiftOnce("SAS", s).A = s.A \div 2 + Half * TopBit(s.A)
  BY <1>2 DEF ShiftOnce, shift_lls, shift_rls, shift_sas
<1>4. /\ ShiftOnce("SRCS", s).A = s.A \div 2 + Half * LowBit(s.A)
      /\ ShiftOnce("SRCS", s).E = s.E
      /\ ShiftOnce("SLCS", s).A = Doubled(s.A) + TopBit(s.A)
      /\ ShiftOnce("SLCS", s).E = s.E
  BY <1>2 DEF ShiftOnce, shift_srcs, shift_slcs
<1>5. /\ ShiftOnce("SAD", s).A = s.A \div 2 + Half * LowBit(s.E)
      /\ ShiftOnce("SAD", s).E = s.E \div 2 + Half * TopBit(s.E)
  <2> DEFINE a == s.A \div 2 + Half * LowBit(s.E)
             e == s.E \div 2 + Half * TopBit(s.E)
  <2>1. ShiftOnce("SAD", s) = [s EXCEPT !.A = a, !.E = e]
    BY DEF ShiftOnce, shift_sad
  <2> HIDE DEF a, e
  <2>2. ShiftOnce("SAD", s).A = a /\ ShiftOnce("SAD", s).E = e
    BY <1>1, <2>1
  <2> QED  BY <2>2 DEF a, e
<1>6. /\ ShiftOnce("SLCD", s).A = Doubled(s.A) + TopBit(s.E)
      /\ ShiftOnce("SLCD", s).E = Doubled(s.E) + TopBit(s.A)
  <2> DEFINE a == Doubled(s.A) + TopBit(s.E)
             e == Doubled(s.E) + TopBit(s.A)
  <2>1. ShiftOnce("SLCD", s) = [s EXCEPT !.E = e, !.A = a]
    BY DEF ShiftOnce, shift_lcd
  <2> HIDE DEF a, e
  <2>2. ShiftOnce("SLCD", s).A = a /\ ShiftOnce("SLCD", s).E = e
    BY <1>1, <2>1
  <2> QED  BY <2>2 DEF a, e
<1>7. /\ ShiftOnce("SRCD", s).A = s.A \div 2 + Half * LowBit(s.E)
      /\ ShiftOnce("SRCD", s).E = s.E \div 2 + Half * LowBit(s.A)
  <2> DEFINE a == s.A \div 2 + Half * LowBit(s.E)
             e == s.E \div 2 + Half * LowBit(s.A)
  <2>1. ShiftOnce("SRCD", s) = [s EXCEPT !.A = a, !.E = e]
    BY DEF ShiftOnce, shift_rcd
  <2> HIDE DEF a, e
  <2>2. ShiftOnce("SRCD", s).A = a /\ ShiftOnce("SRCD", s).E = e
    BY <1>1, <2>1
  <2> QED  BY <2>2 DEF a, e
<1>8. /\ ShiftOnce("SLLD", s).A = Doubled(s.A)
      /\ ShiftOnce("SLLD", s).E = Doubled(s.E) + TopBit(s.A)
  <2> DEFINE a == Doubled(s.A)
             e == Doubled(s.E) + TopBit(s.A)
  <2>1. ShiftOnce("SLLD", s) = [s EXCEPT !.E = e, !.A = a]
    BY DEF ShiftOnce, shift_lld
  <2> HIDE DEF a, e
  <2>2. ShiftOnce("SLLD", s).A = a /\ ShiftOnce("SLLD", s).E = e
    BY <1>1, <2>1
  <2> QED  BY <2>2 DEF a, e
<1>9. /\ ShiftOnce("SRLD", s).A = s.A \div 2 + Half * LowBit(s.E)
      /\ ShiftOnce("SRLD", s).E = s.E \div 2
  <2> DEFINE a == s.A \div 2 + Half * LowBit(s.E)
             e == s.E \div 2
  <2>1. ShiftOnce("SRLD", s) = [s EXCEPT !.A = a, !.E = e]
    BY DEF ShiftOnce, shift_rld
  <2> HIDE DEF a, e
  <2>2. ShiftOnce("SRLD", s).A = a /\ ShiftOnce("SRLD", s).E = e
    BY <1>1, <2>1
  <2> QED  BY <2>2 DEF a, e
<1>10. /\ ShiftOnce("PTY", s).A = Doubled(s.A) + TopBit(s.A)
       /\ ShiftOnce("PTY", s).E = (s.E + TopBit(s.A)) % Modulus
  <2> DEFINE a == Doubled(s.A) + TopBit(s.A)
             e == (s.E + TopBit(s.A)) % Modulus
             c == TopBit(s.A)
  <2>1. ShiftOnce("PTY", s) = [[s EXCEPT !.A = a] EXCEPT !.E = e, !.C = c]
    BY DEF ShiftOnce, ParityStep, shift_slcs
  <2> HIDE DEF a, e, c
  <2>2. ShiftOnce("PTY", s).A = a /\ ShiftOnce("PTY", s).E = e
    BY <1>1, <2>1
  <2> QED  BY <2>2 DEF a, e
<1> QED  BY <1>1, <1>3, <1>4, <1>5, <1>6, <1>7, <1>8, <1>9, <1>10

\* The number that one position of an arithmetic shift halves.
SignedDouble(s) == Signed(s.E) * Modulus + s.A

\* Remainders of numbers that differ by the modulus of a sign.
LEMMA SignedHalf ==
  ASSUME NEW v \in Word
  PROVE  LET w == v \div 2 + Half * TopBit(v)
         IN  w \in Word /\ 2 * Signed(w) + LowBit(v) = Signed(v) /\ Signed(w) \in Int
<1> DEFINE h == v \div 2
           t == TopBit(v)
           w == v \div 2 + Half * TopBit(v)
<1>1. /\ h \in 0..Half - 1 /\ t \in {0, 1} /\ LowBit(v) \in {0, 1}
      /\ v = 2 * h + LowBit(v) /\ (t = 1 <=> v >= Half)
  BY WordParts
<1>2. w \in Word /\ TopBit(w) = t
  BY <1>1, HalvedParts DEF Flag
<1>3. w >= Half <=> t = 1
  BY <1>2, WordParts
<1>4. w = h + Half * t
  OBVIOUS
<1> HIDE DEF h, t, w
<1>5. w = IF t = 0 THEN h ELSE h + Half
  BY <1>1, <1>4, Sizes
<1>6. 2 * Signed(w) + LowBit(v) = Signed(v) /\ Signed(w) \in Int
  BY <1>1, <1>3, <1>5, Sizes DEF Signed
<1> QED  BY <1>2, <1>6 DEF w

LEMMA HalfWithBit ==
  ASSUME NEW x \in Int, NEW y \in Int, NEW b \in {0, 1}, 2 * y + b = x
  PROVE  y = x \div 2
OBVIOUS

\* Each position of SAD, SAS, SRLS and SRLD halves a number.
LEMMA RightPositions ==
  ASSUME NEW V, Machines(V), NEW s \in V
  PROVE  /\ SignedDouble(s) \in Int /\ Signed(s.A) \in Int /\ Double(s) \in Int
         /\ SignedDouble(ShiftOnce("SAD", s)) = SignedDouble(s) \div 2
         /\ Signed(ShiftOnce("SAS", s).A) = Signed(s.A) \div 2
         /\ ShiftOnce("SRLS", s).A = s.A \div 2
         /\ Double(ShiftOnce("SRLD", s)) = Double(s) \div 2
<1> DEFINE M == Modulus
           a == s.A
           e == s.E
           b == LowBit(e)
           a0 == LowBit(a)
           a2 == a \div 2 + Half * b
           e1 == e \div 2 + Half * TopBit(e)
           e2 == e \div 2
<1>1. a \in Word /\ e \in Word /\ b \in {0, 1} /\ a0 \in {0, 1} /\ M \in Nat \ {0}
  BY PositionParts, WordParts, Sizes
<1>2. Signed(a) \in Int /\ Signed(e) \in Int /\ a \in Int /\ e \in Int
  BY <1>1, SignedTypes, Sizes DEF Word
<1>3. a2 \in Int /\ 2 * a2 = a - a0 + M * b
  <2>1. a2 \in Word /\ 2 * a2 = a - a0 + M * b
    BY <1>1, HalvedParts DEF Flag
  <2> QED  BY <2>1, Sizes DEF Word
<1>4. Signed(e1) \in Int /\ 2 * Signed(e1) + b = Signed(e)
  BY <1>1, SignedHalf
<1>5. e2 \in Int /\ 2 * e2 + b = e
  BY <1>1, WordParts, Sizes
<1>6. Signed(ShiftOnce("SAS", s).A) = Signed(a) \div 2
  <2> DEFINE w == a \div 2 + Half * TopBit(a)
  <2>1. ShiftOnce("SAS", s).A = w
    BY PositionParts
  <2>2. 2 * Signed(w) + a0 = Signed(a) /\ Signed(w) \in Int
    BY <1>1, SignedHalf
  <2> HIDE DEF w, a, a0
  <2> QED  BY <1>1, <1>2, <2>1, <2>2, HalfWithBit
<1>7. SignedDouble(ShiftOnce("SAD", s)) = Signed(e1) * M + a2
  BY PositionParts DEF SignedDouble
<1>8. Double(ShiftOnce("SRLD", s)) = e2 * M + a2
  BY PositionParts DEF Double
<1>9. SignedDouble(s) = Signed(e) * M + a /\ Double(s) = e * M + a
  BY DEF SignedDouble, Double
<1>10. ASSUME NEW x \in Int, NEW y \in Int, 2 * y + b = x
       PROVE  x * M + a \in Int /\ (y * M + a2) = (x * M + a) \div 2
  <2> HIDE DEF M, a, e, b, a0, a2
  <2>1. /\ x * M = 2 * (y * M) + b * M
        /\ x * M \in Int /\ y * M \in Int /\ b * M \in Int /\ b * M = M * b
    <3>1. (2 * y + b) * M = 2 * (y * M) + b * M
      BY <1>1
    <3> QED  BY <1>1, <1>10, <3>1
  <2>2. 2 * (y * M + a2) + a0 = x * M + a
    BY <1>1, <1>2, <1>3, <2>1
  <2> DEFINE p == x * M + a
             q == y * M + a2
  <2>3. p \in Int /\ q \in Int
    BY <1>2, <1>3, <2>1
  <2> HIDE DEF p, q
  <2>4. q = p \div 2
    BY <1>1, <2>2, <2>3, HalfWithBit DEF p, q
  <2> QED  BY <2>3, <2>4 DEF p, q
<1> DEFINE x1 == Signed(e)
           y1 == Signed(e1)
<1>11. x1 \in Int /\ y1 \in Int /\ 2 * y1 + b = x1
  BY <1>2, <1>4
<1> HIDE DEF M, a, e, b, a0, a2, e1, e2, x1, y1
<1>12. x1 * M + a \in Int /\ y1 * M + a2 = (x1 * M + a) \div 2
  BY <1>10, <1>11
<1>13. e * M + a \in Int /\ e2 * M + a2 = (e * M + a) \div 2
  BY <1>2, <1>5, <1>10
<1>14. ShiftOnce("SRLS", s).A = s.A \div 2
  BY PositionParts
<1> QED  BY <1>2, <1>6, <1>7, <1>8, <1>9, <1>12, <1>13, <1>14 DEF a, x1, y1

\* Each position of SLLS and SLLD doubles one, cut to a word or a double word.
LEMMA LeftPositions ==
  ASSUME NEW V, Machines(V), NEW s \in V
  PROVE  /\ s.A \in 0..Modulus - 1
         /\ Double(s) \in 0..Modulus * Modulus - 1
         /\ ShiftOnce("SLLS", s).A = (2 * s.A) % Modulus
         /\ Double(ShiftOnce("SLLD", s)) = (2 * Double(s)) % (Modulus * Modulus)
<1> DEFINE M == Modulus
           a == s.A
           e == s.E
           ta == TopBit(a)
           te == TopBit(e)
           a2 == Doubled(a)
           e2 == Doubled(e) + ta
<1>1. /\ a \in Word /\ e \in Word /\ ta \in Flag /\ te \in {0, 1}
      /\ M \in Nat \ {0}
  BY PositionParts, WordParts, Sizes DEF Flag
<1>2. Word = 0..M - 1
  BY DEF Word
<1>3. a2 = 2 * a - M * ta /\ e2 = 2 * e - M * te + ta
  <2>1. ASSUME NEW v \in Word PROVE Doubled(v) = 2 * v - M * TopBit(v)
    <3>1. Doubled(v) = 2 * (v - Half * TopBit(v)) /\ TopBit(v) \in {0, 1}
      BY WordParts
    <3> QED  BY <3>1, Sizes DEF Word
  <2> QED  BY <1>1, <2>1
<1>4. a2 \in Word /\ e2 \in Word
  <2>1. 0 \in Flag /\ a2 + 0 = a2
    BY <1>1, <1>3, Sizes DEF Flag, Word
  <2> QED  BY <1>1, <2>1, DoubledParts
<1>5. Double(ShiftOnce("SLLD", s)) = e2 * M + a2
  BY PositionParts DEF Double
<1>6. Double(s) = e * M + a
  BY DEF Double
<1>7. ShiftOnce("SLLS", s).A = (2 * a) % M
  BY PositionParts DEF Doubled
<1> HIDE DEF M, a, e, ta, te, a2, e2
<1>8. ASSUME NEW x \in Word, NEW y \in Word
      PROVE  x * M + y \in 0..M * M - 1
  <2>1. x * M \in Nat /\ (x + 1) * M = x * M + M
    BY <1>1, <1>2
  <2>2. (x + 1) * M <= M * M /\ M * M \in Nat
    BY <1>1, <1>2
  <2> QED  BY <1>1, <1>2, <2>1, <2>2
<1>9. 2 * (e * M + a) = te * (M * M) + (e2 * M + a2)
  <2>1. e2 * M = 2 * (e * M) - te * (M * M) + ta * M
    <3>1. /\ (2 * e - M * te + ta) * M = (2 * e) * M - (M * te) * M + ta * M
          /\ (2 * e) * M = 2 * (e * M)
          /\ (M * te) * M = te * (M * M)
      BY <1>1, <1>2 DEF Flag
    <3> QED  BY <1>3, <3>1
  <2>2. /\ e * M \in Int /\ te * (M * M) \in Int /\ ta * M \in Int /\ e2 * M \in Int
        /\ M * ta = ta * M /\ a2 \in Int /\ a \in Int
    BY <1>1, <1>2, <1>4 DEF Flag
  <2> QED  BY <1>3, <2>1, <2>2
<1> DEFINE D == M * M
           r == e2 * M + a2
<1>10. D \in Nat \ {0} /\ r \in 0..D - 1 /\ te \in Int
  BY <1>1, <1>4, <1>8, Products
<1> HIDE DEF D, r
<1>11. (te * D + r) % D = r
  BY <1>10, Divided
<1>12. (2 * (e * M + a)) % (M * M) = e2 * M + a2
  BY <1>9, <1>11 DEF D, r
<1> QED  BY <1>1, <1>2, <1>5, <1>6, <1>7, <1>8, <1>12 DEF M, a

\* Each position of a circular shift is undone by one of the opposite shift.
LEMMA CircularPositions ==
  ASSUME NEW V, Machines(V), NEW s \in V, NEW t \in V
  PROVE  /\ SamePair(t, ShiftOnce("SLCS", s)) => SamePair(ShiftOnce("SRCS", t), s)
         /\ SamePair(t, ShiftOnce("SLCD", s)) => SamePair(ShiftOnce("SRCD", t), s)
<1> DEFINE ta == TopBit(s.A)
           te == TopBit(s.E)
<1>1. s.A \in Word /\ s.E \in Word /\ ta \in Flag /\ te \in Flag
  BY PositionParts, WordParts DEF Flag
<1>2. ASSUME NEW v \in Word, NEW b \in Flag
      PROVE  (Doubled(v) + b) \div 2 + Half * TopBit(v) = v
  <2>1. (Doubled(v) + b) \div 2 = v - Half * TopBit(v)
    BY DoubledParts
  <2>2. v \in Int /\ Half * TopBit(v) \in Int
    <3>1. TopBit(v) \in Int
      BY WordParts
    <3> QED  BY <3>1, Sizes DEF Word
  <2> QED  BY <2>1, <2>2
<1>3. ASSUME SamePair(t, ShiftOnce("SLCS", s)) PROVE SamePair(ShiftOnce("SRCS", t), s)
  <2>1. t.A = Doubled(s.A) + ta /\ t.E = s.E
    BY <1>3, PositionParts DEF SamePair
  <2>2. LowBit(t.A) = ta
    BY <1>1, <2>1, DoubledParts
  <2>3. ShiftOnce("SRCS", t).A = t.A \div 2 + Half * LowBit(t.A)
        /\ ShiftOnce("SRCS", t).E = t.E
    BY PositionParts
  <2> QED  BY <1>1, <1>2, <2>1, <2>2, <2>3 DEF SamePair
<1>4. ASSUME SamePair(t, ShiftOnce("SLCD", s)) PROVE SamePair(ShiftOnce("SRCD", t), s)
  <2>1. t.A = Doubled(s.A) + te /\ t.E = Doubled(s.E) + ta
    BY <1>4, PositionParts DEF SamePair
  <2>2. LowBit(t.A) = te /\ LowBit(t.E) = ta
    BY <1>1, <2>1, DoubledParts
  <2>3. ShiftOnce("SRCD", t).A = t.A \div 2 + Half * LowBit(t.E)
        /\ ShiftOnce("SRCD", t).E = t.E \div 2 + Half * LowBit(t.A)
    BY PositionParts
  <2> QED  BY <1>1, <1>2, <2>1, <2>2, <2>3 DEF SamePair
<1> QED  BY <1>3, <1>4

\* The indicators leave the registers alone.
LEMMA CodesKeep ==
  ASSUME NEW V, Machines(V), NEW s \in V, NEW v
  PROVE  /\ set_condition_codes_load(s, v).A = s.A
         /\ set_condition_codes_load(s, v).E = s.E
         /\ set_condition_codes_load(s, v).X = s.X
<1>1. {"A", "E", "X", "C", "OV"} \subseteq DOMAIN s
  BY DEF Machines
<1> QED  BY <1>1 DEF set_condition_codes_load

\* A number with a sign and the word, or the double word, that holds it.
LEMMA SignedRemainder ==
  ASSUME NEW V, Machines(V), NEW s \in V
  PROVE  /\ Signed(s.A) % Modulus = s.A
         /\ SignedDouble(s) % (Modulus * Modulus) = Double(s)
<1> DEFINE M == Modulus
           D == M * M
           q == IF s.E >= Half THEN -1 ELSE 0
<1>1. s.A \in Word /\ s.E \in Word /\ M \in Nat \ {0} /\ D \in Nat \ {0} /\ q \in Int
  BY PositionParts, Sizes, Products
<1>2. Signed(s.A) % M = s.A
  <2> DEFINE p == IF s.A >= Half THEN -1 ELSE 0
  <2>1. Signed(s.A) = p * M + s.A /\ p \in Int /\ Signed(s.A) \in Int
    BY <1>1, Sizes DEF Signed, Word
  <2> HIDE DEF p
  <2> QED  BY <1>1, <2>1, Reduced
<1>3. SignedDouble(s) = q * D + Double(s)
  <2>1. Signed(s.E) = q * M + s.E
    BY <1>1, Sizes DEF Signed, Word
  <2>2. s.E \in Int /\ s.A \in Int
    BY <1>1, Sizes DEF Word
  <2> DEFINE e == s.E
  <2> HIDE DEF M, q, e
  <2>3. (q * M + e) * M = q * (M * M) + e * M /\ e * M \in Int /\ q * (M * M) \in Int
    BY <1>1, <2>2 DEF e
  <2>4. SignedDouble(s) = (q * M + e) * M + s.A /\ Double(s) = e * M + s.A
    BY <2>1 DEF SignedDouble, Double, M, e
  <2> QED  BY <2>2, <2>3, <2>4
<1>4. Double(s) \in 0..D - 1
  BY LeftPositions
<1> HIDE DEF D, q
<1>5. (q * D + Double(s)) % D = Double(s)
  BY <1>1, <1>4, Divided
<1> QED  BY <1>2, <1>3, <1>5 DEF D

\* n positions of each shift.
LEMMA ShiftedNumbers ==
  ASSUME NEW V, Machines(V), NEW r \in V, NEW n \in Nat
  PROVE  /\ SignedDouble(Repeat("SAD", n, r)) = SignedDouble(r) \div 2^n
         /\ Signed(Repeat("SAS", n, r).A) = Signed(r.A) \div 2^n
         /\ Repeat("SLLS", n, r).A = (r.A * 2^n) % Modulus
         /\ Repeat("SRLS", n, r).A = r.A \div 2^n
         /\ Double(Repeat("SLLD", n, r)) = (Double(r) * 2^n) % (Modulus * Modulus)
         /\ Double(Repeat("SRLD", n, r)) = Double(r) \div 2^n
<1> DEFINE Accumulator == [s \in V |-> s.A]
           Sign == [s \in V |-> Signed(s.A)]
           Both == [s \in V |-> Double(s)]
           Number == [s \in V |-> SignedDouble(s)]
<1>1. \A type \in Positions : \A s \in V : ShiftOnce(type, s) \in V
  BY ShiftOnceType
<1>2. \A type \in Positions : Repeat(type, n, r) \in V
  BY OneMore
<1>3. Modulus \in Nat \ {0} /\ Modulus * Modulus \in Nat \ {0}
  BY Sizes, Products
<1>4. SignedDouble(Repeat("SAD", n, r)) = SignedDouble(r) \div 2^n
  <2>1. /\ \A s \in V : Number[s] \in Int
        /\ \A s \in V : Number[ShiftOnce("SAD", s)] = Number[s] \div 2
    BY <1>1, RightPositions DEF Positions
  <2>2. Number[Repeat("SAD", n, r)] = Number[r] \div 2^n
    <3> HIDE DEF Number
    <3> QED  BY <2>1, HalvedByShift DEF Positions
  <2> QED  BY <1>2, <2>2 DEF Positions
<1>5. Signed(Repeat("SAS", n, r).A) = Signed(r.A) \div 2^n
  <2>1. /\ \A s \in V : Sign[s] \in Int
        /\ \A s \in V : Sign[ShiftOnce("SAS", s)] = Sign[s] \div 2
    BY <1>1, RightPositions DEF Positions
  <2>2. Sign[Repeat("SAS", n, r)] = Sign[r] \div 2^n
    <3> HIDE DEF Sign
    <3> QED  BY <2>1, HalvedByShift DEF Positions
  <2> QED  BY <1>2, <2>2 DEF Positions
<1>6. Repeat("SLLS", n, r).A = (r.A * 2^n) % Modulus
  <2>1. /\ \A s \in V : Accumulator[s] \in 0..Modulus - 1
        /\ \A s \in V : Accumulator[ShiftOnce("SLLS", s)] = (2 * Accumulator[s]) % Modulus
    BY <1>1, LeftPositions DEF Positions
  <2>2. Accumulator[Repeat("SLLS", n, r)] = (Accumulator[r] * 2^n) % Modulus
    <3> HIDE DEF Accumulator
    <3> QED  BY <1>3, <2>1, DoubledByShift DEF Positions
  <2> QED  BY <1>2, <2>2 DEF Positions
<1>7. Repeat("SRLS", n, r).A = r.A \div 2^n
  <2>1. \A s \in V : s.A \in Int
    BY LeftPositions, Sizes
  <2>2. /\ \A s \in V : Accumulator[s] \in Int
        /\ \A s \in V : Accumulator[ShiftOnce("SRLS", s)] = Accumulator[s] \div 2
    BY <1>1, <2>1, RightPositions DEF Positions
  <2>3. Accumulator[Repeat("SRLS", n, r)] = Accumulator[r] \div 2^n
    <3> HIDE DEF Accumulator
    <3> QED  BY <2>2, HalvedByShift DEF Positions
  <2> QED  BY <1>2, <2>3 DEF Positions
<1>8. Double(Repeat("SLLD", n, r)) = (Double(r) * 2^n) % (Modulus * Modulus)
  <2> DEFINE size == Modulus * Modulus
  <2>1. \A s \in V : Both[s] \in 0..size - 1
    BY LeftPositions
  <2>2. \A s \in V : Both[ShiftOnce("SLLD", s)] = (2 * Both[s]) % size
    BY <1>1, LeftPositions DEF Positions
  <2>3. size \in Nat \ {0} /\ "SLLD" \in Positions
    BY <1>3 DEF Positions
  <2>4. Both[Repeat("SLLD", n, r)] = (Both[r] * 2^n) % size
    <3> HIDE DEF Both, size
    <3> QED  BY <2>1, <2>2, <2>3, DoubledByShift
  <2> QED  BY <1>2, <2>4 DEF Positions
<1>9. Double(Repeat("SRLD", n, r)) = Double(r) \div 2^n
  <2>1. /\ \A s \in V : Both[s] \in Int
        /\ \A s \in V : Both[ShiftOnce("SRLD", s)] = Both[s] \div 2
    BY <1>1, RightPositions DEF Positions
  <2>2. Both[Repeat("SRLD", n, r)] = Both[r] \div 2^n
    <3> HIDE DEF Both
    <3> QED  BY <2>1, HalvedByShift DEF Positions
  <2> QED  BY <1>2, <2>2 DEF Positions
<1> QED  BY <1>4, <1>5, <1>6, <1>7, <1>8, <1>9

\* n positions of a circular shift, and n of the opposite one.
LEMMA CircularUndone ==
  ASSUME NEW V, Machines(V), NEW r \in V, NEW y \in V, NEW n \in Nat
  PROVE  /\ SamePair(y, Repeat("SLCS", n, r)) => SamePair(Repeat("SRCS", n, y), r)
         /\ SamePair(y, Repeat("SLCD", n, r)) => SamePair(Repeat("SRCD", n, y), r)
<1>1. \A j \in 0..n - 1 : Repeat("SLCS", j, r) \in V /\ Repeat("SLCD", j, r) \in V
  <2>1. \A j \in 0..n - 1 : j \in Nat
    OBVIOUS
  <2> QED  BY <2>1, OneMore DEF Positions
<1>2. ASSUME SamePair(y, Repeat("SLCS", n, r)) PROVE SamePair(Repeat("SRCS", n, y), r)
  <2>1. \A j \in 0..n - 1 : \A t \in V :
          SamePair(t, ShiftOnce("SLCS", Repeat("SLCS", j, r)))
            => SamePair(ShiftOnce("SRCS", t), Repeat("SLCS", j, r))
    BY <1>1, CircularPositions
  <2> QED  BY <1>2, <2>1, UndoneByShift DEF Positions
<1>3. ASSUME SamePair(y, Repeat("SLCD", n, r)) PROVE SamePair(Repeat("SRCD", n, y), r)
  <2>1. \A j \in 0..n - 1 : \A t \in V :
          SamePair(t, ShiftOnce("SLCD", Repeat("SLCD", j, r)))
            => SamePair(ShiftOnce("SRCD", t), Repeat("SLCD", j, r))
    BY <1>1, CircularPositions
  <2> QED  BY <1>3, <2>1, UndoneByShift DEF Positions
<1> QED  BY <1>2, <1>3

\* While the two first bits of E agree, SAD undoes a position of SLLD.
LEMMA NormalPositions ==
  ASSUME NEW V, Machines(V), NEW s \in V, NEW t \in V, ~Normal(s),
         SamePair(t, ShiftOnce("SLLD", s))
  PROVE  SamePair(ShiftOnce("SAD", t), s)
<1> DEFINE e == s.E
           ta == TopBit(s.A)
           te == TopBit(e)
           Q == Half \div 2
           f == Doubled(e) + ta
<1>1. s.A \in Word /\ e \in Word /\ ta \in Flag /\ te \in {0, 1}
  BY PositionParts, WordParts DEF Flag
<1>2. t.E = f /\ t.A = Doubled(s.A)
  BY PositionParts DEF SamePair
<1>3. /\ ShiftOnce("SAD", t).A = t.A \div 2 + Half * LowBit(t.E)
      /\ ShiftOnce("SAD", t).E = t.E \div 2 + Half * TopBit(t.E)
  BY PositionParts
<1>4. f \in Word /\ f \div 2 = e - Half * te /\ LowBit(f) = ta
  BY <1>1, DoubledParts
<1>5. (Doubled(s.A) + 0) \div 2 = s.A - Half * ta /\ Doubled(s.A) + 0 = Doubled(s.A)
  <2>1. 0 \in Flag /\ Doubled(s.A) \in Int
    <3>1. Doubled(s.A) = 2 * (s.A - Half * ta) /\ s.A - Half * ta \in 0..Half - 1
      BY <1>1, WordParts
    <3> HIDE DEF ta
    <3> QED  BY <3>1, Sizes DEF Flag
  <2> QED  BY <1>1, <2>1, DoubledParts
<1>6. Half = 2 * Q /\ Q \in Nat \ {0}
  <2>1. Width - 2 \in Nat /\ Width - 1 = (Width - 2) + 1
    BY WidthAssumption
  <2> DEFINE w == Width - 2
  <2>2. Half = 2^(w + 1)
    BY <2>1, WidthAssumption
  <2>3. w \in Nat
    BY <2>1
  <2> HIDE DEF w
  <2>4. Half = 2 * 2^w /\ 2^w \in Nat \ {0}
    BY <2>2, <2>3, Powers
  <2> QED  BY <2>4
<1>7. te = (e \div Q) % 2
  BY DEF Normal
<1>8. TopBit(f) = te
  <2> DEFINE h == e - Half * te
  <2>1. /\ h \in 0..Half - 1 /\ Doubled(e) = 2 * h /\ e \in Nat
        /\ (te = 1 <=> e >= Half) /\ ta \in {0, 1}
    BY <1>1, WordParts DEF Word, Flag
  <2>2. e = h + 2 * Q * te /\ h < 2 * Q /\ e < 4 * Q
    BY <1>1, <1>6, <2>1, Sizes DEF Word
  <2> HIDE DEF h, Q, te, e, ta
  <2>3. h >= Q <=> te = 1
    <3>1. CASE te = 0
      <4>1. e = h /\ h \in Nat /\ h < 2 * Q
        BY <1>6, <2>1, <2>2, <3>1
      <4>2. ~(h >= Q)
        <5> SUFFICES ASSUME h >= Q PROVE FALSE
          OBVIOUS
        <5> DEFINE one == 1
                   r == h - Q
        <5>1. e = one * Q + r /\ r \in 0..Q - 1 /\ one \in Int /\ Q \in Nat \ {0}
          BY <1>6, <4>1
        <5> HIDE DEF one, r
        <5>2. (one * Q + r) \div Q = one
          BY <5>1, Divided
        <5>3. e \div Q = 1
          BY <5>1, <5>2 DEF one
        <5> QED  BY <1>7, <3>1, <5>3
      <4> QED  BY <3>1, <4>2
    <3>2. CASE te = 1
      <4>1. e = h + 2 * Q /\ h \in Nat
        BY <1>6, <2>1, <2>2, <3>2
      <4>2. h >= Q
        <5> SUFFICES ASSUME h < Q PROVE FALSE
          BY <1>6, <4>1
        <5>1. e = 2 * Q + h /\ h \in 0..Q - 1
          BY <1>6, <4>1
        <5>2. e \div Q = 2
          BY <1>6, <5>1, Divided
        <5> QED  BY <1>7, <3>2, <5>2
      <4> QED  BY <3>2, <4>2
    <3> QED  BY <1>1, <3>1, <3>2
  <2>4. f >= Half <=> h >= Q
    BY <1>6, <2>1
  <2>5. TopBit(f) \in {0, 1} /\ (TopBit(f) = 1 <=> f >= Half)
    <3> HIDE DEF f
    <3> QED  BY <1>4, WordParts
  <2> QED  BY <1>1, <2>3, <2>4, <2>5
<1>9. /\ e - Half * te + Half * te = e
      /\ s.A - Half * ta + Half * ta = s.A
  <2>1. e \in Int /\ s.A \in Int /\ te \in Int /\ ta \in Int /\ Half \in Int
    BY <1>1, Sizes DEF Word, Flag
  <2>2. Half * te \in Int /\ Half * ta \in Int
    BY <2>1
  <2> HIDE DEF e, te, ta
  <2> QED  BY <2>1, <2>2
<1> HIDE DEF f, te, ta, e
<1> QED  BY <1>2, <1>3, <1>4, <1>5, <1>8, <1>9 DEF SamePair, e

----------------------------------------------------------------------------
(* Parity. *)

\* A word after k positions of a circular shift to the left.
Rotated(v, k) == (v % 2^(Width - k)) * 2^k + v \div 2^(Width - k)

LEMMA RotatedOnce ==
  ASSUME NEW v \in Word, NEW k \in 0..Width - 1
  PROVE  /\ Rotated(v, k) \in Word
         /\ TopBit(Rotated(v, k)) = (v \div 2^(Width - 1 - k)) % 2
         /\ Doubled(Rotated(v, k)) + TopBit(Rotated(v, k)) = Rotated(v, k + 1)
<1> DEFINE P == 2^k
           m == Width - 1 - k
           R == 2^m
           S == 2^(m + 1)
           hi == v \div S
           lo == v % S
           t == lo \div R
           l == lo % R
           a == Rotated(v, k)
<1>1. /\ Width \in Nat /\ k \in Nat /\ m \in Nat /\ m + 1 = Width - k
      /\ k + m = Width - 1 /\ Width - (k + 1) = m
  BY WidthAssumption
<1>2. a = lo * P + hi
  BY <1>1 DEF Rotated
<1> HIDE DEF m
<1>3. P \in Nat \ {0} /\ R \in Nat \ {0} /\ S = 2 * R /\ 2^(k + 1) = 2 * P
  BY <1>1, Powers
<1>4. P * R = Half
  <2>1. 2^(k + m) = P * R
    BY <1>1, PowerOfSum
  <2> QED  BY <1>1, <2>1, WidthAssumption
<1> HIDE DEF P, R, S
<1>5. hi \in Nat /\ lo \in 0..2 * R - 1 /\ v = hi * (2 * R) + lo
  <2> DEFINE d == 2 * R
  <2>1. v \in Nat /\ d \in Nat \ {0} /\ S = d
    BY <1>3, Sizes DEF Word
  <2> HIDE DEF d
  <2>2. hi \in Nat /\ lo \in 0..d - 1 /\ v = hi * d + lo
    BY <2>1
  <2> QED  BY <2>2 DEF d
<1> HIDE DEF hi, lo
<1>6. hi \in 0..P - 1
  <2> SUFFICES ASSUME hi >= P PROVE FALSE
    BY <1>3, <1>5
  <2>1. hi * (2 * R) >= P * (2 * R)
    BY <1>3, <1>5
  <2>2. P * (2 * R) = 2 * (P * R)
    BY <1>3
  <2>3. hi * (2 * R) \in Int
    BY <1>3, <1>5
  <2> QED  BY <1>4, <1>5, <2>1, <2>2, <2>3, Sizes DEF Word
<1>7. t \in {0, 1} /\ l \in 0..R - 1 /\ lo = t * R + l
  <2>1. t \in Int /\ l \in 0..R - 1 /\ lo = t * R + l
    BY <1>3, <1>5
  <2> HIDE DEF t, l
  <2>2. t >= 0
    <3> SUFFICES ASSUME t <= -1 PROVE FALSE
      BY <2>1
    <3>1. t * R <= (-1) * R
      BY <1>3, <2>1
    <3>2. t * R \in Int /\ (-1) * R = -R
      BY <1>3, <2>1
    <3> QED  BY <1>3, <1>5, <2>1, <3>1, <3>2
  <2>3. t < 2
    <3> SUFFICES ASSUME t >= 2 PROVE FALSE
      BY <2>1
    <3>1. t * R >= 2 * R
      BY <1>3, <2>1
    <3>2. t * R \in Int
      BY <1>3, <2>1
    <3> QED  BY <1>3, <1>5, <2>1, <3>1, <3>2
  <2> QED  BY <2>1, <2>2, <2>3
<1> HIDE DEF t, l
<1> DEFINE w == l * P + hi
<1>8. w \in 0..Half - 1
  <2>1. l * P \in Nat /\ (l + 1) * P = l * P + P
    BY <1>3, <1>7
  <2>2. (l + 1) * P <= R * P /\ R * P = P * R
    BY <1>3, <1>7
  <2> QED  BY <1>3, <1>4, <1>6, <2>1, <2>2
<1>9. a = Half * t + w
  <2>1. lo * P = t * (P * R) + l * P
    <3>1. (t * R + l) * P = t * (P * R) + l * P
      BY <1>3, <1>7
    <3> QED  BY <1>7, <3>1
  <2>2. t * Half = Half * t /\ l * P \in Int /\ Half * t \in Int
    BY <1>3, <1>7, Sizes
  <2> QED  BY <1>2, <1>4, <1>6, <2>1, <2>2
<1>10. a \in Word
  BY <1>7, <1>8, <1>9, Sizes DEF Word
<1> HIDE DEF a, w
<1>11. TopBit(a) = t
  <2>1. TopBit(a) \in {0, 1} /\ (TopBit(a) = 1 <=> a >= Half)
    BY <1>10, WordParts
  <2> QED  BY <1>7, <1>8, <1>9, <2>1, Sizes
<1>12. Doubled(a) = 2 * w
  <2>1. Doubled(a) = 2 * (a - Half * t)
    BY <1>10, <1>11, WordParts
  <2>2. Half * t \in Int
    BY <1>7, Sizes
  <2> QED  BY <1>8, <1>9, <2>1, <2>2
<1>13. v \div R = 2 * hi + t /\ v % R = l
  <2> DEFINE q == 2 * hi + t
  <2>1. v = q * R + l
    <3>1. (2 * hi + t) * R = hi * (2 * R) + t * R
      BY <1>3, <1>6, <1>7
    <3>2. hi * (2 * R) \in Int /\ t * R \in Int
      BY <1>3, <1>6, <1>7
    <3> QED  BY <1>5, <1>7, <3>1, <3>2
  <2>2. q \in Int
    BY <1>6, <1>7
  <2> HIDE DEF q
  <2>3. v \div R = q /\ v % R = l
    BY <1>3, <1>7, <2>1, <2>2, Divided
  <2> QED  BY <2>3 DEF q
<1>14. (v \div R) % 2 = t
  BY <1>6, <1>7, <1>13
<1>15. Rotated(v, k + 1) = l * (2 * P) + (2 * hi + t)
  BY <1>1, <1>3, <1>13 DEF Rotated, R
<1>16. Doubled(a) + TopBit(a) = Rotated(v, k + 1)
  <2>1. l * (2 * P) = 2 * (l * P) /\ l * P \in Int
    BY <1>3, <1>7
  <2> QED  BY <1>6, <1>7, <1>11, <1>12, <1>15, <2>1 DEF w
<1> QED  BY <1>10, <1>11, <1>14, <1>16 DEF a, R, m

LEMMA RotatedEnds ==
  ASSUME NEW v \in Word
  PROVE  Rotated(v, 0) = v /\ Rotated(v, Width) = v
<1>1. Width \in Nat /\ Width - 0 = Width /\ Width - Width = 0
  BY WidthAssumption
<1>2. 2^Width = Modulus /\ 2^0 = 1
  BY ByteSizes, Powers
<1>3. Rotated(v, 0) = (v % Modulus) * 1 + v \div Modulus
  BY <1>1, <1>2 DEF Rotated
<1>4. Rotated(v, Width) = (v % 1) * Modulus + v \div 1
  BY <1>1, <1>2 DEF Rotated
<1>5. v % Modulus = v /\ v \div Modulus = 0
  <2>1. v = 0 * Modulus + v /\ v \in Int
    BY Sizes DEF Word
  <2> QED  BY <2>1, Reduced
<1>6. v % 1 = 0 /\ v \div 1 = v
  BY Sizes DEF Word
<1> QED  BY <1>3, <1>4, <1>5, <1>6, Sizes DEF Word

\* The bits set from one position up to another.
Ones(v, from, to) == {i \in Bits(v) : from <= i /\ i < to}

LEMMA OnesFinite ==
  ASSUME NEW v \in Word, NEW from, NEW to
  PROVE  /\ IsFiniteSet(Bits(v))
         /\ IsFiniteSet(Ones(v, from, to))
         /\ Cardinality(Ones(v, from, to)) \in Nat
<1>1. IsFiniteSet(0..Width - 1)
  <2>1. 0 \in Int /\ Width - 1 \in Int
    BY WidthAssumption
  <2> QED  BY <2>1, FS_Interval
<1>2. Ones(v, from, to) \subseteq 0..Width - 1 /\ Bits(v) \subseteq 0..Width - 1
  BY DEF Ones, Bits
<1> QED  BY <1>1, <1>2, FS_Subset, FS_CardinalityType

\* PTY over j positions of a word that has gone around by n.
LEMMA ParityRun ==
  ASSUME NEW V, Machines(V), NEW s \in V, NEW v \in Word, NEW n \in 0..Width,
         s.A = Rotated(v, n), s.E = 0, NEW j \in 0..Width - n
  PROVE  /\ Repeat("PTY", j, s).A = Rotated(v, n + j)
         /\ Repeat("PTY", j, s).E = Cardinality(Ones(v, Width - n - j, Width - n))
<1> DEFINE Count(i) == Cardinality(Ones(v, Width - n - i, Width - n))
           T == {i \in 0..Width - n :
                   /\ Repeat("PTY", i, s).A = Rotated(v, n + i)
                   /\ Repeat("PTY", i, s).E = Count(i)
                   /\ Count(i) <= i}
<1>1. Width \in Nat /\ Width - n \in Nat /\ n \in Nat
  BY WidthAssumption
<1>2. 0 \in T
  <2>1. Repeat("PTY", 0, s) = s
    BY OneMore DEF Positions
  <2>2. Ones(v, Width - n - 0, Width - n) = {}
    BY <1>1 DEF Ones, Bits
  <2>3. n + 0 = n
    BY <1>1
  <2> QED  BY <1>1, <2>1, <2>2, <2>3, FS_EmptySet
<1>3. Width < Modulus
  <2> DEFINE G == {i \in Nat : i < 2^i}
  <2>1. 0 \in G
    BY Powers
  <2>2. ASSUME NEW i \in Nat, i \in G PROVE i + 1 \in G
    <3>1. 2^i \in Nat \ {0} /\ 2^(i + 1) = 2 * 2^i
      BY Powers
    <3> QED  BY <2>2, <3>1
  <2>3. Nat \subseteq G
    <3> HIDE DEF G
    <3> QED  BY <2>1, <2>2, SetInduction
  <2> QED  BY <1>1, <2>3, ByteSizes
<1>4. ASSUME NEW i \in 0..(Width - n) - 1, i \in T PROVE i + 1 \in T
  <2> DEFINE k == n + i
             p == Width - 1 - k
             u == Repeat("PTY", i, s)
             old == Ones(v, Width - n - i, Width - n)
             new == Ones(v, Width - n - (i + 1), Width - n)
  <2>1. /\ i \in Nat /\ k \in 0..Width - 1 /\ n + (i + 1) = k + 1
        /\ p \in 0..Width - 1 /\ p = Width - n - (i + 1) /\ p + 1 = Width - n - i
        /\ p < Width - n /\ i + 1 \in 0..Width - n /\ i < Width
    BY <1>1
  <2>2. u \in V /\ Repeat("PTY", i + 1, s) = ShiftOnce("PTY", u)
    BY <2>1, OneMore DEF Positions
  <2>3. u.A = Rotated(v, k) /\ u.E = Cardinality(old) /\ Cardinality(old) <= i
    BY <1>4
  <2> HIDE DEF T, u, k
  <2> DEFINE b == TopBit(u.A)
  <2>4. b = (v \div 2^p) % 2 /\ Doubled(u.A) + b = Rotated(v, k + 1) /\ b \in {0, 1}
    <3>1. u.A \in Word
      BY <2>2, PositionParts
    <3> QED  BY <2>1, <2>3, <3>1, RotatedOnce, WordParts
  <2>5. /\ ShiftOnce("PTY", u).A = Doubled(u.A) + b
        /\ ShiftOnce("PTY", u).E = (Cardinality(old) + b) % Modulus
    BY <2>2, <2>3, PositionParts
  <2> HIDE DEF b, p
  <2>6. IsFiniteSet(old) /\ Cardinality(old) \in Nat
    BY OnesFinite
  <2>7. p \notin old
    BY <2>1 DEF Ones
  <2>8. (b = 1 => new = old \cup {p}) /\ (b = 0 => new = old)
    <3>1. p \in Bits(v) <=> b = 1
      BY <2>1, <2>4 DEF Bits
    <3>2. \A x \in Bits(v) : x \in Int
      BY <1>1 DEF Bits
    <3>3. \A x \in Int : p <= x <=> x = p \/ p + 1 <= x
      BY <2>1
    <3>4. old = Ones(v, p + 1, Width - n) /\ new = Ones(v, p, Width - n)
      BY <2>1
    <3> QED  BY <2>1, <2>4, <3>1, <3>2, <3>3, <3>4 DEF Ones
  <2>9. Cardinality(old \cup {p}) = Cardinality(old) + 1
    <3> HIDE DEF old
    <3> QED  BY <2>6, <2>7, FS_AddElement
  <2>10. Cardinality(new) = Cardinality(old) + b
    <3> HIDE DEF old, new
    <3>1. CASE b = 1
      BY <2>8, <2>9, <3>1
    <3>2. CASE b = 0
      <4>1. Cardinality(new) = Cardinality(old)
        BY <2>8, <3>2
      <4> QED  BY <2>6, <3>2, <4>1
    <3> QED  BY <2>4, <3>1, <3>2
  <2> HIDE DEF old, new
  <2>11. (Cardinality(old) + b) % Modulus = Cardinality(old) + b
    <3> DEFINE x == Cardinality(old) + b
    <3>1. x \in 0..Modulus - 1
      BY <1>1, <1>3, <2>1, <2>3, <2>4, <2>6, Sizes
    <3> HIDE DEF x
    <3>2. x % Modulus = x
      BY <3>1, Sizes
    <3> QED  BY <3>2 DEF x
  <2>12. Count(i + 1) = Cardinality(new)
    BY DEF new
  <2> HIDE DEF Count
  <2>13. Count(i + 1) <= i + 1
    BY <2>1, <2>3, <2>4, <2>6, <2>10, <2>12
  <2> QED  BY <2>1, <2>2, <2>4, <2>5, <2>10, <2>11, <2>12, <2>13 DEF T
<1>5. j \in T
  <2> HIDE DEF T
  <2> QED  BY <1>1, <1>2, <1>4, RangeInduction
<1> QED  BY <1>5

===============================================================================
