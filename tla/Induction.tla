------------------------------ MODULE Induction ------------------------------
(***************************************************************************)
(* Induction and recursion over the natural numbers, stated with sets and   *)
(* functions only, so that the provers can instantiate them.                *)
(***************************************************************************)
EXTENDS Integers, WellFoundedInduction, TLAPS

Less == {p \in Nat \X Nat : p[1] < p[2]}

\* The order of the natural numbers is well founded.
LEMMA LessIsWellFounded == IsWellFoundedOn(Less, Nat)
BY NatLessThanWellFounded DEF OpToRel, Less

\* A set of natural numbers that is not empty has a least element.
LEMMA Minimum ==
  ASSUME NEW S \in SUBSET Nat, S # {}
  PROVE  \E m \in S : \A n \in S : m <= n
<1>1. PICK m \in S : \A n \in S : <<n, m>> \notin Less
  BY LessIsWellFounded, WFMin
<1>2. \A n \in S : ~(n < m)
  BY <1>1 DEF Less
<1> QED  BY <1>1, <1>2

\* A set with 0 and the successors of its elements holds every natural number.
LEMMA SetInduction ==
  ASSUME NEW S, 0 \in S, \A n \in Nat : n \in S => n + 1 \in S
  PROVE  Nat \subseteq S
<1> SUFFICES ASSUME Nat \ S # {} PROVE FALSE
  OBVIOUS
<1>1. PICK m \in Nat \ S : \A n \in Nat \ S : m <= n
  BY Minimum
<1>2. m - 1 \in Nat /\ m - 1 \in S
  BY <1>1
<1> QED  BY <1>1, <1>2

\* The same for the numbers up to a bound.
LEMMA RangeInduction ==
  ASSUME NEW N \in Nat, NEW S, 0 \in S,
         \A n \in 0..N - 1 : n \in S => n + 1 \in S
  PROVE  0..N \subseteq S
<1> DEFINE T == {n \in Nat : n <= N => n \in S}
<1>1. 0 \in T
  OBVIOUS
<1>2. ASSUME NEW n \in Nat, n \in T PROVE n + 1 \in T
  BY <1>2
<1>3. Nat \subseteq T
  <2> HIDE DEF T
  <2> QED  BY <1>1, <1>2, SetInduction
<1> QED  BY <1>3

\* The steps from one value and a number to the next value, up to n, and the
\* sequences of values that follow one.
Steps(V, n) == [V \X (1..n) -> V]
Follows(f, V, first, step, n) ==
  /\ f \in [0..n -> V]
  /\ f[0] = first
  /\ \A i \in 1..n : f[i] = step[<<f[i - 1], i>>]

\* A value and a step make a sequence of values, of any length.
THEOREM Recursion ==
  ASSUME NEW N \in Nat, NEW V, NEW first \in V, NEW step \in Steps(V, N)
  PROVE  \E f : Follows(f, V, first, step, N)
<1> DEFINE Good == {n \in 0..N : \E f : Follows(f, V, first, step, n)}
<1>1. 0 \in Good
  <2> DEFINE f == [i \in 0..0 |-> first]
  <2>1. Follows(f, V, first, step, 0)
    BY DEF Follows
  <2> HIDE DEF f
  <2> QED  BY <2>1
<1>2. ASSUME NEW n \in 0..N - 1, n \in Good PROVE n + 1 \in Good
  <2>1. PICK f : Follows(f, V, first, step, n)
    BY <1>2
  <2>2. /\ f \in [0..n -> V]
        /\ f[0] = first
        /\ \A i \in 1..n : f[i] = step[<<f[i - 1], i>>]
    BY <2>1 DEF Follows
  <2> DEFINE g == [i \in 0..n + 1 |-> IF i <= n THEN f[i]
                                      ELSE step[<<f[n], n + 1>>]]
  <2>3. g \in [0..n + 1 -> V]
    <3>1. \A i \in 0..n + 1 : i <= n => i \in 0..n
      OBVIOUS
    <3>2. step[<<f[n], n + 1>>] \in V
      BY <2>2 DEF Steps
    <3> QED  BY <2>2, <3>1, <3>2
  <2>4. \A i \in 1..n + 1 : g[i] = step[<<g[i - 1], i>>]
    <3> TAKE i \in 1..n + 1
    <3>1. CASE i \in 1..n
      <4>1. i - 1 \in 0..n + 1 /\ i - 1 <= n /\ i \in 0..n + 1 /\ i <= n
        BY <3>1
      <4>2. g[i] = f[i] /\ g[i - 1] = f[i - 1]
        BY <4>1
      <4>3. f[i] = step[<<f[i - 1], i>>]
        BY <3>1, <2>2
      <4> HIDE DEF g
      <4> QED  BY <4>2, <4>3
    <3>2. CASE i = n + 1
      BY <3>2
    <3> QED  BY <3>1, <3>2
  <2>5. Follows(g, V, first, step, n + 1)
    <3>1. g[0] = first
      BY <2>2
    <3> HIDE DEF g
    <3> QED  BY <2>3, <2>4, <3>1 DEF Follows
  <2> HIDE DEF g
  <2> QED  BY <2>5
<1>3. N \in Good
  <2> HIDE DEF Good
  <2> QED  BY <1>1, <1>2, RangeInduction
<1> QED  BY <1>3

=============================================================================
