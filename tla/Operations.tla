----------------------------- MODULE Operations -----------------------------
(***************************************************************************)
(* What the instructions of the Mitra-15 compute from the registers and an  *)
(* operand: mitra_instr_utils.c without memory and addresses.  A word has   *)
(* Width bits (16 in the code), and r is a record with the registers A, E,  *)
(* X and the indicators C and OV, among others that stay as they are.       *)
(***************************************************************************)
EXTENDS Integers, FiniteSetsExt

CONSTANTS
  Width,  \* the bits of a word, an even number (16 in the code)
  Half    \* the words that are not negative

ASSUME WidthAssumption ==
  /\ Width \in Nat \ {0}
  /\ Width % 2 = 0
  /\ Half \in Nat \ {0}
  /\ Half = 2^(Width - 1)

Modulus == 2 * Half
Word == 0..Modulus - 1
Byte == 0..2^(Width \div 2) - 1
Flag == {0, 1}

Signed(v) == IF v >= Half THEN v - Modulus ELSE v
Negative(v) == v >= Half
Left(v) == v \div 2^(Width \div 2)
Right(v) == v % 2^(Width \div 2)
Join(left, right) == left * 2^(Width \div 2) + right

Test(b) == IF b THEN 1 ELSE 0

Bits(v) == {i \in 0..Width - 1 : (v \div 2^i) % 2 = 1}
FromBits(S) ==
  LET sum[n \in 0..Width] ==
        IF n = 0 THEN 0 ELSE sum[n - 1] + (IF n - 1 \in S THEN 2^(n - 1) ELSE 0)
  IN  sum[Width]
BitAnd(v, w) == FromBits(Bits(v) \cap Bits(w))
BitOr(v, w) == FromBits(Bits(v) \cup Bits(w))
BitXor(v, w) == BitOr(v, w) - BitAnd(v, w)
Complement(v) == Modulus - 1 - v

----------------------------------------------------------------------------
(* The indicators. *)

set_condition_codes_load(r, v) ==
  [r EXCEPT !.C = Test(v = 0), !.OV = Test(Negative(v))]

\* Mutant: the comparison is on unsigned words.
compare_unsigned(r, v, m) ==
  [r EXCEPT !.C = Test(v = m), !.OV = Test(v < m)]

set_condition_codes_compare(r, v, m) ==
  [r EXCEPT !.C = Test(v = m), !.OV = Test(Signed(v) < Signed(m))]

----------------------------------------------------------------------------
(* Arithmetic. *)

\* Mutant: the carry is the overflow.
add16_overflow(a, b) ==
  LET result == (a + b) % Modulus
      overflow == Test(/\ Negative(a) = Negative(b)
                       /\ Negative(a) # Negative(result))
  IN  [result |-> result, carry |-> overflow, overflow |-> overflow]

add16(a, b) ==
  LET result == (a + b) % Modulus
  IN  [result |-> result, carry |-> (a + b) \div Modulus,
       overflow |-> Test(/\ Negative(a) = Negative(b)
                         /\ Negative(a) # Negative(result))]

sub16(a, b) ==
  LET result == (a - b) % Modulus
  IN  [result |-> result, carry |-> Test(a < b),
       overflow |-> Test(/\ Negative(a) # Negative(b)
                         /\ Negative(a) # Negative(result))]

\* Mutant: the halves of the product are swapped.
mul32_swapped(a, b) == [high |-> (a * b) % Modulus, low |-> (a * b) \div Modulus]

mul32(a, b) == [high |-> (a * b) \div Modulus, low |-> (a * b) % Modulus]

\* The division of C, towards 0.
Quotient(a, b) ==
  LET magnitude(n) == IF n < 0 THEN -n ELSE n
      q == magnitude(a) \div magnitude(b)
  IN  IF (a < 0) = (b < 0) THEN q ELSE -q

Dividend(r) == Signed(r.E) * Modulus + r.A

\* div32: what A and E become, and whether it fails.  The quotient is reduced
\* to a word before it is compared with the largest one allowed, and it is in
\* A even when the comparison fails.
div32(r, m) ==
  LET quotient == Quotient(Dividend(r), Signed(m))
      word == quotient % Modulus
  IN  IF m = 0 THEN [A |-> r.A, E |-> r.E, ok |-> FALSE]
      ELSE IF Negative(word) THEN [A |-> word, E |-> r.E, ok |-> FALSE]
      ELSE [A |-> word, ok |-> TRUE,
            E |-> (Dividend(r) - quotient * Signed(m)) % Modulus]

\* The host divides the smallest double word by -1: the simulator ends.
DivisionFaults(r, m) == r.E = Half /\ r.A = 0 /\ Signed(m) = -1

----------------------------------------------------------------------------
(* Shifts, one position at a time.  C, which each position sets, is set     *)
(* again from A after the last one, except by PTY.                          *)

LowBit(v) == v % 2

\* Mutant: a shifted word is not cut to its width.
doubled_uncut(v) == 2 * v

Doubled(v) == (2 * v) % Modulus

TopBit(v) == v \div Half

shift_lls(r) == [r EXCEPT !.A = Doubled(@)]
shift_rls(r) == [r EXCEPT !.A = @ \div 2]
shift_sas(r) == [r EXCEPT !.A = @ \div 2 + Half * TopBit(@)]
shift_srcs(r) == [r EXCEPT !.A = @ \div 2 + Half * LowBit(@)]
shift_slcs(r) == [r EXCEPT !.A = Doubled(@) + TopBit(@)]
shift_lld(r) ==
  [r EXCEPT !.E = Doubled(@) + TopBit(r.A), !.A = Doubled(@)]
shift_rld(r) ==
  [r EXCEPT !.A = @ \div 2 + Half * LowBit(r.E), !.E = @ \div 2]

\* Mutant: the sign of E is not restored.
sad_logical(r) ==
  [r EXCEPT !.A = @ \div 2 + Half * LowBit(r.E), !.E = @ \div 2]

shift_sad(r) ==
  [r EXCEPT !.A = @ \div 2 + Half * LowBit(r.E),
            !.E = @ \div 2 + Half * TopBit(@)]
shift_lcd(r) ==
  [r EXCEPT !.E = Doubled(@) + TopBit(r.A),
            !.A = Doubled(@) + TopBit(r.E)]
shift_rcd(r) ==
  [r EXCEPT !.A = @ \div 2 + Half * LowBit(r.E),
            !.E = @ \div 2 + Half * LowBit(r.A)]

\* One position of PTY: E counts the set bits.
ParityStep(r) ==
  [shift_slcs(r) EXCEPT !.E = (@ + TopBit(r.A)) % Modulus, !.C = TopBit(r.A)]

\* One position of each shift.
ShiftOnce(type, r) ==
  CASE type = "SLLS" -> shift_lls(r)
    [] type = "SRLS" -> shift_rls(r)
    [] type = "SAS" -> shift_sas(r)
    [] type = "SRCS" -> shift_srcs(r)
    [] type = "SLCS" -> shift_slcs(r)
    [] type = "SAD" -> shift_sad(r)
    [] type = "SLCD" -> shift_lcd(r)
    [] type = "SRCD" -> shift_rcd(r)
    [] type = "SLLD" -> shift_lld(r)
    [] type = "SRLD" -> shift_rld(r)
    [] type = "PTY" -> ParityStep(r)

Repeat(type, n, r) ==
  LET after[k \in 0..n] == IF k = 0 THEN r ELSE ShiftOnce(type, after[k - 1])
  IN  after[n]

ShiftTypes == {"SLLS", "SRLS", "SAS", "SRCS", "SLCS", "SAD", "SLCD", "SRCD"}

\* The SHR instructions: group_3_Shift_P and its PX and DL forms, which take
\* the type and the count from another word.
ShiftRegister(type, n, r) ==
  LET shifted == Repeat(type, n, r)
  IN  set_condition_codes_load(shifted, shifted.A)

Double(r) == r.E * Modulus + r.A

\* The two top bits of E differ.
Normal(r) == TopBit(r.E) # (r.E \div (Half \div 2)) % 2

\* Mutant: one position too many.
normalize_beyond(r, max) ==
  LET steps == CHOOSE k \in 0..max : Normal(Repeat("SLLD", k, r)) \/ k = max
      shifted == Repeat("SLLD", steps + 1, r)
  IN  [shifted EXCEPT !.X = (@ - steps - 1) % Modulus]

\* NLZ: at most max positions, and one less than the bits of E and A.
normalize(r, max) ==
  LET limit == Min({max, 2 * Width - 1})
      Stop(k) == k = limit \/ Normal(Repeat("SLLD", k, r))
      steps == CHOOSE k \in 0..limit : Stop(k) /\ \A j \in 0..k - 1 : ~Stop(j)
      shifted == Repeat("SLLD", steps, r)
  IN  [shifted EXCEPT !.X = (@ - steps) % Modulus,
                      !.C = Test(steps = max /\ steps # 0),
                      !.OV = Test(steps = 0)]

\* Mutant: E is not cleared first.
parity_accumulated(r, n) ==
  LET last == Repeat("PTY", n, [r EXCEPT !.C = 0])
  IN  [last EXCEPT !.OV = LowBit(@)]

compute_parity(r, n) ==
  LET last == Repeat("PTY", n, [r EXCEPT !.E = 0, !.C = 0])
  IN  [last EXCEPT !.OV = LowBit(last.E)]

SpecialTypes == {"SLLD", "SRLD", "PTY", "NLZ", "unknown"}

\* The SHC instructions without DITR.
shift_instr(type, n, r) ==
  CASE type = "PTY" -> compute_parity(r, n)
    [] type = "NLZ" -> normalize(r, n)
    [] type \in {"SLLD", "SRLD"} ->
         LET s == Repeat(type, n, r) IN set_condition_codes_load(s, s.A)
    [] type = "unknown" -> set_condition_codes_load(r, r.A)

----------------------------------------------------------------------------
(* The instructions. *)

RegisterTypes ==
  {"XAE", "XAX", "XEX", "XAA", "CCE", "ACE", "CCA", "AEE", "CNX", "AIE", "AAE",
   "LNE", "CNA", "CHX"}

\* The indicators are those of A, which AIE, AEE and others have changed.
TestedA(r) == set_condition_codes_load(r, r.A)

\* The SRG instructions without RTS and RSV.
set_register(type, r) ==
  CASE type = "XAE" -> [r EXCEPT !.A = r.E, !.E = r.A]
    [] type = "XAX" -> [r EXCEPT !.A = r.X, !.X = r.A]
    [] type = "XEX" -> [r EXCEPT !.E = r.X, !.X = r.E]
    [] type = "XAA" -> [r EXCEPT !.A = Join(Right(@), Left(@))]
    [] type = "CCE" -> [r EXCEPT !.E = Complement(@)]
    [] type = "CCA" -> [r EXCEPT !.A = Complement(@)]
    [] type = "ACE" -> TestedA([r EXCEPT !.E = (@ + r.C) % Modulus])
    [] type = "AEE" -> TestedA([r EXCEPT !.A = BitXor(@, r.E)])
    [] type = "AIE" -> TestedA([r EXCEPT !.A = BitOr(@, r.E)])
    [] type = "AAE" -> TestedA([r EXCEPT !.A = BitAnd(@, r.E)])
    [] type = "CNA" -> TestedA([r EXCEPT !.A = (-@) % Modulus])
    [] type = "CNX" -> [r EXCEPT !.X = (-@) % Modulus]
    [] type = "LNE" -> [r EXCEPT !.E = Modulus - 1]
    [] type = "CHX" -> [r EXCEPT !.X = @ \div 2 + Half * TopBit(@)]

LoadOperations ==
  {"LDA", "LDE", "LDX", "EOR", "ADD", "SUB", "IOR", "DIV", "AND", "CMP", "MUL",
   "LBL", "LBR", "LBX"}

\* LEA and CPS, which need the address, are in the modules with a memory.
Mem_OP_Reg_To_Reg(op, r, m) ==
  LET A(v) == set_condition_codes_load([r EXCEPT !.A = v], v)
      X(v) == set_condition_codes_load([r EXCEPT !.X = v], v)
      Sum(s) == [r EXCEPT !.A = s.result, !.C = s.carry, !.OV = s.overflow]
      product == mul32(r.A, m)
      division == div32(r, m)
      divided == [r EXCEPT !.A = division.A, !.E = division.E]
  IN  CASE op = "LDA" -> A(m)
        [] op = "LDE" -> set_condition_codes_load([r EXCEPT !.E = m], m)
        [] op = "LDX" -> X(m)
        [] op = "EOR" -> A(BitXor(r.A, m))
        [] op = "IOR" -> A(BitOr(r.A, m))
        [] op = "AND" -> A(BitAnd(r.A, m))
        [] op = "LBL" -> A(Join(Right(m), Right(r.A)))
        [] op = "LBR" -> A(Right(m))
        [] op = "LBX" -> X(Right(m))
        [] op = "ADD" -> Sum(add16(r.A, m))
        [] op = "SUB" -> Sum(sub16(r.A, m))
        [] op = "CMP" -> set_condition_codes_compare(r, r.A, m)
        [] op = "MUL" -> set_condition_codes_load(
                           [r EXCEPT !.E = product.high, !.A = product.low],
                           product.high)
        [] op = "DIV" -> IF division.ok
                           THEN set_condition_codes_load(divided, divided.A)
                           ELSE [divided EXCEPT !.OV = 1]

StoreOperations == {"STA", "STE", "STX", "SBL", "SBR", "ADM", "STS"}

\* Reg_OP_Mem_To_Mem: the word stored over m.
StoredValue(op, r, m) ==
  CASE op = "STA" -> r.A
    [] op = "STE" -> r.E
    [] op = "STX" -> r.X
    [] op = "SBL" -> Join(Left(r.A), Right(m))
    [] op = "SBR" -> Join(Left(m), Right(r.A))
    [] op = "ADM" -> add16(m, r.A).result
    [] op = "STS" -> BitOr(BitAnd(m, Complement(r.E)), BitAnd(r.A, r.E))

\* Reg_OP_Mem_To_Mem: the registers after the store over m.
AfterStore(op, r, m) ==
  LET s == add16(m, r.A)
  IN  CASE op = "ADM" -> [r EXCEPT !.A = s.result, !.C = s.carry,
                                   !.OV = s.overflow]
        [] op = "STS" -> set_condition_codes_load(r, StoredValue(op, r, m))
        [] OTHER -> r

=============================================================================
