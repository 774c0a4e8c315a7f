-------------------------------- MODULE Alu --------------------------------
(***************************************************************************)
(* The registers of the Mitra-15 under any sequence of its arithmetic,      *)
(* logical, shift and floating instructions.  The operand of an instruction *)
(* is any word of Operands, wherever its address form finds it.             *)
(***************************************************************************)
EXTENDS Floating

CONSTANTS
  Operands,  \* the words the instructions find in memory
  Counts,    \* the counts of the shifts
  Indexes,   \* the values of X explored
  Numbers    \* the double words the floating instructions find in memory

VARIABLE cpu  \* the registers A, E and X and the indicators C and OV

Registers == [A : Word, E : Word, X : Word, C : Flag, OV : Flag]

ASSUME AluAssumption ==
  /\ Operands \subseteq Word
  /\ Counts \subseteq 0..2 * Width - 1
  /\ Indexes \subseteq Word
  /\ Numbers \subseteq 0..Doubles - 1

\* The operands of group_1_DL, as of the other address forms.
LoadInstruction ==
  \E op \in LoadOperations, m \in Operands :
    /\ ~(op = "DIV" /\ m # 0 /\ DivisionFaults(cpu, m))
    /\ cpu' = Mem_OP_Reg_To_Reg(op, cpu, m)

StoreInstruction ==
  \E op \in StoreOperations, m \in Operands : cpu' = AfterStore(op, cpu, m)

\* DLD: two consecutive words; the indicators are those of the first one.
DoubleLoad ==
  \E high, low \in Operands :
    cpu' = set_condition_codes_load([cpu EXCEPT !.E = high, !.A = low], high)

IndexIncrement ==
  \E n \in Operands, x \in Word :
    /\ x \in {(cpu.X + n) % Modulus, (cpu.X - n) % Modulus}
    /\ cpu' = set_condition_codes_load([cpu EXCEPT !.X = x], x)

ShiftInstruction ==
  \E type \in ShiftTypes, n \in Counts : cpu' = ShiftRegister(type, n, cpu)

SpecialShift ==
  \E type \in SpecialTypes, n \in Counts : cpu' = shift_instr(type, n, cpu)

RegisterInstruction == \E type \in RegisterTypes : cpu' = set_register(type, cpu)

FloatInstruction ==
  \E op \in FloatOperations, m \in Numbers : cpu' = floating_inst(op, cpu, m)

Init == cpu = [A |-> 0, E |-> 0, X |-> 0, C |-> 0, OV |-> 0]

Next ==
  /\ \/ LoadInstruction
     \/ StoreInstruction
     \/ DoubleLoad
     \/ IndexIncrement
     \/ ShiftInstruction
     \/ SpecialShift
     \/ RegisterInstruction
     \/ FloatInstruction
  /\ cpu'.X \in Indexes

Spec == Init /\ [][Next]_cpu

----------------------------------------------------------------------------
(* Type invariant: every register keeps the width of a word. *)
TypeOK == cpu \in Registers

(* Addition of double words (ADD of the low halves, ACE, and ADD of the     *)
(* high halves between two XAE): the carry of the low halves reaches the    *)
(* high one, for every double word in E and A.                              *)
DoubleAddition ==
  \A h, l \in Operands :
    LET low == Mem_OP_Reg_To_Reg("ADD", cpu, l)
        swapped == set_register("XAE", set_register("ACE", low))
        sum == set_register("XAE", Mem_OP_Reg_To_Reg("ADD", swapped, h))
    IN  Double(sum) = (Double(cpu) + h * Modulus + l) % Doubles

(* CMP and SUB give one order: the sign CMP leaves for BOT is the sign of   *)
(* the true difference, which SUB leaves in A and in OV; the words it finds *)
(* equal are those SUB makes zero; and ADD of the operand undoes SUB, with  *)
(* the borrow of the one as the carry of the other.                         *)
CompareAgreesWithSubtract ==
  \A m \in Word :
    LET compared == Mem_OP_Reg_To_Reg("CMP", cpu, m)
        difference == Mem_OP_Reg_To_Reg("SUB", cpu, m)
        restored == Mem_OP_Reg_To_Reg("ADD", difference, m)
    IN  /\ (compared.OV = 1) <=> (Negative(difference.A) # (difference.OV = 1))
        /\ (compared.C = 1) <=> (difference.A = 0)
        /\ restored.A = cpu.A
        /\ restored.C = difference.C

(* A product that MUL leaves in E and A is divided again by DIV without a   *)
(* remainder, for factors that are positive numbers.                        *)
MultiplyDivide ==
  \A m \in Operands \ {0} :
    ~Negative(cpu.A) /\ ~Negative(m) =>
      LET product == Mem_OP_Reg_To_Reg("MUL", cpu, m)
          quotient == Mem_OP_Reg_To_Reg("DIV", product, m)
      IN  quotient = set_condition_codes_load([cpu EXCEPT !.E = 0], cpu.A)

(* The shifts are those of numbers: the arithmetic ones divide by a power   *)
(* of two towards minus infinity, the logical ones multiply and divide the  *)
(* unsigned word, and a circular one is undone by the opposite one.         *)
ShiftsScale ==
  \A n \in Counts :
    LET After(type) == ShiftRegister(type, n, cpu)
        number == Signed(cpu.E) * Modulus + cpu.A
        scaled == number \div 2^n
    IN  /\ Double(After("SAD")) = scaled % Doubles
        /\ After("SAS").A = (Signed(cpu.A) \div 2^n) % Modulus
        /\ After("SLLS").A = (cpu.A * 2^n) % Modulus
        /\ After("SRLS").A = cpu.A \div 2^n
        /\ Double(shift_instr("SLLD", n, cpu)) = (Double(cpu) * 2^n) % Doubles
        /\ Double(shift_instr("SRLD", n, cpu)) = Double(cpu) \div 2^n
        /\ ShiftRegister("SRCS", n, After("SLCS")).A = cpu.A
        /\ Double(ShiftRegister("SRCD", n, After("SLCD"))) = Double(cpu)

(* What NLZ does SAD undoes, by the positions NLZ took from X: NLZ never    *)
(* shifts a significant bit or the sign out, whatever its limit.            *)
NormalizeUndone ==
  \A n \in Counts :
    LET normal == shift_instr("NLZ", n, cpu)
        steps == (cpu.X - normal.X) % Modulus
    IN  /\ steps <= n
        /\ Double(ShiftRegister("SAD", steps, normal)) = Double(cpu)
        /\ steps < n => Normal(normal) \/ steps = 2 * Width - 1

(* PTY over a word in two parts finds the bits of the whole word and brings *)
(* the word back, and its indicator OV is the parity of the sum.            *)
ParityAdds ==
  \A n \in Counts :
    n <= Width =>
      LET part == shift_instr("PTY", n, cpu)
          rest == shift_instr("PTY", Width - n, part)
      IN  /\ rest.A = cpu.A
          /\ part.E + rest.E = Cardinality(Bits(cpu.A))
          /\ (part.OV + rest.OV) % 2 = Cardinality(Bits(cpu.A)) % 2

(* The order of two numbers survives the addition of a third one, through   *)
(* the alignment of the exponents, the rounding and the carry of the        *)
(* mantissa, as long as neither sum is out of range.                        *)
FloatOrder ==
  \A other \in Numbers, m \in Numbers :
    LET AtMost(r, t) == Sum(mitra_to_double(Double(r)),
                            [mitra_to_double(Double(t)) EXCEPT !.num = -@]).num <= 0
        second == [cpu EXCEPT !.E = other \div Modulus, !.A = other % Modulus]
        sum1 == floating_inst("FAD", cpu, m)
        sum2 == floating_inst("FAD", second, m)
    IN  AtMost(cpu, second) /\ sum1.OV = 0 /\ sum2.OV = 0 => AtMost(sum1, sum2)

(* Adding zero to a number keeps its value unless the indicators say that   *)
(* it is out of range, and brings it to the one form with a normalised      *)
(* mantissa: doing it twice changes nothing more.                           *)
FloatNormalForm ==
  LET once == floating_inst("FAD", cpu, 0)
      Value(r) == mitra_to_double(Double(r))
  IN  once.OV = 0 =>
        /\ Sum(Value(once), [Value(cpu) EXCEPT !.num = -@]).num = 0
        /\ floating_inst("FAD", once, 0) = once

=============================================================================
