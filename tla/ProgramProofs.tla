---------------------------- MODULE ProgramProofs ----------------------------
(***************************************************************************)
(* The instructions of Program keep the types of registers and memory, move *)
(* strings, return from what they call and run a slave program at any G,     *)
(* for words of every width, every program and every memory it starts with. *)
(***************************************************************************)
EXTENDS Sections, Relocation, OperationsProofs, SequenceTheorems

----------------------------------------------------------------------------
(* Addresses and words. *)

LEMMA Halves ==
  /\ Half \div 2 \in Nat
  /\ Half \div 2 >= 8
  /\ Half = 2 * (Half \div 2)
  /\ Half \in Nat /\ Half >= 16
  /\ Modulus = 4 * (Half \div 2)
<1> DEFINE w == Width - 1
           u == Width - 2
<1>1. w \in Nat /\ Half = 2^w /\ Half \in Nat
  BY WidthAssumption
<1>2. w # 0
  <2> SUFFICES ASSUME w = 0 PROVE FALSE
    OBVIOUS
  <2> HIDE DEF w
  <2>1. 2^w = 1
    BY Powers
  <2>2. 2^w >= 16
    BY <1>1, IndicatorsAssumption
  <2> QED  BY <2>1, <2>2
<1>3. u \in Nat /\ w = u + 1
  BY <1>1, <1>2, WidthAssumption
<1> HIDE DEF w, u
<1>4. Half = 2 * 2^u /\ 2^u \in Nat
  BY <1>1, <1>3, Powers
<1> DEFINE p == 2^u
<1> HIDE DEF p
<1>5. Half = 2 * p /\ p \in Nat
  BY <1>4 DEF p
<1>6. Half \div 2 = p
  BY <1>5
<1> QED  BY <1>5, <1>6, IndicatorsAssumption DEF Modulus

LEMMA Halved ==
  ASSUME NEW n \in Int
  PROVE  /\ n \div 2 \in Int /\ n % 2 \in 0..1
         /\ \A q, b \in Int : q = n \div 2 /\ b = n % 2 => n = 2 * q + b
<1>1. n \div 2 \in Int /\ n % 2 \in 0..1
  OBVIOUS
<1>2. ASSUME NEW q \in Int, NEW b \in Int, q = n \div 2, b = n % 2
      PROVE  n = 2 * q + b
  BY <1>2
<1> QED  BY <1>1, <1>2

\* The place of an address, and the word that holds it.
LEMMA Places ==
  ASSUME NEW va \in Int
  PROVE  /\ VA_TO_PA(va) \in 0..Half - 1
         /\ VA_TO_PA(va) \in Word
         /\ Cell(va) \in 0..(Half \div 2) - 1
         /\ 2 * Cell(va) \in 0..Half - 1
         /\ \E b \in 0..1 : b = va % 2 /\ VA_TO_PA(va) = 2 * Cell(va) + b
<1> DEFINE h == Half \div 2
           q == va \div Half
           p == va % Half
           c == p \div 2
           b == p % 2
<1>1. h \in Nat /\ h >= 8 /\ Half = 2 * h
  BY Halves
<1>2. q \in Int /\ p \in 0..Half - 1 /\ va = q * Half + p
  <2>1. Half \in Nat \ {0}
    BY Halves
  <2> QED  BY <2>1
<1>3. VA_TO_PA(va) = p /\ Cell(va) = c
  BY DEF VA_TO_PA, Cell
<1> HIDE DEF h, q, p
<1>4. p \in Int
  BY <1>1, <1>2
<1>5. c \in Int /\ b \in 0..1
  BY <1>4, Halved
<1> HIDE DEF c, b
<1>6. p = 2 * c + b
  BY <1>4, <1>5, Halved DEF c, b
<1>7. p \in Nat /\ p < 2 * h
  BY <1>1, <1>2
<1>8. c \in 0..h - 1 /\ 2 * c \in 0..Half - 1
  BY <1>1, <1>5, <1>6, <1>7
<1>9. b = va % 2
  <2> DEFINE n == q * h
  <2>1. n \in Int /\ va = 2 * n + p
    BY <1>1, <1>2
  <2> HIDE DEF n
  <2>2. va = 2 * (n + c) + b
    BY <1>5, <1>6, <2>1
  <2>3. va \in Int /\ n + c \in Int
    BY <1>5, <2>1
  <2> QED  BY <1>5, <2>2, <2>3
<1>10. 0..Half - 1 \subseteq Word
  BY Sizes DEF Word
<1> QED  BY <1>2, <1>3, <1>5, <1>6, <1>8, <1>9, <1>10 DEF h

LEMMA WordsAndBytes ==
  /\ Word \subseteq Int
  /\ Byte \subseteq Word
  /\ 0 \in Word /\ 1 \in Word
<1> DEFINE B == ByteSize
<1>1. B \in Nat \ {0} /\ B * B = Modulus
  BY ByteSizes
<1> HIDE DEF B
<1>2. B <= B * B
  BY <1>1
<1>3. 0..B - 1 \subseteq 0..Modulus - 1
  BY <1>1, <1>2, Sizes
<1> QED  BY <1>3, Sizes, Halves DEF Word, Byte, B, ByteSize

\* Reading and writing keep the type of memory.
LEMMA ReadType ==
  ASSUME NEW m \in Memory, NEW va \in Int
  PROVE  read_word(m, va) \in Word /\ read_byte(m, va) \in Byte
<1>1. m[Cell(va)] \in Word
  BY Places DEF Memory
<1> QED  BY <1>1, BytesOfWord DEF read_word, read_byte

LEMMA WriteType ==
  ASSUME NEW m \in Memory, NEW va \in Int, NEW r
  PROVE  /\ \A v \in Word : write_word(r, m, va, v) \in Memory
         /\ \A b \in Byte : write_byte(r, m, va, b) \in Memory
<1>1. ASSUME NEW v \in Word PROVE write_word(r, m, va, v) \in Memory
  BY Places DEF Memory, write_word
<1>2. ASSUME NEW b \in Byte PROVE write_byte(r, m, va, b) \in Memory
  <2>1. m[Cell(va)] \in Word
    BY Places DEF Memory
  <2>2. Join(Left(m[Cell(va)]), b) \in Word /\ Join(b, Right(m[Cell(va)])) \in Word
    BY <2>1, BytesOfWord, WordOfBytes
  <2> QED  BY <1>1, <2>2 DEF write_byte
<1> QED  BY <1>1, <1>2

----------------------------------------------------------------------------
(* The registers. *)

LEMMA RegistersAreMachines == Machines(Registers)
BY DEF Machines, Registers

LEMMA RegisterTypesOf ==
  ASSUME NEW r \in Registers
  PROVE  /\ r.A \in Word /\ r.E \in Word /\ r.X \in Word
         /\ r.P \in Word /\ r.L \in Word /\ r.G \in Word
         /\ r.C \in Flag /\ r.OV \in Flag /\ r.MS \in Flag /\ r.PR \in Flag
         /\ r.MA \in Flag
         /\ r.MP \in SUBSET (0..Half - 1)
         /\ r.block \in [6..63 -> Word]
BY DEF Registers

LEMMA RegistersAssigned ==
  ASSUME NEW r \in Registers
  PROVE  /\ \A v \in Word : [r EXCEPT !.A = v] \in Registers
         /\ \A v \in Word : [r EXCEPT !.E = v] \in Registers
         /\ \A v \in Word : [r EXCEPT !.X = v] \in Registers
         /\ \A v \in Word : [r EXCEPT !.P = v] \in Registers
         /\ \A v \in Word : [r EXCEPT !.L = v] \in Registers
         /\ \A v \in Word : [r EXCEPT !.G = v] \in Registers
         /\ \A v, w \in Word : [r EXCEPT !.E = v, !.A = w] \in Registers
         /\ \A v, w \in Word : [r EXCEPT !.L = v, !.P = w] \in Registers
         /\ \A v, w \in Word : [r EXCEPT !.P = v, !.L = w] \in Registers
         /\ \A a, e \in Word, c \in Flag :
              [r EXCEPT !.A = a, !.E = e, !.C = c, !.OV = 0] \in Registers
         /\ \A a, e \in Word, S \in SUBSET (0..Half - 1) :
              [r EXCEPT !.A = a, !.E = e, !.MP = S] \in Registers
         /\ \A a \in Word, c, o \in Flag, S \in SUBSET (0..Half - 1) :
              [r EXCEPT !.A = a, !.C = c, !.OV = o, !.MP = S] \in Registers
         /\ \A v, w \in Word :
              [r EXCEPT !.MS = 1, !.PR = 1, !.L = v, !.P = w] \in Registers
         /\ \A v, w \in Word :
              [r EXCEPT !.MS = 1, !.PR = 1, !.MA = 1, !.L = v, !.P = w] \in Registers
         /\ \A p, a, s, o, c \in Flag :
              [r EXCEPT !.PR = p, !.MA = a, !.MS = s, !.OV = o, !.C = c] \in Registers
<1>1. \A v \in Word : [r EXCEPT !.A = v] \in Registers
  BY DEF Registers
<1>2. \A v \in Word : [r EXCEPT !.E = v] \in Registers
  BY DEF Registers
<1>3. \A v \in Word : [r EXCEPT !.X = v] \in Registers
  BY DEF Registers
<1>4. \A v \in Word : [r EXCEPT !.P = v] \in Registers
  BY DEF Registers
<1>5. \A v \in Word : [r EXCEPT !.L = v] \in Registers
  BY DEF Registers
<1>6. \A v \in Word : [r EXCEPT !.G = v] \in Registers
  BY DEF Registers
<1>7. \A v, w \in Word : [r EXCEPT !.E = v, !.A = w] \in Registers
  BY DEF Registers
<1>8. \A v, w \in Word : [r EXCEPT !.L = v, !.P = w] \in Registers
  BY DEF Registers
<1>9. \A v, w \in Word : [r EXCEPT !.P = v, !.L = w] \in Registers
  BY DEF Registers
<1>10. \A a, e \in Word, c \in Flag :
        [r EXCEPT !.A = a, !.E = e, !.C = c, !.OV = 0] \in Registers
  BY DEF Registers, Flag
<1>11. \A a, e \in Word, S \in SUBSET (0..Half - 1) :
        [r EXCEPT !.A = a, !.E = e, !.MP = S] \in Registers
  BY DEF Registers, Flag
<1>12. \A a \in Word, c, o \in Flag, S \in SUBSET (0..Half - 1) :
        [r EXCEPT !.A = a, !.C = c, !.OV = o, !.MP = S] \in Registers
  BY DEF Registers, Flag
<1>13. \A v, w \in Word :
        [r EXCEPT !.MS = 1, !.PR = 1, !.L = v, !.P = w] \in Registers
  BY DEF Registers, Flag
<1>14. \A v, w \in Word :
        [r EXCEPT !.MS = 1, !.PR = 1, !.MA = 1, !.L = v, !.P = w] \in Registers
  BY DEF Registers, Flag
<1>15. \A p, a, s, o, c \in Flag :
        [r EXCEPT !.PR = p, !.MA = a, !.MS = s, !.OV = o, !.C = c] \in Registers
  BY ZenonT(60) DEF Registers, Flag
<1> QED  BY <1>1, <1>2, <1>3, <1>4, <1>5, <1>6, <1>7, <1>8, <1>9, <1>10, <1>11, <1>12, <1>13, <1>14, <1>15

LEMMA GPrimeType ==
  ASSUME NEW r \in Registers
  PROVE  GPRIME(r) \in Word
BY RegisterTypesOf, WordsAndBytes DEF GPRIME

\* The five top bits of a word.
LEMMA IndicatorsType ==
  ASSUME NEW r \in Registers
  PROVE  /\ set_indicators(r) \in Word
         /\ \A w \in Word : load_indicators_from_block(r, w) \in Registers
<1> DEFINE a == Half \div 2
           b == Half \div 4
           c == Half \div 8
           d == Half \div 16
<1>1. /\ a \in Nat \ {0} /\ b \in Nat \ {0} /\ c \in Nat \ {0} /\ d \in Nat \ {0}
      /\ 2 * a <= Half /\ 2 * b <= a /\ 2 * c <= b /\ 2 * d <= c
  BY Halves
<1>2. /\ set_indicators(r) = Half * r.PR + a * r.MA + b * r.MS + c * r.OV + d * r.C
      /\ \A w : load_indicators_from_block(r, w)
                  = [r EXCEPT !.PR = w \div Half, !.MA = (w \div a) % 2,
                              !.MS = (w \div b) % 2, !.OV = (w \div c) % 2,
                              !.C = (w \div d) % 2]
  BY DEF set_indicators, load_indicators_from_block
<1> HIDE DEF a, b, c, d
<1>3. \A x \in Nat, f \in Flag : x * f \in Nat /\ x * f <= x
  BY DEF Flag
<1>4. /\ Half * r.PR \in Nat /\ Half * r.PR <= Half
      /\ a * r.MA \in Nat /\ a * r.MA <= a
      /\ b * r.MS \in Nat /\ b * r.MS <= b
      /\ c * r.OV \in Nat /\ c * r.OV <= c
      /\ d * r.C \in Nat /\ d * r.C <= d
  BY <1>1, <1>3, RegisterTypesOf, Halves
<1>5. set_indicators(r) \in Word
  <2> DEFINE p == Half * r.PR
             q == a * r.MA
             s == b * r.MS
             t == c * r.OV
             u == d * r.C
  <2>1. /\ p \in Nat /\ p <= Half /\ q \in Nat /\ q <= a /\ s \in Nat /\ s <= b
        /\ t \in Nat /\ t <= c /\ u \in Nat /\ u <= d
        /\ set_indicators(r) = p + q + s + t + u
    BY <1>2, <1>4
  <2> HIDE DEF p, q, s, t, u
  <2>2. p + q + s + t + u \in 0..2 * Half - 1
    BY <1>1, <2>1, Halves
  <2> QED  BY <2>1, <2>2 DEF Word, Modulus
<1>6. ASSUME NEW w \in Word
      PROVE  load_indicators_from_block(r, w) \in Registers
  <2>1. w \in Int
    BY WordsAndBytes
  <2>2. w \div Half \in Flag
    BY Bit DEF TopBit
  <2>3. w \div a \in Int /\ w \div b \in Int /\ w \div c \in Int /\ w \div d \in Int
    BY <1>1, <2>1
  <2>4. /\ (w \div a) % 2 \in Flag /\ (w \div b) % 2 \in Flag
        /\ (w \div c) % 2 \in Flag /\ (w \div d) % 2 \in Flag
    <3>1. \A n \in Int : n % 2 \in Flag
      BY Halved DEF Flag
    <3> QED  BY <2>3, <3>1
  <2>5. \A p, x, s, o, i \in Flag :
          [r EXCEPT !.PR = p, !.MA = x, !.MS = s, !.OV = o, !.C = i] \in Registers
    BY RegistersAssigned
  <2>6. [r EXCEPT !.PR = w \div Half, !.MA = (w \div a) % 2, !.MS = (w \div b) % 2,
                  !.OV = (w \div c) % 2, !.C = (w \div d) % 2] \in Registers
    BY <2>2, <2>4, <2>5, Zenon
  <2> QED  BY <1>2, <2>6, Zenon
<1> QED  BY <1>5, <1>6

LEMMA TrapType ==
  ASSUME NEW r \in Registers, NEW m \in Memory, NEW cause, NEW pc \in Int
  PROVE  /\ mitra_trap(r, m, cause, pc).mem \in Memory
         /\ mitra_trap(r, m, cause, pc).cpu \in Registers
<1> DEFINE w1 == BitOr(read_word(m, 2), Half \div 2^cause)
           w2 == VA_TO_PA(pc - GPRIME(r))
           w3 == VA_TO_PA(r.L - GPRIME(r))
           w4 == set_indicators(r)
           m1 == write_word(r, m, 2, w1)
           m2 == write_word(r, m1, 4, w2)
           m3 == write_word(r, m2, 6, w3)
           m4 == write_word(r, m3, 8, w4)
           prts == read_word(m4, 12)
           l == VA_TO_PA(read_word(m4, prts + 2) + r.G)
           p == VA_TO_PA(read_word(m4, prts) + r.G)
           called == [r EXCEPT !.MS = 1, !.PR = 1, !.MA = 1, !.L = l, !.P = p]
<1>1. /\ mitra_trap(r, m, cause, pc).mem = m4
      /\ mitra_trap(r, m, cause, pc).cpu = IF prts >= Half THEN r ELSE called
  BY DEF mitra_trap
<1>2. w1 \in Word /\ w2 \in Word /\ w3 \in Word /\ w4 \in Word
  <2>1. pc - GPRIME(r) \in Int /\ r.L - GPRIME(r) \in Int
    BY GPrimeType, RegisterTypesOf, WordsAndBytes
  <2> QED  BY <2>1, LogicalWords, Places, IndicatorsType
<1> HIDE DEF w1, w2, w3, w4
<1>3. /\ \A x \in Memory, va \in Int, v \in Word : write_word(r, x, va, v) \in Memory
      /\ 2 \in Int /\ 4 \in Int /\ 6 \in Int /\ 8 \in Int /\ 12 \in Int
  BY WriteType
<1>4. m1 \in Memory
  BY <1>2, <1>3, Zenon
<1> HIDE DEF m1
<1>5. m2 \in Memory
  BY <1>2, <1>3, <1>4, Zenon
<1> HIDE DEF m2
<1>6. m3 \in Memory
  BY <1>2, <1>3, <1>5, Zenon
<1> HIDE DEF m3
<1>10. m4 \in Memory
  BY <1>2, <1>3, <1>6, Zenon
<1> HIDE DEF m4
<1>7. prts \in Int
  <2>1. prts \in Word
    BY <1>3, <1>10, ReadType, Zenon
  <2> QED  BY <2>1, WordsAndBytes
<1> HIDE DEF prts
<1>8. l \in Word /\ p \in Word
  <2>1. prts + 2 \in Int
    BY <1>7
  <2>2. read_word(m4, prts + 2) \in Int /\ read_word(m4, prts) \in Int /\ r.G \in Int
    BY <1>10, <1>7, <2>1, ReadType, RegisterTypesOf, WordsAndBytes
  <2>3. /\ read_word(m4, prts + 2) + r.G \in Int
        /\ read_word(m4, prts) + r.G \in Int
    BY <2>2
  <2> QED  BY <2>3, Places
<1> HIDE DEF l, p
<1>9. called \in Registers
  <2>1. \A v, w \in Word :
          [r EXCEPT !.MS = 1, !.PR = 1, !.MA = 1, !.L = v, !.P = w] \in Registers
    BY RegistersAssigned
  <2> QED  BY <1>8, <2>1, Zenon
<1> HIDE DEF called
<1> QED  BY <1>1, <1>10, <1>9

----------------------------------------------------------------------------
(* One instruction. *)

\* The machine before an instruction.
Ready == TypeOK /\ Running

LEMMA ReadyTypes ==
  ASSUME Ready
  PROVE  /\ cpu \in Registers /\ mem \in Memory
         /\ cpu.A \in Int /\ cpu.E \in Nat /\ cpu.X \in Int
         /\ cpu.P \in Int /\ cpu.L \in Int /\ cpu.G \in Int /\ GPRIME(cpu) \in Int
         /\ state = "run" /\ steps \in 0..MaxSteps - 1
         /\ Fetched \in Registers /\ Fetched.P \in Int
<1>1. cpu \in Registers /\ mem \in Memory
  BY DEF Ready, TypeOK
<1>2. /\ cpu.A \in Int /\ cpu.E \in Nat /\ cpu.X \in Int
      /\ cpu.P \in Int /\ cpu.L \in Int /\ cpu.G \in Int /\ GPRIME(cpu) \in Int
  BY <1>1, RegisterTypesOf, WordsAndBytes, GPrimeType DEF Word
<1>3. state = "run" /\ steps \in 0..MaxSteps - 1
  BY BoundAssumption DEF Ready, TypeOK, Running
<1>4. Fetched \in Registers
  <2>1. (cpu.P + 2) % Modulus \in Word
    <3>1. cpu.P + 2 \in Int
      BY <1>2
    <3> QED  BY <3>1, Bit
  <2>2. \A v \in Word : [cpu EXCEPT !.P = v] \in Registers
    BY <1>1, RegistersAssigned
  <2> QED  BY <2>1, <2>2, Zenon DEF Fetched
<1>5. Fetched.P \in Int
  BY <1>4, RegisterTypesOf, WordsAndBytes
<1> QED  BY <1>1, <1>2, <1>3, <1>4, <1>5

LEMMA DisplacementType ==
  /\ \A d \in Displacements : d \in Word /\ d \in Int
BY RepertoireAssumption, WordsAndBytes DEF Displacements

LEMMA ExitType ==
  ASSUME Ready, Exit, steps' = steps + 1
  PROVE  TypeOK'
BY ReadyTypes, BoundAssumption DEF Exit, TypeOK

LEMMA TrappedType ==
  ASSUME Ready, NEW r \in Registers, NEW m \in Memory, NEW cause, NEW pc \in Word,
         Trapped(r, m, cause, pc), steps' = steps + 1
  PROVE  TypeOK'
<1> DEFINE t == mitra_trap(r, m, cause, pc)
<1>1. t.mem \in Memory /\ t.cpu \in Registers
  BY TrapType, WordsAndBytes
<1>2. CASE Exit
  BY <1>2, ExitType
<1>3. CASE ~Exit
  <2>1. /\ mem' = t.mem
        /\ cpu' = IF t.ok THEN t.cpu ELSE [r EXCEPT !.P = pc]
        /\ state' = IF t.ok THEN "run" ELSE "stop"
    BY <1>3 DEF Trapped
  <2>2. [r EXCEPT !.P = pc] \in Registers
    BY RegistersAssigned
  <2> HIDE DEF t
  <2> QED  BY <1>1, <2>1, <2>2, ReadyTypes, BoundAssumption DEF TypeOK
<1> QED  BY <1>2, <1>3

LEMMA DoneType ==
  ASSUME Ready, NEW read, NEW written, NEW r \in Registers, NEW m \in Memory,
         Done(read, written, r, m)
  PROVE  TypeOK'
<1>1. steps' = steps + 1
  BY DEF Done
<1>2. \/ Exit
      \/ Trapped(r, m, TRAP_PM, cpu.P)
      \/ cpu' = r /\ mem' = m /\ trap' = {} /\ UNCHANGED state
  BY DEF Done
<1>3. CASE Exit
  BY <1>1, <1>3, ExitType
<1>4. CASE Trapped(r, m, TRAP_PM, cpu.P)
  BY <1>1, <1>4, ReadyTypes, RegisterTypesOf, TrappedType
<1>5. CASE cpu' = r /\ mem' = m /\ trap' = {} /\ UNCHANGED state
  BY <1>1, <1>5, ReadyTypes, BoundAssumption DEF TypeOK
<1> QED  BY <1>2, <1>3, <1>4, <1>5

\* The registers with the bases and the mode they have before the instruction.
Local == {r \in Registers : r.L = cpu.L /\ r.G = cpu.G /\ r.MS = cpu.MS}

Finished == trap' = {} /\ state' = "run"

\* The instruction leaves L, G and the mode as they are, unless it is trapped;
\* a trap leaves G.
KeepsBases ==
  /\ Finished => cpu' \in Local
  /\ state' = "run" => cpu'.G = cpu.G

LEMMA LocalMachines ==
  /\ Machines(Local)
  /\ \A r \in Local : r \in Registers
  /\ Ready => Fetched \in Local /\ cpu \in Local
<1>1. Machines(Local)
  BY DEF Machines, Registers, Local
<1>2. ASSUME Ready PROVE Fetched \in Local
  BY <1>2, ReadyTypes DEF Local, Fetched, Registers
<1> QED  BY <1>1, <1>2, ReadyTypes DEF Local

LEMMA LocalAssigned ==
  ASSUME NEW r \in Local
  PROVE  /\ \A v \in Word : [r EXCEPT !.A = v] \in Local
         /\ \A v \in Word : [r EXCEPT !.E = v] \in Local
         /\ \A v \in Word : [r EXCEPT !.X = v] \in Local
         /\ \A v \in Word : [r EXCEPT !.P = v] \in Local
         /\ \A v, w \in Word : [r EXCEPT !.E = v, !.A = w] \in Local
         /\ \A a, e \in Word, c \in Flag :
              [r EXCEPT !.A = a, !.E = e, !.C = c, !.OV = 0] \in Local
         /\ \A a, e \in Word, S \in SUBSET (0..Half - 1) :
              [r EXCEPT !.A = a, !.E = e, !.MP = S] \in Local
         /\ \A a \in Word, c, o \in Flag, S \in SUBSET (0..Half - 1) :
              [r EXCEPT !.A = a, !.C = c, !.OV = o, !.MP = S] \in Local
<1>1. \A v \in Word : [r EXCEPT !.A = v] \in Local
  BY DEF Registers, Local
<1>2. \A v \in Word : [r EXCEPT !.E = v] \in Local
  BY DEF Registers, Local
<1>3. \A v \in Word : [r EXCEPT !.X = v] \in Local
  BY DEF Registers, Local
<1>4. \A v \in Word : [r EXCEPT !.P = v] \in Local
  BY DEF Registers, Local
<1>5. \A v, w \in Word : [r EXCEPT !.E = v, !.A = w] \in Local
  BY DEF Registers, Local
<1>6. \A a, e \in Word, c \in Flag :
        [r EXCEPT !.A = a, !.E = e, !.C = c, !.OV = 0] \in Local
  BY DEF Registers, Flag, Local
<1>7. \A a, e \in Word, S \in SUBSET (0..Half - 1) :
        [r EXCEPT !.A = a, !.E = e, !.MP = S] \in Local
  BY DEF Registers, Flag, Local
<1>8. \A a \in Word, c, o \in Flag, S \in SUBSET (0..Half - 1) :
        [r EXCEPT !.A = a, !.C = c, !.OV = o, !.MP = S] \in Local
  BY DEF Registers, Flag, Local
<1> QED  BY <1>1, <1>2, <1>3, <1>4, <1>5, <1>6, <1>7, <1>8

LEMMA TrapKeepsG ==
  ASSUME NEW r, "G" \in DOMAIN r, NEW m, NEW cause, NEW pc,
         Trapped(r, m, cause, pc), state' = "run"
  PROVE  cpu'.G = r.G
<1> DEFINE t == mitra_trap(r, m, cause, pc)
<1>1. cpu' = t.cpu
  BY DEF Trapped, Exit
<1>2. PICK l, p : t.cpu \in {r, [r EXCEPT !.MS = 1, !.PR = 1, !.MA = 1, !.L = l, !.P = p]}
  BY DEF mitra_trap
<1> HIDE DEF t
<1> QED  BY <1>1, <1>2

\* The end of an instruction that leaves the bases.
LEMMA DoneLocal ==
  ASSUME Ready, NEW read, NEW written, NEW r \in Local, NEW m \in Memory,
         Done(read, written, r, m)
  PROVE  TypeOK' /\ KeepsBases
<1>1. r \in Registers /\ r.G = cpu.G /\ "G" \in DOMAIN r
  BY DEF Local, Registers
<1>2. TypeOK'
  BY <1>1, DoneType
<1>3. \/ Exit
      \/ Trapped(r, m, TRAP_PM, cpu.P)
      \/ cpu' = r /\ trap' = {}
  BY DEF Done
<1>4. CASE Exit
  BY <1>2, <1>4 DEF Exit, KeepsBases, Finished
<1>5. CASE Trapped(r, m, TRAP_PM, cpu.P)
  <2>1. ~Finished
    BY <1>5 DEF Trapped, Exit, Finished
  <2> QED  BY <1>1, <1>2, <1>5, <2>1, TrapKeepsG DEF KeepsBases
<1>6. CASE cpu' = r /\ trap' = {}
  BY <1>1, <1>2, <1>6 DEF KeepsBases
<1> QED  BY <1>3, <1>4, <1>5, <1>6

LEMMA Reduces ==
  \A x \in Int : x % Modulus \in Word
BY Bit

LEMMA AddressType ==
  ASSUME Ready, NEW d \in Displacements
  PROVE  /\ \A form \in MemoryForms \cup {"P"} : TargetAddress(form, d) \in Word
         /\ \A form \in ParameterForms : Parameter(form, d) \in Word
         /\ \A form \in ParameterForms : LockAddress(form, d) \in Word
         /\ \A form \in BranchForms, x \in Int : BranchAddress(form, d, x) \in Word
<1>1. d \in Word /\ d \in Int
  BY DisplacementType
<1>2. /\ cpu.P \in Int /\ cpu.L \in Int /\ cpu.G \in Int /\ cpu.X \in Int
      /\ GPRIME(cpu) \in Int /\ cpu.L + d \in Int /\ cpu.G + d \in Int
  BY <1>1, ReadyTypes
<1>3. \A va \in Int : read_word(mem, va) \in Word /\ read_word(mem, va) \in Int
  BY ReadyTypes, ReadType, WordsAndBytes
<1>4. ASSUME NEW form \in MemoryForms \cup {"P"} PROVE TargetAddress(form, d) \in Word
  <2> DEFINE local == read_word(mem, cpu.L + d)
             general == read_word(mem, cpu.G + d)
  <2>1. local \in Int /\ general \in Int
    BY <1>2, <1>3
  <2>2. \E x \in {cpu.L + d, cpu.G + d, cpu.P, GPRIME(cpu) + local,
                  GPRIME(cpu) + local + cpu.X, cpu.G + general + cpu.X} :
          TargetAddress(form, d) = x % Modulus
    BY DEF TargetAddress, MemoryForms
  <2> HIDE DEF local, general
  <2>3. /\ GPRIME(cpu) + local \in Int /\ GPRIME(cpu) + local + cpu.X \in Int
        /\ cpu.G + general + cpu.X \in Int
    BY <1>2, <2>1
  <2> QED  BY <1>2, <2>2, <2>3, Reduces
<1>5. ASSUME NEW form \in ParameterForms PROVE Parameter(form, d) \in Word
  <2>1. d + cpu.X \in Int
    BY <1>1, <1>2
  <2> QED  BY <1>1, <1>2, <1>3, <2>1, Reduces DEF Parameter, ParameterForms
<1>6. ASSUME NEW form \in ParameterForms PROVE LockAddress(form, d) \in Word
  BY <1>2, <1>5, Reduces DEF LockAddress
<1>7. ASSUME NEW form \in BranchForms, NEW x \in Int
      PROVE  BranchAddress(form, d, x) \in Word
  <2> DEFINE local == read_word(mem, cpu.L + x + d)
             general == read_word(mem, cpu.G + x + d)
  <2>1. local \in Int /\ general \in Int
    <3>1. cpu.L + x + d \in Int /\ cpu.G + x + d \in Int
      BY <1>1, <1>2
    <3> QED  BY <1>3, <3>1
  <2>2. \E y \in {cpu.P + 2 * d + 2 * x, cpu.P - 2 * d - 2 * x,
                  GPRIME(cpu) + local, GPRIME(cpu) + general} :
          BranchAddress(form, d, x) = y % Modulus
    BY DEF BranchAddress, BranchForms
  <2> HIDE DEF local, general
  <2>3. /\ cpu.P + 2 * d + 2 * x \in Int /\ cpu.P - 2 * d - 2 * x \in Int
        /\ GPRIME(cpu) + local \in Int /\ GPRIME(cpu) + general \in Int
    BY <1>1, <1>2, <2>1
  <2> QED  BY <2>2, <2>3, Reduces
<1> QED  BY <1>4, <1>5, <1>6, <1>7

LEMMA MemoryType ==
  ASSUME Ready
  PROVE  /\ \A va \in Int : read_word(mem, va) \in Word /\ read_word(mem, va) \in Int
         /\ \A r : \A m \in Memory, va \in Int, v \in Word :
              write_word(r, m, va, v) \in Memory
         /\ \A x \in Word : x \in Int /\ x + 2 \in Int
<1>1. \A va \in Int : read_word(mem, va) \in Word /\ read_word(mem, va) \in Int
  BY ReadyTypes, ReadType, WordsAndBytes
<1>2. \A r : \A m \in Memory, va \in Int, v \in Word : write_word(r, m, va, v) \in Memory
  BY WriteType
<1>3. \A x \in Word : x \in Int /\ x + 2 \in Int
  BY WordsAndBytes
<1> QED  BY <1>1, <1>2, <1>3

LEMMA LoadWordType ==
  ASSUME TypeOK, LoadWord
  PROVE  TypeOK' /\ KeepsBases
<1>1. PICK op \in LoadOperations, form \in MemoryForms \cup {"P"}, d \in Displacements :
        /\ Running
        /\ LET y == TargetAddress(form, d)
               m == IF form = "P" THEN d ELSE read_word(mem, y)
           IN  \/ Done({}, {}, Fetched, mem)
               \/ Done(Pointers(form, d) \cup {y}, {},
                       Mem_OP_Reg_To_Reg(op, Fetched, m), mem)
  BY DEF LoadWord
<1> DEFINE y == TargetAddress(form, d)
           m == IF form = "P" THEN d ELSE read_word(mem, y)
           r == Mem_OP_Reg_To_Reg(op, Fetched, m)
<1>2. Ready
  BY <1>1 DEF Ready
<1>3. y \in Int
  BY <1>2, AddressType, WordsAndBytes
<1> HIDE DEF y
<1>4. m \in Word
  BY <1>2, <1>3, MemoryType, DisplacementType
<1> HIDE DEF m
<1>5. Fetched \in Local /\ mem \in Memory
  BY <1>2, ReadyTypes, LocalMachines
<1>6. r \in Local
  BY <1>4, <1>5, LocalMachines, LoadType
<1> HIDE DEF r
<1>7. \/ Done({}, {}, Fetched, mem)
      \/ Done(Pointers(form, d) \cup {y}, {}, r, mem)
  BY <1>1 DEF r, m, y
<1> QED  BY <1>2, <1>5, <1>6, <1>7, DoneLocal

LEMMA LoadAddressType ==
  ASSUME TypeOK, LoadAddress
  PROVE  TypeOK' /\ KeepsBases
<1>1. PICK form \in MemoryForms \cup {"P"}, d \in Displacements :
        /\ Running
        /\ LET y == TargetAddress(form, d)
               a == (y - cpu.G) % Modulus
           IN  Done(Pointers(form, d) \cup {y}, {},
                    set_condition_codes_load([Fetched EXCEPT !.A = a], a), mem)
  BY DEF LoadAddress
<1> DEFINE y == TargetAddress(form, d)
           a == (y - cpu.G) % Modulus
           s == [Fetched EXCEPT !.A = a]
           r == set_condition_codes_load(s, a)
<1>2. Ready
  BY <1>1 DEF Ready
<1>3. y - cpu.G \in Int
  <2>1. y \in Word
    BY <1>2, AddressType
  <2> HIDE DEF y
  <2> QED  BY <1>2, <2>1, ReadyTypes, WordsAndBytes
<1> HIDE DEF y
<1>4. a \in Word
  BY <1>3, Reduces
<1> HIDE DEF a
<1>5. Fetched \in Local /\ mem \in Memory
  BY <1>2, ReadyTypes, LocalMachines
<1>6. s \in Local
  BY <1>4, <1>5, LocalAssigned
<1> HIDE DEF s
<1>7. r \in Local
  BY <1>6, LocalMachines, LoadCodes
<1> HIDE DEF r
<1>8. Done(Pointers(form, d) \cup {y}, {}, r, mem)
  BY <1>1 DEF r, s, a, y
<1> QED  BY <1>2, <1>5, <1>7, <1>8, DoneLocal

LEMMA CompareStringType ==
  ASSUME TypeOK, CompareString
  PROVE  TypeOK' /\ KeepsBases
<1>1. PICK form \in MemoryForms \cup {"P"}, d \in Displacements :
        /\ Running
        /\ LET y == TargetAddress(form, d)
               Same(i) == read_byte(mem, cpu.G + cpu.A + i) = read_byte(mem, y)
               found == {i \in 0..cpu.E - 1 : Same(i)}
               at == IF found = {} THEN 0 ELSE Min(found)
           IN  Done(Pointers(form, d) \cup {y}, {},
                    [Fetched EXCEPT !.A = (cpu.G + @ + at) % Modulus,
                                    !.E = IF found = {} THEN 0 ELSE @ - at,
                                    !.C = Test(found = {}), !.OV = 0], mem)
  BY DEF CompareString
<1> DEFINE y == TargetAddress(form, d)
           found == {i \in 0..cpu.E - 1 :
                       read_byte(mem, cpu.G + cpu.A + i) = read_byte(mem, y)}
           at == IF found = {} THEN 0 ELSE Min(found)
           a == (cpu.G + Fetched.A + at) % Modulus
           e == IF found = {} THEN 0 ELSE Fetched.E - at
           c == Test(found = {})
           r == [Fetched EXCEPT !.A = a, !.E = e, !.C = c, !.OV = 0]
<1>2. Ready
  BY <1>1 DEF Ready
<1>3. /\ Fetched \in Local /\ mem \in Memory /\ cpu.E \in Nat
      /\ Fetched.E = cpu.E /\ cpu.G \in Int /\ Fetched.A \in Int /\ Fetched.E \in Word
  <2>1. Fetched.E = cpu.E
    BY <1>2, ReadyTypes DEF Fetched, Registers
  <2> QED  BY <1>2, <2>1, ReadyTypes, LocalMachines, RegisterTypesOf, WordsAndBytes
<1>4. at \in Nat /\ (found # {} => at \in 0..cpu.E - 1)
  <2>1. CASE found = {}
    BY <2>1
  <2>2. CASE found # {}
    <3>1. found \in SUBSET Nat
      BY <1>3
    <3> DEFINE S == found
    <3> HIDE DEF found
    <3>2. PICK m \in S : \A n \in S : m <= n
      BY <2>2, <3>1, Minimum
    <3>3. Min(S) \in S
      <4>1. Min(S) = CHOOSE x \in S : \A n \in S : x <= n
        BY DEF Min
      <4> HIDE DEF S
      <4> QED  BY <3>2, <4>1
    <3> QED  BY <2>2, <3>3, <1>3 DEF found
  <2> QED  BY <2>1, <2>2
<1> HIDE DEF at
<1>5. e \in Word
  <2>1. CASE found = {}
    BY <2>1, WordsAndBytes
  <2>2. CASE found # {}
    <3>1. e = cpu.E - at /\ at \in 0..cpu.E - 1 /\ cpu.E \in Word
      BY <1>3, <1>4, <2>2
    <3> HIDE DEF e, found
    <3> QED  BY <1>3, <3>1, Sizes DEF Word
  <2> QED  BY <2>1, <2>2
<1>6. a \in Word
  <2>1. cpu.G + Fetched.A + at \in Int
    BY <1>3, <1>4
  <2> QED  BY <2>1, Reduces
<1>7. c \in Flag
  BY Bit
<1> HIDE DEF e, a, c
<1>8. r \in Local
  <2>1. \A v, w \in Word, b \in Flag :
          [Fetched EXCEPT !.A = v, !.E = w, !.C = b, !.OV = 0] \in Local
    BY <1>3, LocalAssigned
  <2> QED  BY <1>5, <1>6, <1>7, <2>1, Zenon
<1> HIDE DEF r
<1>9. Done(Pointers(form, d) \cup {y}, {}, r, mem)
  BY <1>1 DEF r, a, e, c, at
<1> QED  BY <1>2, <1>3, <1>8, <1>9, DoneLocal

LEMMA DoubleLoadType ==
  ASSUME TypeOK, DoubleLoad
  PROVE  TypeOK' /\ KeepsBases
<1>1. PICK form \in MemoryForms, d \in Displacements :
        /\ Running
        /\ LET y == TargetAddress(form, d)
               e == read_word(mem, y)
           IN  Done(Pointers(form, d) \cup {y, y + 2}, {},
                    set_condition_codes_load(
                      [Fetched EXCEPT !.E = e, !.A = read_word(mem, y + 2)], e), mem)
  BY DEF DoubleLoad
<1> DEFINE y == TargetAddress(form, d)
           e == read_word(mem, y)
           a == read_word(mem, y + 2)
           s == [Fetched EXCEPT !.E = e, !.A = a]
           r == set_condition_codes_load(s, e)
<1>2. Ready
  BY <1>1 DEF Ready
<1>3. y \in Int /\ y + 2 \in Int
  BY <1>2, AddressType, MemoryType
<1> HIDE DEF y
<1>4. a \in Word /\ e \in Word
  BY <1>2, <1>3, MemoryType
<1> HIDE DEF a, e
<1>5. Fetched \in Local /\ mem \in Memory
  BY <1>2, ReadyTypes, LocalMachines
<1>6. s \in Local
  <2>1. \A v, w \in Word : [Fetched EXCEPT !.E = v, !.A = w] \in Local
    BY <1>5, LocalAssigned
  <2> QED  BY <1>4, <2>1, Zenon
<1> HIDE DEF s
<1>7. r \in Local
  BY <1>6, LocalMachines, LoadCodes
<1> HIDE DEF r
<1>8. Done(Pointers(form, d) \cup {y, y + 2}, {}, r, mem)
  BY <1>1 DEF r, s, e, a, y
<1> QED  BY <1>2, <1>5, <1>7, <1>8, DoneLocal

LEMMA StoreWordType ==
  ASSUME TypeOK, StoreWord
  PROVE  TypeOK' /\ KeepsBases
<1>1. PICK op \in StoreOperations, form \in MemoryForms, d \in Displacements :
        /\ Running
        /\ LET y == TargetAddress(form, d)
               m == read_word(mem, y)
           IN  Done(Pointers(form, d), {y}, AfterStore(op, Fetched, m),
                    write_word(cpu, mem, y, StoredValue(op, cpu, m)))
  BY DEF StoreWord
<1> DEFINE y == TargetAddress(form, d)
           m == read_word(mem, y)
           r == AfterStore(op, Fetched, m)
           v == StoredValue(op, cpu, m)
           after == write_word(cpu, mem, y, v)
<1>2. Ready
  BY <1>1 DEF Ready
<1>3. y \in Int
  BY <1>2, AddressType, MemoryType
<1> HIDE DEF y
<1>4. m \in Word
  BY <1>2, <1>3, MemoryType
<1> HIDE DEF m
<1>5. Fetched \in Local /\ cpu \in Local /\ mem \in Memory
  BY <1>2, ReadyTypes, LocalMachines
<1>6. r \in Local /\ v \in Word
  BY <1>4, <1>5, LocalMachines, StoreType
<1> HIDE DEF r, v
<1>7. after \in Memory
  BY <1>2, <1>3, <1>5, <1>6, MemoryType
<1> HIDE DEF after
<1>8. Done(Pointers(form, d), {y}, r, after)
  BY <1>1 DEF r, v, after, m, y
<1> QED  BY <1>2, <1>6, <1>7, <1>8, DoneLocal

LEMMA DoubleStoreType ==
  ASSUME TypeOK, DoubleStore
  PROVE  TypeOK' /\ KeepsBases
<1>1. PICK form \in MemoryForms, d \in Displacements :
        /\ Running
        /\ LET y == TargetAddress(form, d)
           IN  Done(Pointers(form, d), {y, y + 2}, Fetched,
                    write_word(cpu, write_word(cpu, mem, y, cpu.E), y + 2, cpu.A))
  BY DEF DoubleStore
<1> DEFINE y == TargetAddress(form, d)
           m == write_word(cpu, mem, y, cpu.E)
           after == write_word(cpu, m, y + 2, cpu.A)
<1>2. Ready
  BY <1>1 DEF Ready
<1>3. y \in Int /\ y + 2 \in Int
  BY <1>2, AddressType, MemoryType
<1> HIDE DEF y
<1>4. /\ Fetched \in Local /\ mem \in Memory
      /\ cpu.A \in Word /\ cpu.E \in Word
  BY <1>2, ReadyTypes, LocalMachines, RegisterTypesOf
<1>5. m \in Memory
  BY <1>2, <1>3, <1>4, MemoryType
<1> HIDE DEF m
<1>6. after \in Memory
  BY <1>2, <1>3, <1>4, <1>5, MemoryType
<1> HIDE DEF after
<1>7. Done(Pointers(form, d), {y, y + 2}, Fetched, after)
  BY <1>1 DEF after, m, y
<1> QED  BY <1>2, <1>4, <1>6, <1>7, DoneLocal

LEMMA StoreProgramAddressType ==
  ASSUME TypeOK, StoreProgramAddress
  PROVE  TypeOK' /\ KeepsBases
<1>1. PICK form \in MemoryForms, d \in Displacements :
        /\ Running
        /\ LET y == TargetAddress(form, d)
           IN  Done(Pointers(form, d), {y}, Fetched,
                    write_word(cpu, mem, y, (cpu.P + 4 + GPRIME(cpu)) % Modulus))
  BY DEF StoreProgramAddress
<1> DEFINE y == TargetAddress(form, d)
           v == (cpu.P + 4 + GPRIME(cpu)) % Modulus
           after == write_word(cpu, mem, y, v)
<1>2. Ready
  BY <1>1 DEF Ready
<1>3. y \in Int
  BY <1>2, AddressType, MemoryType
<1> HIDE DEF y
<1>4. Fetched \in Local /\ mem \in Memory
  BY <1>2, ReadyTypes, LocalMachines
<1>5. v \in Word
  <2>1. cpu.P + 4 + GPRIME(cpu) \in Int
    BY <1>2, ReadyTypes, LocalMachines
  <2> QED  BY <2>1, Reduces
<1> HIDE DEF v
<1>6. after \in Memory
  BY <1>2, <1>3, <1>4, <1>5, MemoryType
<1> HIDE DEF after
<1>7. Done(Pointers(form, d), {y}, Fetched, after)
  BY <1>1 DEF after, v, y
<1> QED  BY <1>2, <1>4, <1>6, <1>7, DoneLocal

LEMMA BranchType ==
  ASSUME TypeOK, Branch
  PROVE  TypeOK' /\ KeepsBases
<1>1. PICK op \in BranchOperations, form \in BranchForms, d \in Displacements :
        /\ Running
        /\ LET x == IF op = "BRX" THEN cpu.X ELSE 0
           IN  Done(Pointers(form, d) \cup {w + x : w \in Pointers(form, d)}, {},
                    IF Taken(op) THEN [cpu EXCEPT !.P = BranchAddress(form, d, x)]
                                 ELSE Fetched, mem)
  BY DEF Branch
<1> DEFINE x == IF op = "BRX" THEN cpu.X ELSE 0
           p == BranchAddress(form, d, x)
           to == [cpu EXCEPT !.P = p]
           r == IF Taken(op) THEN to ELSE Fetched
<1>2. Ready
  BY <1>1 DEF Ready
<1>3. x \in Int
  BY <1>2, ReadyTypes, LocalMachines
<1>4. p \in Word
  <2> HIDE DEF x
  <2> QED  BY <1>2, <1>3, AddressType
<1> HIDE DEF p
<1>5. Fetched \in Local /\ cpu \in Local /\ mem \in Memory
  BY <1>2, ReadyTypes, LocalMachines
<1>6. to \in Local
  BY <1>4, <1>5, LocalAssigned
<1> HIDE DEF to
<1>7. r \in Local
  BY <1>5, <1>6
<1> HIDE DEF r
<1>8. Done(Pointers(form, d) \cup {w + x : w \in Pointers(form, d)}, {}, r, mem)
  BY <1>1 DEF r, to, p
<1> QED  BY <1>2, <1>5, <1>7, <1>8, DoneLocal

LEMMA CallSectionType ==
  ASSUME TypeOK, CallSection
  PROVE  TypeOK'
<1>1. PICK form \in ParameterForms, d \in Displacements :
        /\ Running
        /\ LET entry == Entry(cpu.G, Parameter(form, d))
               lds == (read_word(mem, entry) + cpu.G) % Modulus
               linked == write_word(cpu, mem, lds, Link(cpu))
           IN  Done(ParameterWords(form, d) \cup {entry}, {lds, lds + 2},
                    [cpu EXCEPT !.L = lds,
                                !.P = (read_word(mem, entry + 2) + cpu.G) % Modulus],
                    write_word(cpu, linked, lds + 2, (cpu.L - GPRIME(cpu)) % Modulus))
  BY DEF CallSection
<1> DEFINE n == Parameter(form, d)
           entry == Entry(cpu.G, n)
           lds == (read_word(mem, entry) + cpu.G) % Modulus
           link == Link(cpu)
           linked == write_word(cpu, mem, lds, link)
           base == (cpu.L - GPRIME(cpu)) % Modulus
           after == write_word(cpu, linked, lds + 2, base)
           p == (read_word(mem, entry + 2) + cpu.G) % Modulus
           r == [cpu EXCEPT !.L = lds, !.P = p]
<1>2. Ready
  BY <1>1 DEF Ready
<1>3. /\ cpu \in Registers /\ mem \in Memory /\ cpu.G \in Int /\ cpu.L \in Int
      /\ cpu.P \in Int /\ GPRIME(cpu) \in Int
  BY <1>2, ReadyTypes
<1>4. entry \in Int /\ entry + 2 \in Int
  <2>1. n \in Int
    BY <1>2, AddressType, WordsAndBytes
  <2> HIDE DEF n
  <2>2. cpu.G - 4 * n \in Int
    BY <1>3, <2>1
  <2>3. entry \in Word
    BY <2>2, Reduces DEF Entry
  <2> HIDE DEF entry
  <2> QED  BY <1>2, <2>3, MemoryType
<1> HIDE DEF entry
<1>5. lds \in Word /\ p \in Word
  <2>1. read_word(mem, entry) \in Int /\ read_word(mem, entry + 2) \in Int
    BY <1>2, <1>4, MemoryType
  <2>2. read_word(mem, entry) + cpu.G \in Int /\ read_word(mem, entry + 2) + cpu.G \in Int
    BY <1>3, <2>1
  <2> QED  BY <2>2, Reduces
<1> HIDE DEF lds, p
<1>6. link \in Word /\ base \in Word
  <2>1. cpu.P - GPRIME(cpu) \in Int /\ cpu.L - GPRIME(cpu) \in Int
    BY <1>3
  <2> QED  BY <2>1, Reduces DEF Link
<1> HIDE DEF link, base
<1>7. lds \in Int /\ lds + 2 \in Int
  BY <1>2, <1>5, MemoryType
<1>8. linked \in Memory
  BY <1>2, <1>3, <1>6, <1>7, MemoryType
<1> HIDE DEF linked
<1>9. after \in Memory
  BY <1>2, <1>6, <1>7, <1>8, MemoryType
<1> HIDE DEF after
<1>10. r \in Registers
  <2>1. \A v, w \in Word : [cpu EXCEPT !.L = v, !.P = w] \in Registers
    BY <1>3, RegistersAssigned
  <2> QED  BY <1>5, <2>1, Zenon
<1> HIDE DEF r
<1>11. Done(ParameterWords(form, d) \cup {entry}, {lds, lds + 2}, r, after)
  BY <1>1 DEF r, after, linked, base, link, p, lds, entry
<1> QED  BY <1>2, <1>9, <1>10, <1>11, DoneType

LEMMA ReturnSectionType ==
  ASSUME TypeOK, ReturnSection
  PROVE  TypeOK'
<1> DEFINE p == (read_word(mem, cpu.L) + GPRIME(cpu) + 2) % Modulus
           l == (read_word(mem, cpu.L + 2) + GPRIME(cpu)) % Modulus
           r == [cpu EXCEPT !.P = p, !.L = l]
<1>1. Running /\ Done({cpu.L}, {}, r, mem)
  BY DEF ReturnSection
<1>2. Ready
  BY <1>1 DEF Ready
<1>3. cpu \in Registers /\ mem \in Memory /\ cpu.L \in Int /\ GPRIME(cpu) \in Int
  BY <1>2, ReadyTypes
<1>4. p \in Word /\ l \in Word
  <2>1. cpu.L + 2 \in Int
    BY <1>3
  <2>2. read_word(mem, cpu.L) \in Int /\ read_word(mem, cpu.L + 2) \in Int
    BY <1>2, <1>3, <2>1, MemoryType
  <2>3. /\ read_word(mem, cpu.L) + GPRIME(cpu) + 2 \in Int
        /\ read_word(mem, cpu.L + 2) + GPRIME(cpu) \in Int
    BY <1>3, <2>2
  <2> QED  BY <2>3, Reduces
<1> HIDE DEF p, l
<1>5. r \in Registers
  <2>1. \A v, w \in Word : [cpu EXCEPT !.P = v, !.L = w] \in Registers
    BY <1>3, RegistersAssigned
  <2> QED  BY <1>4, <2>1, Zenon
<1> HIDE DEF r
<1> QED  BY <1>1, <1>2, <1>3, <1>5, DoneType

\* The trap of a section out of bounds keeps the types.
LEMMA BoundTrapType ==
  ASSUME Ready, BoundTrap, steps' = steps + 1
  PROVE  TypeOK'
<1> DEFINE t == mitra_trap(Fetched, mem, TRAP_VM, Fetched.P)
<1>1. /\ Fetched \in Registers /\ Fetched.P \in Word
      /\ cpu \in Registers /\ cpu.P \in Word /\ mem \in Memory
  BY ReadyTypes, RegisterTypesOf
<1>2. t.mem \in Memory
  BY <1>1, TrapType, WordsAndBytes
<1>3. \/ Trapped(Fetched, mem, TRAP_VM, Fetched.P)
      \/ Trapped(Fetched, t.mem, TRAP_PM, cpu.P)
      \/ cpu' = Fetched /\ mem' = t.mem /\ UNCHANGED state
  BY DEF BoundTrap
<1> HIDE DEF t
<1>4. CASE Trapped(Fetched, mem, TRAP_VM, Fetched.P)
  BY <1>1, <1>4, TrappedType
<1>5. CASE Trapped(Fetched, t.mem, TRAP_PM, cpu.P)
  BY <1>1, <1>2, <1>5, TrappedType
<1>6. CASE cpu' = Fetched /\ mem' = t.mem /\ UNCHANGED state
  BY <1>1, <1>2, <1>6, ReadyTypes, BoundAssumption DEF TypeOK
<1> QED  BY <1>3, <1>4, <1>5, <1>6

LEMMA CallSupervisorType ==
  ASSUME TypeOK, CallSupervisor
  PROVE  TypeOK'
<1>1. PICK form \in ParameterForms, d \in Displacements :
        /\ Running
        /\ LET y == Parameter(form, d)
               m1 == write_word(cpu, mem, cpu.G, (cpu.P - cpu.G) % Modulus)
               m2 == write_word(cpu, m1, cpu.G + 2, (cpu.L - cpu.G) % Modulus)
               m3 == write_word(cpu, m2, cpu.G + 4, set_indicators(cpu))
               entry == Entry(read_word(m3, 12), y)
           IN  IF y >= read_word(mem, 14)
                 THEN /\ steps' = steps + 1
                      /\ IF \E va \in ParameterWords(form, d) \cup {cpu.P} : va % 2 = 1
                           THEN Exit
                         ELSE BoundTrap
                 ELSE Done(ParameterWords(form, d) \cup {entry},
                           {cpu.G, cpu.G + 2, cpu.G + 4},
                           [cpu EXCEPT !.MS = 1, !.PR = 1,
                                       !.L = read_word(m3, entry),
                                       !.P = read_word(m3, entry + 2)], m3)
  BY DEF CallSupervisor
<1> DEFINE y == Parameter(form, d)
           w1 == (cpu.P - cpu.G) % Modulus
           w2 == (cpu.L - cpu.G) % Modulus
           w3 == set_indicators(cpu)
           m1 == write_word(cpu, mem, cpu.G, w1)
           m2 == write_word(cpu, m1, cpu.G + 2, w2)
           m3 == write_word(cpu, m2, cpu.G + 4, w3)
           entry == Entry(read_word(m3, 12), y)
           l == read_word(m3, entry)
           p == read_word(m3, entry + 2)
           r == [cpu EXCEPT !.MS = 1, !.PR = 1, !.L = l, !.P = p]
<1>2. Ready
  BY <1>1 DEF Ready
<1>3. /\ cpu \in Registers /\ mem \in Memory
      /\ cpu.G \in Int /\ cpu.G + 2 \in Int /\ cpu.G + 4 \in Int
      /\ cpu.P - cpu.G \in Int /\ cpu.L - cpu.G \in Int
  BY <1>2, ReadyTypes
<1>4. w1 \in Word /\ w2 \in Word /\ w3 \in Word
  BY <1>3, Reduces, IndicatorsType
<1> HIDE DEF w1, w2, w3
<1>5. m1 \in Memory
  BY <1>2, <1>3, <1>4, MemoryType
<1> HIDE DEF m1
<1>6. m2 \in Memory
  BY <1>2, <1>3, <1>4, <1>5, MemoryType
<1> HIDE DEF m2
<1>7. m3 \in Memory
  BY <1>2, <1>3, <1>4, <1>6, MemoryType
<1> HIDE DEF m3
<1>8. entry \in Word
  <2> DEFINE table == read_word(m3, 12)
  <2>1. 12 \in Int
    OBVIOUS
  <2>2. table \in Int /\ y \in Int
    BY <1>2, <1>7, <2>1, ReadType, AddressType, WordsAndBytes
  <2> HIDE DEF table, y
  <2>3. table - 4 * y \in Int
    BY <2>2
  <2>4. entry = (table - 4 * y) % Modulus
    BY DEF Entry, table
  <2> HIDE DEF entry
  <2> QED  BY <2>3, <2>4, Reduces
<1> HIDE DEF entry
<1>9. l \in Word /\ p \in Word
  <2>1. entry \in Int /\ entry + 2 \in Int
    BY <1>2, <1>8, MemoryType
  <2> QED  BY <1>7, <2>1, ReadType
<1> HIDE DEF l, p
<1>10. r \in Registers
  <2>1. \A v, w \in Word : [cpu EXCEPT !.MS = 1, !.PR = 1, !.L = v, !.P = w] \in Registers
    BY <1>3, RegistersAssigned
  <2> QED  BY <1>9, <2>1, Zenon
<1> HIDE DEF r
<1>11. IF y >= read_word(mem, 14)
         THEN /\ steps' = steps + 1
              /\ Exit \/ BoundTrap
         ELSE Done(ParameterWords(form, d) \cup {entry},
                   {cpu.G, cpu.G + 2, cpu.G + 4}, r, m3)
  BY <1>1 DEF r, l, p, entry, m3, m2, m1, w1, w2, w3
<1>12. CASE steps' = steps + 1 /\ Exit
  BY <1>2, <1>12, ExitType
<1>13. CASE steps' = steps + 1 /\ BoundTrap
  BY <1>2, <1>13, BoundTrapType
<1>14. CASE Done(ParameterWords(form, d) \cup {entry},
                 {cpu.G, cpu.G + 2, cpu.G + 4}, r, m3)
  BY <1>2, <1>7, <1>10, <1>14, DoneType
<1> QED  BY <1>11, <1>12, <1>13, <1>14

LEMMA ReturnSupervisorType ==
  ASSUME TypeOK, ReturnSupervisor
  PROVE  TypeOK'
<1> DEFINE w == read_word(mem, cpu.G + 4)
           s == load_indicators_from_block(cpu, w)
           l == VA_TO_PA(cpu.G + read_word(mem, cpu.G + 2))
           p == VA_TO_PA(cpu.G + 2 + read_word(mem, cpu.G))
           r == [s EXCEPT !.L = l, !.P = p]
<1>1. Running /\ Done({cpu.G}, {}, r, mem)
  BY DEF ReturnSupervisor
<1>2. Ready
  BY <1>1 DEF Ready
<1>3. /\ cpu \in Registers /\ mem \in Memory
      /\ cpu.G \in Int /\ cpu.G + 2 \in Int /\ cpu.G + 4 \in Int
  BY <1>2, ReadyTypes
<1>4. w \in Word /\ read_word(mem, cpu.G + 2) \in Int /\ read_word(mem, cpu.G) \in Int
  BY <1>2, <1>3, MemoryType
<1>5. l \in Word /\ p \in Word
  <2>1. /\ cpu.G + read_word(mem, cpu.G + 2) \in Int
        /\ cpu.G + 2 + read_word(mem, cpu.G) \in Int
    BY <1>3, <1>4
  <2> QED  BY <2>1, Places
<1> HIDE DEF w, l, p
<1>6. s \in Registers
  BY <1>3, <1>4, IndicatorsType
<1> HIDE DEF s
<1>7. r \in Registers
  <2>1. \A u, v \in Word : [s EXCEPT !.L = u, !.P = v] \in Registers
    BY <1>6, RegistersAssigned
  <2> QED  BY <1>5, <2>1, Zenon
<1> HIDE DEF r
<1> QED  BY <1>1, <1>2, <1>3, <1>7, DoneType

LEMMA StepRegisterType ==
  ASSUME TypeOK, StepRegister
  PROVE  TypeOK'
<1>1. PICK op \in {"ICL", "DCL", "ICX", "DCX"}, form \in ParameterForms,
           d \in Displacements :
        /\ Running
        /\ LET r == Stepped(op, Fetched, Parameter(form, d))
           IN  Done(ParameterWords(form, d), {},
                    IF op \in {"ICX", "DCX"} THEN set_condition_codes_load(r, r.X)
                                             ELSE r, mem)
  BY DEF StepRegister
<1> DEFINE n == Parameter(form, d)
           r == Stepped(op, Fetched, n)
           s == IF op \in {"ICX", "DCX"} THEN set_condition_codes_load(r, r.X) ELSE r
<1>2. Ready
  BY <1>1 DEF Ready
<1>3. /\ Fetched \in Registers /\ mem \in Memory
      /\ Fetched.L \in Int /\ Fetched.X \in Int /\ n \in Int
  BY <1>2, ReadyTypes, RegisterTypesOf, AddressType, WordsAndBytes
<1> HIDE DEF n
<1>4. r \in Registers
  <2>1. /\ (Fetched.L + n) % Modulus \in Word /\ (Fetched.L - n) % Modulus \in Word
        /\ (Fetched.X + n) % Modulus \in Word /\ (Fetched.X - n) % Modulus \in Word
    <3>1. /\ Fetched.L + n \in Int /\ Fetched.L - n \in Int
          /\ Fetched.X + n \in Int /\ Fetched.X - n \in Int
      BY <1>3
    <3> QED  BY <3>1, Reduces
  <2>2. /\ \A v \in Word : [Fetched EXCEPT !.L = v] \in Registers
        /\ \A v \in Word : [Fetched EXCEPT !.X = v] \in Registers
    BY <1>3, RegistersAssigned
  <2>3. /\ [Fetched EXCEPT !.L = (@ + n) % Modulus] \in Registers
        /\ [Fetched EXCEPT !.L = (@ - n) % Modulus] \in Registers
        /\ [Fetched EXCEPT !.X = (@ + n) % Modulus] \in Registers
        /\ [Fetched EXCEPT !.X = (@ - n) % Modulus] \in Registers
    BY <2>1, <2>2, Zenon
  <2> QED  BY <2>3 DEF Stepped
<1> HIDE DEF r
<1>5. s \in Registers
  BY <1>4, RegistersAreMachines, LoadCodes
<1> HIDE DEF s
<1>6. Done(ParameterWords(form, d), {}, s, mem)
  BY <1>1 DEF s, r, n
<1> QED  BY <1>2, <1>3, <1>5, <1>6, DoneType

LEMMA ShiftTables ==
  \A p \in Int :
    /\ ShiftType(shr_types, p) \in ShiftTypes
    /\ ShiftType(shc_types, p) \in SpecialTypes \cup {"DITR"}
    /\ p % CountSpan \in Nat
<1> TAKE p \in Int
<1> DEFINE i == (p \div CountSpan) % 8
<1>1. p \div CountSpan \in Int /\ p % CountSpan \in Nat
  BY CountAssumption
<1>2. i \in 0..7
  <2> DEFINE q == p \div CountSpan
  <2>1. q \in Int
    BY <1>1
  <2> HIDE DEF q
  <2>2. q % 8 \in 0..7
    BY <2>1
  <2> QED  BY <2>2 DEF q
<1> HIDE DEF i
<1>3. i \in {0, 1, 2, 3, 4, 5, 6, 7}
  BY <1>2
<1>4. shr_types[1 + i] \in ShiftTypes
  BY <1>3 DEF shr_types, ShiftTypes
<1>5. shc_types[1 + i] \in SpecialTypes \cup {"DITR"}
  BY <1>3 DEF shc_types, SpecialTypes
<1> QED  BY <1>1, <1>4, <1>5 DEF ShiftType, i

LEMMA ParameterShiftType ==
  ASSUME TypeOK, ParameterShift
  PROVE  TypeOK' /\ KeepsBases
<1>1. PICK form \in ParameterForms, d \in Displacements :
        /\ Running
        /\ LET p == Parameter(form, d)
           IN  Done(ParameterWords(form, d), {},
                    ShiftRegister(ShiftType(shr_types, p), p % CountSpan, Fetched), mem)
  BY DEF ParameterShift
<1> DEFINE p == Parameter(form, d)
           type == ShiftType(shr_types, p)
           n == p % CountSpan
           r == ShiftRegister(type, n, Fetched)
<1>2. Ready
  BY <1>1 DEF Ready
<1>3. Fetched \in Local /\ mem \in Memory /\ p \in Int
  BY <1>2, ReadyTypes, LocalMachines, AddressType, WordsAndBytes
<1> HIDE DEF p
<1>4. type \in Positions /\ n \in Nat
  BY <1>3, ShiftTables DEF Positions, ShiftTypes
<1> HIDE DEF type, n
<1>5. r \in Local
  BY <1>3, <1>4, LocalMachines, ShiftRegisterType
<1> HIDE DEF r
<1>6. Done(ParameterWords(form, d), {}, r, mem)
  BY <1>1 DEF r, type, n, p
<1> QED  BY <1>2, <1>3, <1>5, <1>6, DoneLocal

LEMMA ParameterSpecialShiftType ==
  ASSUME TypeOK, ParameterSpecialShift
  PROVE  TypeOK' /\ KeepsBases
<1>1. PICK form \in ParameterForms, d \in Displacements :
        /\ Running
        /\ LET p == Parameter(form, d)
               type == ShiftType(shc_types, p)
               local == IF type = "DITR" THEN "unknown" ELSE type
           IN  Done(ParameterWords(form, d), {},
                    shift_instr(local, p % CountSpan, Fetched), mem)
  BY DEF ParameterSpecialShift
<1> DEFINE p == Parameter(form, d)
           type == ShiftType(shc_types, p)
           local == IF type = "DITR" THEN "unknown" ELSE type
           n == p % CountSpan
           r == shift_instr(local, n, Fetched)
<1>2. Ready
  BY <1>1 DEF Ready
<1>3. Fetched \in Local /\ mem \in Memory /\ p \in Int
  BY <1>2, ReadyTypes, LocalMachines, AddressType, WordsAndBytes
<1> HIDE DEF p
<1>4. type \in SpecialTypes \cup {"DITR"} /\ n \in Nat
  BY <1>3, ShiftTables
<1> HIDE DEF type, n
<1>5. local \in SpecialTypes
  BY <1>4 DEF SpecialTypes
<1> HIDE DEF local
<1>6. r \in Local
  BY <1>3, <1>4, <1>5, LocalMachines, ShiftInstrType
<1> HIDE DEF r
<1>7. Done(ParameterWords(form, d), {}, r, mem)
  BY <1>1 DEF r, local, type, n, p
<1> QED  BY <1>2, <1>3, <1>6, <1>7, DoneLocal

LEMMA ParameterRegisterType ==
  ASSUME TypeOK, ParameterRegister
  PROVE  TypeOK' /\ KeepsBases
<1>1. PICK form \in ParameterForms, d \in Displacements :
        /\ Running
        /\ LET type == srg_types[1 + ((Parameter(form, d) \div 2) % 16)]
           IN  Done(ParameterWords(form, d), {},
                    IF type \in RegisterTypes THEN set_register(type, Fetched)
                                              ELSE Fetched, mem)
  BY DEF ParameterRegister
<1> DEFINE type == srg_types[1 + ((Parameter(form, d) \div 2) % 16)]
           r == IF type \in RegisterTypes THEN set_register(type, Fetched) ELSE Fetched
<1>2. Ready
  BY <1>1 DEF Ready
<1>3. Fetched \in Local /\ mem \in Memory
  BY <1>2, ReadyTypes, LocalMachines
<1> HIDE DEF type
<1>4. r \in Local
  BY <1>3, LocalMachines, SetRegisterType
<1> HIDE DEF r
<1>5. Done(ParameterWords(form, d), {}, r, mem)
  BY <1>1 DEF r, type
<1> QED  BY <1>2, <1>3, <1>4, <1>5, DoneLocal

\* A register by its number.
LEMMA NumberedRegister ==
  ASSUME NEW r \in Registers, NEW n \in 0..63, NEW v \in Word
  PROVE  RegisterValue(r, n) \in Word /\ WithRegister(r, n, v) \in Registers
<1>1. Len(RegisterNames) = 6
  BY DEF RegisterNames
<1>2. CASE n \in 0..5
  <2>1. n \in {0, 1, 2, 3, 4, 5}
    BY <1>2
  <2> DEFINE name == RegisterNames[n + 1]
  <2>2. RegisterValue(r, n) = r[name] /\ WithRegister(r, n, v) = [r EXCEPT ![name] = v]
    BY <1>1, <1>2 DEF RegisterValue, WithRegister
  <2>3. name \in {"P", "L", "G", "A", "E", "X"}
    BY <2>1 DEF RegisterNames
  <2> HIDE DEF name
  <2>4. r[name] \in Word
    BY <2>3, RegisterTypesOf
  <2>5. [r EXCEPT ![name] = v] \in Registers
    BY <2>3 DEF Registers
  <2> QED  BY <2>2, <2>4, <2>5
<1>3. CASE n \notin 0..5
  <2>1. n \in 6..63 /\ ~(n < Len(RegisterNames))
    BY <1>1, <1>3
  <2>2. RegisterValue(r, n) = r.block[n] /\ WithRegister(r, n, v) = [r EXCEPT !.block[n] = v]
    BY <2>1 DEF RegisterValue, WithRegister
  <2> DEFINE b == [r.block EXCEPT ![n] = v]
  <2>3. b \in [6..63 -> Word]
    BY <2>1, RegisterTypesOf
  <2>4. [r EXCEPT !.block[n] = v] = [r EXCEPT !.block = b]
    OBVIOUS
  <2> HIDE DEF b
  <2>5. [r EXCEPT !.block = b] \in Registers
    BY <2>3 DEF Registers
  <2>6. r.block[n] \in Word
    BY <2>1, RegisterTypesOf
  <2> QED  BY <2>2, <2>4, <2>5, <2>6
<1> QED  BY <1>2, <1>3

LEMMA MoveRegisterType ==
  ASSUME TypeOK, MoveRegister
  PROVE  TypeOK'
<1>1. PICK op \in {"LDR", "STR"}, form \in ParameterForms, d \in Displacements :
        /\ Running
        /\ LET n == Parameter(form, d) % 64
               r == IF op = "LDR" THEN [Fetched EXCEPT !.A = RegisterValue(Fetched, n)]
                    ELSE WithRegister(Fetched, n, Fetched.A)
           IN  Done(ParameterWords(form, d), {},
                    IF op = "STR" /\ cpu.MS = 0 THEN Fetched
                    ELSE set_condition_codes_load(r, r.A), mem)
  BY DEF MoveRegister
<1> DEFINE p == Parameter(form, d)
           n == p % 64
           r == IF op = "LDR" THEN [Fetched EXCEPT !.A = RegisterValue(Fetched, n)]
                ELSE WithRegister(Fetched, n, Fetched.A)
           s == IF op = "STR" /\ cpu.MS = 0 THEN Fetched
                ELSE set_condition_codes_load(r, r.A)
<1>2. Ready
  BY <1>1 DEF Ready
<1>3. Fetched \in Registers /\ mem \in Memory /\ p \in Int
  BY <1>2, ReadyTypes, AddressType, WordsAndBytes
<1> HIDE DEF p
<1>4. n \in 0..63
  BY <1>3
<1> HIDE DEF n
<1>5. r \in Registers
  <2> DEFINE v == RegisterValue(Fetched, n)
  <2>1. v \in Word /\ WithRegister(Fetched, n, Fetched.A) \in Registers
    BY <1>3, <1>4, NumberedRegister, RegisterTypesOf
  <2> HIDE DEF v
  <2>2. [Fetched EXCEPT !.A = v] \in Registers
    BY <1>3, <2>1, RegistersAssigned
  <2> QED  BY <2>1, <2>2 DEF v
<1> HIDE DEF r
<1>6. s \in Registers
  BY <1>3, <1>5, RegistersAreMachines, LoadCodes
<1> HIDE DEF s
<1>7. Done(ParameterWords(form, d), {}, s, mem)
  BY <1>1 DEF s, r, n, p
<1> QED  BY <1>2, <1>3, <1>6, <1>7, DoneType

LEMMA TestAndSetType ==
  ASSUME TypeOK, TestAndSet
  PROVE  TypeOK' /\ KeepsBases
<1>1. PICK form \in ParameterForms, d \in Displacements :
        /\ Running
        /\ LET y == LockAddress(form, d)
           IN  Done({}, {y},
                    [Fetched EXCEPT !.A = read_word(mem, y), !.C = Test(y = 0),
                                    !.OV = Test(y > 0), !.MP = @ \ {VA_TO_PA(y)}],
                    write_word(cpu, mem, y, 0))
  BY DEF TestAndSet
<1> DEFINE y == LockAddress(form, d)
           a == read_word(mem, y)
           c == Test(y = 0)
           o == Test(y > 0)
           S == Fetched.MP \ {VA_TO_PA(y)}
           r == [Fetched EXCEPT !.A = a, !.C = c, !.OV = o, !.MP = S]
           after == write_word(cpu, mem, y, 0)
<1>2. Ready
  BY <1>1 DEF Ready
<1>3. Fetched \in Local /\ mem \in Memory /\ y \in Int
  BY <1>2, ReadyTypes, LocalMachines, AddressType, WordsAndBytes
<1>4. c \in Flag /\ o \in Flag
  BY Bit
<1> HIDE DEF y, c, o
<1>5. a \in Word /\ S \in SUBSET (0..Half - 1)
  BY <1>2, <1>3, MemoryType, RegisterTypesOf, LocalMachines
<1> HIDE DEF a, S
<1>6. r \in Local
  <2>1. \A v \in Word, e, b \in Flag, T \in SUBSET (0..Half - 1) :
          [Fetched EXCEPT !.A = v, !.C = e, !.OV = b, !.MP = T] \in Local
    BY <1>3, LocalAssigned
  <2> QED  BY <1>4, <1>5, <2>1, Zenon
<1>7. after \in Memory
  BY <1>2, <1>3, MemoryType, WordsAndBytes
<1> HIDE DEF r, after
<1>8. Done({}, {y}, r, after)
  BY <1>1 DEF r, after, a, c, o, S, y
<1> QED  BY <1>2, <1>6, <1>7, <1>8, DoneLocal

LEMMA LoadProtectionType ==
  ASSUME TypeOK, LoadProtection
  PROVE  TypeOK' /\ KeepsBases
<1>1. PICK form \in ParameterForms, d \in Displacements :
        /\ Running
        /\ LET y == LockAddress(form, d)
               Set(i) == LowBit(read_word(mem, cpu.A + 2 * i)) = 1
               loaded == {i \in 0..cpu.E - 1 : Set(i)}
           IN  IF cpu.MS = 0 THEN Done({}, {}, Fetched, mem)
               ELSE /\ y + 2 * cpu.E <= Half
                    /\ Done(IF cpu.E = 0 THEN {} ELSE {cpu.A}, {},
                            [Fetched EXCEPT
                               !.A = (@ + 2 * cpu.E) % Modulus,
                               !.E = Modulus - 1,
                               !.MP = (@ \ {y + 2 * i : i \in 0..cpu.E - 1})
                                        \cup {y + 2 * i : i \in loaded}], mem)
  BY DEF LoadProtection
<1> DEFINE y == LockAddress(form, d)
           loaded == {i \in 0..cpu.E - 1 : LowBit(read_word(mem, cpu.A + 2 * i)) = 1}
           a == (Fetched.A + 2 * cpu.E) % Modulus
           e == Modulus - 1
           S == (Fetched.MP \ {y + 2 * i : i \in 0..cpu.E - 1})
                  \cup {y + 2 * i : i \in loaded}
           r == [Fetched EXCEPT !.A = a, !.E = e, !.MP = S]
           read == IF cpu.E = 0 THEN {} ELSE {cpu.A}
<1>2. Ready
  BY <1>1 DEF Ready
<1>3. /\ Fetched \in Local /\ mem \in Memory /\ y \in Word
      /\ Fetched.A \in Int /\ cpu.E \in Nat
  BY <1>2, ReadyTypes, LocalMachines, AddressType, RegisterTypesOf, WordsAndBytes
<1>4. y \in Nat
  BY <1>3, Sizes DEF Word
<1> HIDE DEF y
<1>5. a \in Word /\ e \in Word
  <2>1. Fetched.A + 2 * cpu.E \in Int
    BY <1>3
  <2>2. e \in Word
    BY Sizes DEF Word
  <2> QED  BY <2>1, <2>2, Reduces
<1>6. CASE cpu.MS = 0
  BY <1>1, <1>2, <1>3, <1>6, DoneLocal
<1>7. CASE cpu.MS # 0
  <2>1. y + 2 * cpu.E <= Half /\ Done(read, {}, r, mem)
    BY <1>1, <1>7 DEF y
  <2>2. S \in SUBSET (0..Half - 1)
    <3>1. loaded \subseteq 0..cpu.E - 1
      OBVIOUS
    <3>2. \A i \in 0..cpu.E - 1 : y + 2 * i \in 0..Half - 1
      BY <1>3, <1>4, <2>1, Halves
    <3>3. Fetched.MP \in SUBSET (0..Half - 1)
      BY <1>3, RegisterTypesOf, LocalMachines
    <3> HIDE DEF loaded
    <3> QED  BY <3>1, <3>2, <3>3
  <2> HIDE DEF a, e, S
  <2>3. r \in Local
    <3>1. \A v, w \in Word, T \in SUBSET (0..Half - 1) :
            [Fetched EXCEPT !.A = v, !.E = w, !.MP = T] \in Local
      BY <1>3, LocalAssigned
    <3> QED  BY <1>5, <2>2, <3>1, Zenon
  <2> HIDE DEF r, read
  <2> QED  BY <1>2, <1>3, <2>1, <2>3, DoneLocal
<1> QED  BY <1>6, <1>7

LEMMA PrivilegedTrapType ==
  ASSUME TypeOK, PrivilegedTrap
  PROVE  TypeOK'
<1>1. /\ Running
      /\ steps' = steps + 1
      /\ Exit \/ Trapped(Fetched, mem, TRAP_VM, cpu.P)
  BY DEF PrivilegedTrap
<1>2. Ready
  BY <1>1 DEF Ready
<1>3. Fetched \in Registers /\ mem \in Memory /\ cpu.P \in Word
  BY <1>2, ReadyTypes, RegisterTypesOf
<1> QED  BY <1>1, <1>2, <1>3, ExitType, TrappedType

----------------------------------------------------------------------------
(* The strings. *)

\* Memory after each byte of a string.
Copies(f, from, to) ==
  /\ f \in [0..cpu.E -> Memory]
  /\ f[0] = mem
  /\ \A n \in 1..cpu.E :
       f[n] = write_byte(cpu, f[n - 1], to[n], read_byte(f[n - 1], from[n]))

LEMMA ByteByByte ==
  ASSUME Ready, NEW from \in [1..cpu.E -> Int], NEW to \in [1..cpu.E -> Int]
  PROVE  \E f : Copies(f, from, to) /\ Moves(from, to) = f[cpu.E]
<1> DEFINE N == cpu.E
           moved(m, n) == write_byte(cpu, m, to[n], read_byte(m, from[n]))
           step == [p \in Memory \X (1..N) |-> moved(p[1], p[2])]
           IsAfter(g) ==
             g = [n \in 0..N |-> IF n = 0 THEN mem ELSE moved(g[n - 1], n)]
           after == CHOOSE g : IsAfter(g)
<1>1. N \in Nat /\ mem \in Memory
  BY ReadyTypes
<1>2. \A m \in Memory, n \in 1..N : moved(m, n) \in Memory
  <2>1. \A n \in 1..N : from[n] \in Int /\ to[n] \in Int
    OBVIOUS
  <2>2. \A m \in Memory, va \in Int, b \in Byte : write_byte(cpu, m, va, b) \in Memory
    BY WriteType
  <2>3. \A m \in Memory, va \in Int : read_byte(m, va) \in Byte
    BY ReadType
  <2> QED  BY <2>1, <2>2, <2>3
<1>3. step \in Steps(Memory, N)
  <2> HIDE DEF moved, N
  <2> QED  BY <1>2 DEF Steps
<1>4. PICK f : Follows(f, Memory, mem, step, N)
  <2> HIDE DEF step, N
  <2> QED  BY <1>1, <1>3, Recursion
<1>5. /\ f \in [0..N -> Memory] /\ f[0] = mem
      /\ \A n \in 1..N : f[n] = moved(f[n - 1], n)
  <2> HIDE DEF moved, N
  <2>1. \A n \in 1..N : n - 1 \in 0..N
    BY <1>1
  <2> QED  BY <1>4, <2>1 DEF Follows
<1>6. 0..N = {0} \cup (1..N) /\ 0 \notin 1..N
  BY <1>1
<1>7. IsAfter(f)
  <2> HIDE DEF moved, N
  <2> QED  BY <1>5, <1>6
<1>8. IsAfter(after)
  <2> HIDE DEF IsAfter
  <2> QED  BY <1>7
<1>9. Moves(from, to) = after[N]
  BY DEF Moves
<1> HIDE DEF after
<1>10. after[0] = mem /\ \A n \in 1..N : after[n] = moved(after[n - 1], n)
  <2> HIDE DEF moved, N
  <2> QED  BY <1>6, <1>8
<1>11. after \in [0..N -> Memory]
  <2> HIDE DEF moved, N
  <2> DEFINE T == {n \in 0..N : after[n] \in Memory}
  <2>1. 0 \in T
    BY <1>1, <1>10
  <2>2. ASSUME NEW n \in 0..N - 1, n \in T PROVE n + 1 \in T
    <3>1. n + 1 \in 1..N /\ (n + 1) - 1 = n
      BY <1>1
    <3> QED  BY <1>2, <1>10, <2>2, <3>1
  <2>3. 0..N \subseteq T
    <3> HIDE DEF T
    <3> QED  BY <1>1, <2>1, <2>2, RangeInduction
  <2>4. after = [n \in 0..N |-> after[n]]
    BY <1>8
  <2> QED  BY <2>3, <2>4
<1> QED  BY <1>9, <1>10, <1>11 DEF Copies

\* Where the n-th byte moved comes from and goes to.
Sources == [n \in 1..cpu.E |-> cpu.G + cpu.A + cpu.E - n]
Destinations(y) == [n \in 1..cpu.E |-> y + cpu.E - n]

LEMMA StringPlaces ==
  ASSUME Ready, NEW y \in Int
  PROVE  /\ Sources \in [1..cpu.E -> Int]
         /\ Destinations(y) \in [1..cpu.E -> Int]
         /\ Moved(y) = Moves(Sources, Destinations(y))
<1>1. Moved(y) = Moves(Sources, Destinations(y))
  BY DEF Moved, Sources, Destinations
<1>2. /\ \A n \in 1..cpu.E : cpu.G + cpu.A + cpu.E - n \in Int
      /\ \A n \in 1..cpu.E : y + cpu.E - n \in Int
  BY ReadyTypes
<1> QED  BY <1>1, <1>2 DEF Sources, Destinations

LEMMA MoveStringType ==
  ASSUME TypeOK, MoveString
  PROVE  TypeOK' /\ KeepsBases
<1>1. PICK form \in MemoryForms, d \in Displacements :
        /\ Running
        /\ LET y == TargetAddress(form, d)
           IN  Done(Pointers(form, d), StringBytes(y),
                    [Fetched EXCEPT !.E = Modulus - 1], Moved(y))
  BY DEF MoveString
<1> DEFINE y == TargetAddress(form, d)
           r == [Fetched EXCEPT !.E = Modulus - 1]
<1>2. Ready
  BY <1>1 DEF Ready
<1>3. y \in Int
  BY <1>2, AddressType, WordsAndBytes
<1> HIDE DEF y
<1>4. r \in Local
  <2>1. Modulus - 1 \in Word /\ Fetched \in Local
    BY <1>2, ReadyTypes, LocalMachines, Sizes DEF Word
  <2>2. \A v \in Word : [Fetched EXCEPT !.E = v] \in Local
    BY <2>1, LocalAssigned
  <2> QED  BY <2>1, <2>2, Zenon
<1>5. Moved(y) \in Memory
  <2>1. PICK f : /\ Copies(f, Sources, Destinations(y))
                 /\ Moves(Sources, Destinations(y)) = f[cpu.E]
    BY <1>2, <1>3, StringPlaces, ByteByByte
  <2>2. cpu.E \in 0..cpu.E
    BY <1>2, ReadyTypes, LocalMachines
  <2> QED  BY <1>2, <1>3, <2>1, <2>2, StringPlaces DEF Copies
<1> HIDE DEF r
<1>6. Done(Pointers(form, d), StringBytes(y), r, Moved(y))
  BY <1>1 DEF r, y
<1> QED  BY <1>2, <1>4, <1>5, <1>6, DoneLocal

\* Memory after each byte of a string is translated.
Translates(f, table) ==
  /\ f \in [0..cpu.E -> Memory]
  /\ f[0] = mem
  /\ \A n \in 1..cpu.E :
       LET here == cpu.A + cpu.G + n - 1
       IN  f[n] = write_byte(cpu, f[n - 1], here,
                             read_byte(f[n - 1], table + read_byte(f[n - 1], here)))

LEMMA TranslationByByte ==
  ASSUME Ready, NEW table \in Int
  PROVE  \E f : Translates(f, table) /\ Translated(table) = f[cpu.E]
<1> DEFINE N == cpu.E
           here(n) == cpu.A + cpu.G + n - 1
           moved(m, n) == write_byte(cpu, m, here(n),
                                     read_byte(m, table + read_byte(m, here(n))))
           step == [p \in Memory \X (1..N) |-> moved(p[1], p[2])]
           IsAfter(g) ==
             g = [n \in 0..N |-> IF n = 0 THEN mem ELSE moved(g[n - 1], n)]
           after == CHOOSE g : IsAfter(g)
<1>1. N \in Nat /\ mem \in Memory
  BY ReadyTypes
<1>2. \A m \in Memory, n \in 1..N : moved(m, n) \in Memory
  <2>1. \A n \in 1..N : here(n) \in Int
    BY ReadyTypes
  <2>2. \A m \in Memory, va \in Int, b \in Byte : write_byte(cpu, m, va, b) \in Memory
    BY WriteType
  <2>3. \A m \in Memory, va \in Int : read_byte(m, va) \in Byte
    BY ReadType
  <2>4. \A m \in Memory, n \in 1..N : table + read_byte(m, here(n)) \in Int
    <3> HIDE DEF here
    <3>1. \A b \in Byte : table + b \in Int
      <4>1. \A b \in Byte : b \in Int
        BY WordsAndBytes
      <4> QED  BY <4>1
    <3> QED  BY <2>1, <2>3, <3>1
  <2> HIDE DEF here
  <2> QED  BY <2>1, <2>2, <2>3, <2>4
<1>3. step \in Steps(Memory, N)
  <2> HIDE DEF moved, N
  <2> QED  BY <1>2 DEF Steps
<1>4. PICK f : Follows(f, Memory, mem, step, N)
  <2> HIDE DEF step, N
  <2> QED  BY <1>1, <1>3, Recursion
<1>5. /\ f \in [0..N -> Memory] /\ f[0] = mem
      /\ \A n \in 1..N : f[n] = moved(f[n - 1], n)
  <2> HIDE DEF moved, N
  <2>1. \A n \in 1..N : n - 1 \in 0..N
    BY <1>1
  <2> QED  BY <1>4, <2>1 DEF Follows
<1>6. 0..N = {0} \cup (1..N) /\ 0 \notin 1..N
  BY <1>1
<1>7. IsAfter(f)
  <2> HIDE DEF moved, N
  <2> QED  BY <1>5, <1>6
<1>8. IsAfter(after)
  <2> HIDE DEF IsAfter
  <2> QED  BY <1>7
<1>9. Translated(table) = after[N]
  BY DEF Translated
<1> HIDE DEF after
<1>10. after[0] = mem /\ \A n \in 1..N : after[n] = moved(after[n - 1], n)
  <2> HIDE DEF moved, N
  <2> QED  BY <1>6, <1>8
<1>11. after \in [0..N -> Memory]
  <2> HIDE DEF moved, N
  <2> DEFINE T == {n \in 0..N : after[n] \in Memory}
  <2>1. 0 \in T
    BY <1>1, <1>10
  <2>2. ASSUME NEW n \in 0..N - 1, n \in T PROVE n + 1 \in T
    <3>1. n + 1 \in 1..N /\ (n + 1) - 1 = n
      BY <1>1
    <3> QED  BY <1>2, <1>10, <2>2, <3>1
  <2>3. 0..N \subseteq T
    <3> HIDE DEF T
    <3> QED  BY <1>1, <2>1, <2>2, RangeInduction
  <2>4. after = [n \in 0..N |-> after[n]]
    BY <1>8
  <2> QED  BY <2>3, <2>4
<1> QED  BY <1>9, <1>10, <1>11 DEF Translates

LEMMA TranslateStringType ==
  ASSUME TypeOK, TranslateString
  PROVE  TypeOK' /\ KeepsBases
<1>1. PICK form \in MemoryForms, d \in Displacements :
        /\ Running
        /\ LET y == TargetAddress(form, d)
           IN  Done(Pointers(form, d), StringBytes(cpu.A + cpu.G),
                    [Fetched EXCEPT !.E = 0], Translated(y))
  BY DEF TranslateString
<1> DEFINE y == TargetAddress(form, d)
           r == [Fetched EXCEPT !.E = 0]
<1>2. Ready
  BY <1>1 DEF Ready
<1>3. y \in Int
  BY <1>2, AddressType, WordsAndBytes
<1> HIDE DEF y
<1>4. r \in Local
  <2>1. 0 \in Word /\ Fetched \in Local
    BY <1>2, ReadyTypes, LocalMachines, WordsAndBytes
  <2>2. \A v \in Word : [Fetched EXCEPT !.E = v] \in Local
    BY <2>1, LocalAssigned
  <2> QED  BY <2>1, <2>2, Zenon
<1>5. Translated(y) \in Memory
  <2>1. PICK f : Translates(f, y) /\ Translated(y) = f[cpu.E]
    BY <1>2, <1>3, TranslationByByte
  <2>2. cpu.E \in 0..cpu.E
    BY <1>2, ReadyTypes, LocalMachines
  <2> QED  BY <2>1, <2>2 DEF Translates
<1> HIDE DEF r
<1>6. Done(Pointers(form, d), StringBytes(cpu.A + cpu.G), r, Translated(y))
  BY <1>1 DEF r, y
<1> QED  BY <1>2, <1>4, <1>5, <1>6, DoneLocal

----------------------------------------------------------------------------
(* The type invariant. *)

LEMMA TypeInitial == Init => TypeOK
BY StartAssumption, BoundAssumption DEF Init, TypeOK

LEMMA TypePreserved ==
  ASSUME TypeOK, Next
  PROVE  TypeOK'
<1>1. CASE Idle
  BY <1>1 DEF Idle, vars, TypeOK
<1> QED  BY <1>1, LoadWordType, LoadAddressType, CompareStringType, DoubleLoadType,
            StoreWordType, DoubleStoreType, StoreProgramAddressType, MoveStringType,
            TranslateStringType, BranchType, CallSectionType, ReturnSectionType,
            CallSupervisorType, ReturnSupervisorType, StepRegisterType,
            ParameterShiftType, ParameterSpecialShiftType, ParameterRegisterType,
            MoveRegisterType, TestAndSetType, LoadProtectionType, PrivilegedTrapType
         DEF Next

\* Every instruction keeps the registers and the words of memory in the width of
\* a word, through the strings, the traps and the shifts of any number of
\* positions.
THEOREM WordsStayWords == Spec => []TypeOK
<1>1. TypeOK /\ UNCHANGED vars => TypeOK'
  BY DEF TypeOK, vars
<1> QED  BY <1>1, TypeInitial, TypePreserved, PTL DEF Spec

----------------------------------------------------------------------------
(* The bytes of a string. *)

\* An address and the whole turns around memory it is away from its place.
LEMMA Turns ==
  ASSUME NEW x \in Int, NEW t \in Int, NEW p \in 0..Half - 1, x = t * Half + p
  PROVE  VA_TO_PA(x) = p
<1>1. Half \in Nat \ {0}
  BY Halves
<1>2. (t * Half + p) % Half = p
  BY <1>1, Divided
<1> QED  BY <1>2 DEF VA_TO_PA

LEMMA SamePlace ==
  ASSUME NEW x \in Int, NEW z \in Int, VA_TO_PA(x) = VA_TO_PA(z)
  PROVE  \E t \in Int : x = z + t * Half
<1> DEFINE q == x \div Half
           u == z \div Half
           p == VA_TO_PA(x)
           v == VA_TO_PA(z)
<1>1. Half \in Nat \ {0}
  BY Halves
<1>2. /\ q \in Int /\ u \in Int /\ p \in Int /\ v \in Int
      /\ x = q * Half + p /\ z = u * Half + v
  BY <1>1 DEF VA_TO_PA
<1> HIDE DEF q, u
<1>3. p = v
  OBVIOUS
<1> HIDE DEF p, v
<1>4. x = z + (q - u) * Half /\ q - u \in Int
  BY <1>1, <1>2, <1>3
<1> QED  BY <1>4

\* Two addresses less than a turn apart are two places.
LEMMA OtherPlace ==
  ASSUME NEW x \in Int, NEW z \in Int, x < z, z - x < Half
  PROVE  VA_TO_PA(x) # VA_TO_PA(z)
<1> SUFFICES ASSUME VA_TO_PA(x) = VA_TO_PA(z) PROVE FALSE
  OBVIOUS
<1>1. PICK t \in Int : z = x + t * Half
  BY SamePlace
<1>2. Half \in Nat \ {0}
  BY Halves
<1>3. t * Half = z - x
  BY <1>1, <1>2
<1>4. t <= 0 => t * Half <= 0
  BY <1>2
<1>5. t >= 1 => t * Half >= Half
  BY <1>2
<1> QED  BY <1>2, <1>3, <1>4, <1>5

\* A byte that is written is read back, and no other one changes.
LEMMA ByteWritten ==
  ASSUME NEW m \in Memory, NEW a \in Int, NEW b \in Int, NEW v \in Byte,
         NEW r, ~Refused(r, a)
  PROVE  read_byte(write_byte(r, m, a, v), b)
           = IF VA_TO_PA(a) = VA_TO_PA(b) THEN v ELSE read_byte(m, b)
<1> DEFINE w == m[Cell(a)]
           new == IF a % 2 = 1 THEN Join(Left(w), v) ELSE Join(v, Right(w))
           after == [m EXCEPT ![Cell(a)] = new]
<1>1. PICK x \in 0..1 : x = a % 2 /\ VA_TO_PA(a) = 2 * Cell(a) + x
  BY Places
<1>2. PICK y \in 0..1 : y = b % 2 /\ VA_TO_PA(b) = 2 * Cell(b) + y
  BY Places
<1>3. Cell(a) \in DOMAIN m /\ Cell(b) \in DOMAIN m /\ w \in Word
  BY Places DEF Memory
<1>4. Cell(a) \in Int /\ Cell(b) \in Int
  BY Places
<1>5. write_byte(r, m, a, v) = after
  BY DEF write_byte, write_word
<1>6. after[Cell(b)] = IF Cell(a) = Cell(b) THEN new ELSE m[Cell(b)]
  BY <1>3
<1>7. Left(w) \in Byte /\ Right(w) \in Byte
  BY <1>3, BytesOfWord
<1>8. /\ Left(Join(Left(w), v)) = Left(w) /\ Right(Join(Left(w), v)) = v
      /\ Left(Join(v, Right(w))) = v /\ Right(Join(v, Right(w))) = Right(w)
  BY <1>7, WordOfBytes
<1>9. read_byte(after, b) = IF y = 1 THEN Right(after[Cell(b)]) ELSE Left(after[Cell(b)])
  BY <1>2 DEF read_byte
<1>10. read_byte(m, b) = IF y = 1 THEN Right(m[Cell(b)]) ELSE Left(m[Cell(b)])
  BY <1>2 DEF read_byte
<1>11. new = IF x = 1 THEN Join(Left(w), v) ELSE Join(v, Right(w))
  BY <1>1
<1> HIDE DEF after, new
<1>12. CASE Cell(a) = Cell(b)
  <2>1. VA_TO_PA(a) = VA_TO_PA(b) <=> x = y
    BY <1>1, <1>2, <1>4, <1>12
  <2>2. w = m[Cell(b)]
    BY <1>12
  <2> HIDE DEF w
  <2>3. x \in {0, 1} /\ y \in {0, 1}
    OBVIOUS
  <2> QED  BY <1>5, <1>6, <1>8, <1>9, <1>10, <1>11, <1>12, <2>1, <2>2, <2>3
<1>13. CASE Cell(a) # Cell(b)
  <2>1. VA_TO_PA(a) # VA_TO_PA(b)
    <3>1. VA_TO_PA(a) = 2 * Cell(a) + x /\ VA_TO_PA(b) = 2 * Cell(b) + y
      BY <1>1, <1>2
    <3> DEFINE k == Cell(a)
               n == Cell(b)
    <3>2. k \in Int /\ n \in Int /\ k # n
      BY <1>4, <1>13
    <3>3. x \in 0..1 /\ y \in 0..1
      OBVIOUS
    <3> HIDE DEF k, n
    <3>4. 2 * k + x # 2 * n + y
      BY <3>2, <3>3
    <3> QED  BY <3>1, <3>4 DEF k, n
  <2> QED  BY <1>5, <1>6, <1>9, <1>10, <1>13, <2>1
<1> QED  BY <1>12, <1>13

\* The word of a byte has the lock of the byte.
LEMMA WordOfPlace ==
  ASSUME NEW va \in Int
  PROVE  Cell(2 * Cell(va)) = Cell(va)
<1> DEFINE c == Cell(va)
<1>1. c \in Int /\ 2 * c \in 0..Half - 1
  BY Places
<1> HIDE DEF c
<1>2. VA_TO_PA(2 * c) = 2 * c
  <2> DEFINE x == 2 * c
  <2>1. x \in Int /\ x \in 0..Half - 1
    BY <1>1, Halves
  <2> HIDE DEF x
  <2>2. x = 0 * Half + x /\ 0 \in Int
    BY <2>1, Halves
  <2>3. VA_TO_PA(x) = x
    BY <2>1, <2>2, Turns
  <2> QED  BY <2>3 DEF x
<1>3. (2 * c) \div 2 = c
  BY <1>1
<1> QED  BY <1>2, <1>3 DEF Cell, c

\* The names the instructions are recorded under.
LEMMA Recorded ==
  \A op, form, d : Is(op, form, d) => /\ last'.op = op
                                      /\ last'.form = form
                                      /\ last'.d = d
BY DEF Is

LEMMA Names ==
  /\ LoadWord => last'.op \in LoadOperations
  /\ LoadAddress => last'.op = "LEA"
  /\ CompareString => last'.op = "CPS"
  /\ DoubleLoad => last'.op = "DLD"
  /\ StoreWord => last'.op \in StoreOperations
  /\ DoubleStore => last'.op = "DST"
  /\ StoreProgramAddress => last'.op = "SPA"
  /\ MoveString => last'.op = "MVS"
  /\ TranslateString => last'.op = "TRS"
  /\ Branch => last'.op \in BranchOperations
  /\ CallSection => last'.op = "CLS"
  /\ ReturnSection => last'.op = "RTS"
  /\ CallSupervisor => last'.op = "CSV"
  /\ ReturnSupervisor => last'.op = "RSV"
  /\ StepRegister => last'.op \in {"ICL", "DCL", "ICX", "DCX"}
  /\ ParameterShift => last'.op = "SHR"
  /\ ParameterSpecialShift => last'.op = "SHC"
  /\ ParameterRegister => last'.op = "SRG"
  /\ MoveRegister => last'.op \in {"LDR", "STR"}
  /\ TestAndSet => last'.op = "TES"
  /\ LoadProtection => last'.op = "LDP"
  /\ PrivilegedTrap =>
       last'.op \in {"STR", "LDP", "TES", "CPS", "SRG", "SHC", "F4", "RSV"}
<1>1. LoadWord => last'.op \in LoadOperations
  BY Recorded DEF LoadWord
<1>2. LoadAddress => last'.op = "LEA"
  BY Recorded DEF LoadAddress
<1>3. CompareString => last'.op = "CPS"
  BY Recorded DEF CompareString
<1>4. DoubleLoad => last'.op = "DLD"
  BY Recorded DEF DoubleLoad
<1>5. StoreWord => last'.op \in StoreOperations
  BY Recorded DEF StoreWord
<1>6. DoubleStore => last'.op = "DST"
  BY Recorded DEF DoubleStore
<1>7. StoreProgramAddress => last'.op = "SPA"
  BY Recorded DEF StoreProgramAddress
<1>8. MoveString => last'.op = "MVS"
  BY Recorded DEF MoveString
<1>9. TranslateString => last'.op = "TRS"
  BY Recorded DEF TranslateString
<1>10. Branch => last'.op \in BranchOperations
  BY Recorded DEF Branch
<1>11. CallSection => last'.op = "CLS"
  BY Recorded DEF CallSection
<1>12. ReturnSection => last'.op = "RTS"
  BY Recorded DEF ReturnSection
<1>13. CallSupervisor => last'.op = "CSV"
  BY Recorded DEF CallSupervisor
<1>14. ReturnSupervisor => last'.op = "RSV"
  BY Recorded DEF ReturnSupervisor
<1>15. StepRegister => last'.op \in {"ICL", "DCL", "ICX", "DCX"}
  BY Recorded DEF StepRegister
<1>16. ParameterShift => last'.op = "SHR"
  BY Recorded DEF ParameterShift
<1>17. ParameterSpecialShift => last'.op = "SHC"
  BY Recorded DEF ParameterSpecialShift
<1>18. ParameterRegister => last'.op = "SRG"
  BY Recorded DEF ParameterRegister
<1>19. MoveRegister => last'.op \in {"LDR", "STR"}
  BY Recorded DEF MoveRegister
<1>20. TestAndSet => last'.op = "TES"
  BY Recorded DEF TestAndSet
<1>21. LoadProtection => last'.op = "LDP"
  BY Recorded DEF LoadProtection
<1>22. PrivilegedTrap => last'.op 
        \in {"STR", "LDP", "TES", "CPS", "SRG", "SHC", "F4", "RSV"}
  BY Recorded DEF PrivilegedTrap
<1> QED  BY <1>1, <1>2, <1>3, <1>4, <1>5, <1>6, <1>7, <1>8, <1>9, <1>10, <1>11, <1>12, <1>13, <1>14, <1>15, <1>16, <1>17, <1>18, <1>19, <1>20, <1>21, <1>22

\* Only MVS is recorded as MVS.
LEMMA OnlyMoveString ==
  ASSUME Next, last'.op = "MVS", steps' # steps
  PROVE  MoveString
<1>1. ~Idle
  BY DEF Idle, vars
<1> QED  BY <1>1, Names DEF Next, LoadOperations, StoreOperations, BranchOperations

\* What an instruction leaves when it is neither trapped nor the last one.
LEMMA Completed ==
  ASSUME NEW read, NEW written, NEW r, NEW m, Done(read, written, r, m),
         trap' = {}, state' = "run"
  PROVE  /\ cpu' = r /\ mem' = m
         /\ \A va \in written : ~Refused(cpu, va)
<1>1. ~Exit
  BY DEF Exit
<1>2. ~Trapped(r, m, TRAP_PM, cpu.P)
  BY <1>1 DEF Trapped
<1> QED  BY <1>1, <1>2 DEF Done

\* The bytes moved when n of them are: those from k on are at their destination,
\* the source of the others is as it was.
MovedSoFar(f, y, n) ==
  \A i \in 0..cpu.E - 1 :
    /\ i >= cpu.E - n => read_byte(f[n], y + i) = read_byte(mem, cpu.G + cpu.A + i)
    /\ i < cpu.E - n => read_byte(f[n], cpu.G + cpu.A + i)
                          = read_byte(mem, cpu.G + cpu.A + i)

\* The source starts inside the destination, behind its first byte.
SourceInside(y) == VA_TO_PA((cpu.G + cpu.A) - y) \in 1..cpu.E - 1

LEMMA OneMoreByte ==
  ASSUME Ready, NEW y \in Int, NEW f, Copies(f, Sources, Destinations(y)),
         cpu.E <= Half,
         ~SourceInside(y),
         \A va \in StringBytes(y) : ~Refused(cpu, va),
         NEW n \in 0..cpu.E - 1, MovedSoFar(f, y, n)
  PROVE  MovedSoFar(f, y, n + 1)
<1> DEFINE N == cpu.E
           s == cpu.G + cpu.A
           k == N - (n + 1)
           m == f[n]
           v == read_byte(m, s + k)
<1>1. /\ N \in Nat /\ s \in Int /\ k \in 0..N - 1 /\ n \in 0..N /\ n + 1 \in 1..N
      /\ (n + 1) - 1 = n
  BY ReadyTypes
<1>2. f[n + 1] = write_byte(cpu, m, y + k, v)
  <2>1. Sources[n + 1] = s + k /\ Destinations(y)[n + 1] = y + k
    <3>1. /\ cpu.G + cpu.A + cpu.E - (n + 1) = s + k
          /\ y + cpu.E - (n + 1) = y + k
      BY <1>1, ReadyTypes
    <3> QED  BY <1>1, <3>1 DEF Sources, Destinations
  <2>2. f[n + 1] = write_byte(cpu, f[n], Destinations(y)[n + 1],
                              read_byte(f[n], Sources[n + 1]))
    BY <1>1 DEF Copies
  <2> QED  BY <2>1, <2>2
<1>3. m \in Memory
  BY <1>1 DEF Copies
<1>4. y + k \in Int /\ s + k \in Int
  BY <1>1
<1>5. v \in Byte
  BY <1>3, <1>4, ReadType
<1>6. ~Refused(cpu, y + k)
  <2>1. 2 * Cell(y + k) \in StringBytes(y)
    BY <1>1 DEF StringBytes
  <2>2. ~Refused(cpu, 2 * Cell(y + k))
    BY <2>1
  <2> QED  BY <1>4, <2>2, WordOfPlace DEF Refused
<1> HIDE DEF m, v
<1>7. \A b \in Int : read_byte(f[n + 1], b)
                       = IF VA_TO_PA(y + k) = VA_TO_PA(b) THEN v ELSE read_byte(m, b)
  BY <1>2, <1>3, <1>4, <1>5, <1>6, ByteWritten
<1>8. v = read_byte(mem, s + k)
  <2>1. k < cpu.E - n
    BY <1>1
  <2> QED  BY <1>1, <2>1 DEF MovedSoFar, m, v
<1>9. ASSUME NEW i \in 0..N - 1, i >= N - (n + 1)
      PROVE  read_byte(f[n + 1], y + i) = read_byte(mem, s + i)
  <2>1. i \in Int /\ y + i \in Int
    BY <1>1
  <2>2. CASE i = k
    BY <1>7, <1>8, <2>1, <2>2
  <2>3. CASE i # k
    <3>1. i > k /\ i >= N - n
      BY <1>1, <1>9, <2>3
    <3>2. VA_TO_PA(y + k) # VA_TO_PA(y + i)
      <4>1. y + k < y + i /\ (y + i) - (y + k) < Half
        BY <1>1, <3>1, Halves
      <4> DEFINE a == y + k
                 b == y + i
      <4>2. a \in Int /\ b \in Int /\ a < b /\ b - a < Half
        BY <1>4, <2>1, <4>1
      <4> HIDE DEF a, b
      <4>3. VA_TO_PA(a) # VA_TO_PA(b)
        BY <4>2, OtherPlace
      <4> QED  BY <4>3 DEF a, b
    <3>3. read_byte(m, y + i) = read_byte(mem, s + i)
      BY <3>1 DEF MovedSoFar, m
    <3> QED  BY <1>7, <2>1, <3>2, <3>3
  <2> QED  BY <2>2, <2>3
<1>10. ASSUME NEW i \in 0..N - 1, i < N - (n + 1)
       PROVE  read_byte(f[n + 1], s + i) = read_byte(mem, s + i)
  <2>1. i \in Int /\ s + i \in Int /\ i < k /\ i < N - n
    BY <1>1, <1>10
  <2>2. VA_TO_PA(y + k) # VA_TO_PA(s + i)
    <3> SUFFICES ASSUME VA_TO_PA(y + k) = VA_TO_PA(s + i) PROVE FALSE
      OBVIOUS
    <3>1. PICK t \in Int : s + i = (y + k) + t * Half
      BY <1>4, <2>1, SamePlace
    <3>2. t * Half \in Int
      BY <3>1, Halves
    <3>3. s - y = t * Half + (k - i)
      <4> DEFINE z == t * Half
      <4>1. z \in Int /\ s + i = (y + k) + z /\ y \in Int /\ k \in Int
        BY <1>1, <3>1, <3>2
      <4> HIDE DEF z, s, k
      <4>2. s - y = z + (k - i)
        BY <1>1, <2>1, <4>1
      <4> QED  BY <4>2 DEF z
    <3>4. k - i \in 1..N - 1 /\ k - i \in 0..Half - 1 /\ s - y \in Int
      BY <1>1, <2>1, Halves
    <3> DEFINE p == k - i
               x == s - y
    <3>5. x \in Int /\ p \in 0..Half - 1 /\ x = t * Half + p
      BY <3>3, <3>4
    <3> HIDE DEF p, x
    <3>6. VA_TO_PA(x) = p
      BY <3>1, <3>5, Turns
    <3>7. SourceInside(y)
      BY <3>4, <3>6 DEF p, x, SourceInside
    <3> QED  BY <3>7
  <2>3. read_byte(m, s + i) = read_byte(mem, s + i)
    BY <2>1 DEF MovedSoFar, m
  <2> QED  BY <1>7, <2>1, <2>2, <2>3
<1> QED  BY <1>9, <1>10 DEF MovedSoFar

\* The string is copied, as in StringCopied.
LEMMA AllBytes ==
  ASSUME Ready, NEW y \in Int, cpu.E <= Half, ~SourceInside(y),
         \A va \in StringBytes(y) : ~Refused(cpu, va)
  PROVE  \A i \in 0..cpu.E - 1 :
           read_byte(Moved(y), y + i) = read_byte(mem, cpu.G + cpu.A + i)
<1>1. PICK f : Copies(f, Sources, Destinations(y)) /\ Moved(y) = f[cpu.E]
  BY StringPlaces, ByteByByte
<1> DEFINE T == {n \in 0..cpu.E : MovedSoFar(f, y, n)}
<1>2. cpu.E \in Nat
  BY ReadyTypes
<1>3. 0 \in T
  <2>1. f[0] = mem
    BY <1>1 DEF Copies
  <2>2. \A i \in 0..cpu.E - 1 : ~(i >= cpu.E - 0)
    BY <1>2
  <2>3. MovedSoFar(f, y, 0)
    BY <2>1, <2>2 DEF MovedSoFar
  <2> QED  BY <1>2, <2>3
<1>4. ASSUME NEW n \in 0..cpu.E - 1, n \in T PROVE n + 1 \in T
  BY <1>1, <1>2, <1>4, OneMoreByte
<1>5. cpu.E \in T
  <2>1. cpu.E \in 0..cpu.E
    BY <1>2
  <2> HIDE DEF T
  <2> QED  BY <1>2, <1>3, <1>4, <2>1, RangeInduction
<1>6. \A i \in 0..cpu.E - 1 : i >= cpu.E - cpu.E
  BY <1>2
<1> QED  BY <1>1, <1>5, <1>6 DEF MovedSoFar

LEMMA StringStep ==
  ASSUME TypeOK, Next, last'.op = "MVS", steps' # steps, trap' = {}, state' = "run",
         cpu.E <= Half,
         VA_TO_PA((cpu.G + cpu.A + 0) - (TargetAddress(last'.form, last'.d) + 0))
           \notin 1..cpu.E - 1
  PROVE  \A i \in 0..cpu.E - 1 :
           read_byte(mem', TargetAddress(last'.form, last'.d) + i)
             = read_byte(mem, cpu.G + cpu.A + i)
<1>1. PICK form \in MemoryForms, d \in Displacements :
        /\ Running
        /\ Is("MVS", form, d)
        /\ LET y == TargetAddress(form, d)
           IN  Done(Pointers(form, d), StringBytes(y),
                    [Fetched EXCEPT !.E = Modulus - 1], Moved(y))
  BY OnlyMoveString DEF MoveString
<1> DEFINE y == TargetAddress(form, d)
<1>2. Ready
  BY <1>1 DEF Ready
<1>3. y \in Int
  BY <1>2, AddressType, WordsAndBytes
<1>4. TargetAddress(last'.form, last'.d) = y
  BY <1>1, Recorded
<1> HIDE DEF y
<1>5. mem' = Moved(y) /\ \A va \in StringBytes(y) : ~Refused(cpu, va)
  BY <1>1, Completed DEF y
<1>6. (cpu.G + cpu.A + 0) - (y + 0) = (cpu.G + cpu.A) - y
  BY <1>2, <1>3, ReadyTypes
<1>7. ~SourceInside(y)
  BY <1>4, <1>6 DEF SourceInside
<1> QED  BY <1>2, <1>3, <1>4, <1>5, <1>7, AllBytes

\* MVS copies its string as StringCopied says, for strings of every length, at
\* every place of memory, by the induction of string_proc on the bytes moved.
THEOREM StringsAreCopied == Spec => StringCopied
<1>1. ASSUME TypeOK, [Next]_vars
      PROVE  [LET Source(i) == cpu.G + cpu.A + i
                  To(i) == TargetAddress(last'.form, last'.d) + i
                  Behind == VA_TO_PA(Source(0) - To(0)) \in 1..cpu.E - 1
              IN  /\ last'.op = "MVS" /\ steps' # steps /\ trap' = {} /\ state' = "run"
                  /\ cpu.E <= Half /\ ~Behind
                  => \A i \in 0..cpu.E - 1 :
                       read_byte(mem', To(i)) = read_byte(mem, Source(i))]_vars
  BY <1>1, StringStep
<1> QED  BY <1>1, WordsStayWords, PTL DEF Spec, StringCopied

----------------------------------------------------------------------------
(* The calls. *)

\* The word of the last SPA, which a master subroutine returns through.
CallInv ==
  \A c \in call : /\ c.cell \in 0..(Half \div 2) - 1
                  /\ c.P \in Word
                  /\ c.MS = 1 => mem[c.cell] = c.P

\* The instructions by their names.
LEMMA Actions ==
  ASSUME Next, ~Idle
  PROVE  /\ last'.op = "SPA" => StoreProgramAddress
         /\ last'.op = "BRU" => Branch
         /\ last'.op = "CLS" => CallSection
         /\ last'.op = "RTS" => ReturnSection
         /\ last'.op = "CSV" => CallSupervisor
         /\ last'.op = "RSV" => ReturnSupervisor \/ PrivilegedTrap
BY Names DEF Next, LoadOperations, StoreOperations, BranchOperations

\* What an instruction leaves that is neither trapped nor the last one.
LEMMA Complete ==
  ASSUME NEW read, NEW written, NEW r, NEW m, Done(read, written, r, m), Finished
  PROVE  /\ cpu' = r /\ mem' = m
         /\ \A va \in written : ~Refused(cpu, va)
BY Completed DEF Finished

LEMMA PrivilegedIsTrapped == PrivilegedTrap => ~Finished
BY DEF PrivilegedTrap, Finished, Trapped, Exit

LEMMA WordWritten ==
  ASSUME NEW r, NEW m \in Memory, NEW va \in Int, NEW v, ~Refused(r, va)
  PROVE  /\ write_word(r, m, va, v)[Cell(va)] = v
         /\ \A c : c # Cell(va) => write_word(r, m, va, v)[c] = m[c]
<1>1. write_word(r, m, va, v) = [m EXCEPT ![Cell(va)] = v]
  BY DEF write_word
<1>2. Cell(va) \in DOMAIN m
  BY Places DEF Memory
<1> HIDE DEF Cell
<1> QED  BY <1>1, <1>2

LEMMA AddressStored ==
  ASSUME TypeOK, Next, ~Idle, last'.op = "SPA", Finished
  PROVE  /\ TargetAddress(last'.form, last'.d) \in Int
         /\ mem'[Cell(TargetAddress(last'.form, last'.d))]
              = (cpu.P + 4 + GPRIME(cpu)) % Modulus
<1>1. PICK form \in MemoryForms, d \in Displacements :
        /\ Running
        /\ Is("SPA", form, d)
        /\ LET y == TargetAddress(form, d)
           IN  Done(Pointers(form, d), {y}, Fetched,
                    write_word(cpu, mem, y, (cpu.P + 4 + GPRIME(cpu)) % Modulus))
  BY Actions DEF StoreProgramAddress
<1> DEFINE y == TargetAddress(form, d)
           v == (cpu.P + 4 + GPRIME(cpu)) % Modulus
<1>2. Ready
  BY <1>1 DEF Ready
<1>3. y \in Int
  BY <1>2, AddressType, WordsAndBytes
<1>4. TargetAddress(last'.form, last'.d) = y
  BY <1>1, Recorded
<1>5. mem' = write_word(cpu, mem, y, v) /\ ~Refused(cpu, y)
  BY <1>1, Complete
<1> HIDE DEF y, v
<1>6. mem'[Cell(y)] = v
  BY <1>2, <1>3, <1>5, ReadyTypes, WordWritten
<1> QED  BY <1>3, <1>4, <1>6 DEF v

\* A step of the program with its stack.
Step == Next /\ ~Idle /\ Disciplined /\ Follow /\ FollowCall

LEMMA CallPreserved ==
  ASSUME TypeOK, CallInv, Step
  PROVE  CallInv'
<1>1. CASE Last("SPA") /\ trap' = {} /\ state' = "run"
  <2> DEFINE y == TargetAddress(last'.form, last'.d)
             p == (cpu.P + 4) % Modulus
  <2>1. call' = {[cell |-> Cell(y), P |-> p, MS |-> cpu.MS]}
    BY <1>1 DEF Step, FollowCall
  <2>2. y \in Int /\ mem'[Cell(y)] = (cpu.P + 4 + GPRIME(cpu)) % Modulus
    BY <1>1, AddressStored DEF Step, Finished, Last
  <2>3. cpu.P \in Int
    BY RegisterTypesOf, WordsAndBytes DEF TypeOK
  <2>4. p \in Word /\ cpu.P + 4 + 0 = cpu.P + 4
    <3>1. cpu.P + 4 \in Int
      BY <2>3
    <3> QED  BY <3>1, Reduces
  <2>5. cpu.MS = 1 => mem'[Cell(y)] = p
    BY <2>2, <2>4 DEF GPRIME
  <2>6. Cell(y) \in 0..(Half \div 2) - 1
    BY <2>2, Places
  <2> HIDE DEF y, p
  <2> QED  BY <2>1, <2>4, <2>5, <2>6 DEF CallInv
<1>2. CASE ~(Last("SPA") /\ trap' = {} /\ state' = "run")
  <2>1. call' = {c \in call : mem'[c.cell] = mem[c.cell]}
    BY <1>2 DEF Step, FollowCall
  <2> QED  BY <2>1 DEF CallInv
<1> QED  BY <1>1, <1>2

\* A branch through a word, in a master.
LEMMA BranchThrough ==
  ASSUME TypeOK, Next, ~Idle, cpu.MS = 1, NEW c, ReturnThrough(c), mem[c.cell] \in Word
  PROVE  cpu'.P = mem[c.cell]
<1>1. last'.op = "BRU" /\ Finished /\ last'.form \in {"IL", "IG"}
  BY DEF ReturnThrough, Returned, Finished, Last
<1>2. PICK op \in BranchOperations, form \in BranchForms, d \in Displacements :
        /\ Running
        /\ Is(op, form, d)
        /\ LET x == IF op = "BRX" THEN cpu.X ELSE 0
           IN  Done(Pointers(form, d) \cup {w + x : w \in Pointers(form, d)}, {},
                    IF Taken(op) THEN [cpu EXCEPT !.P = BranchAddress(form, d, x)]
                                 ELSE Fetched, mem)
  BY <1>1, Actions DEF Branch
<1>3. op = "BRU" /\ form \in {"IL", "IG"} /\ last'.form = form /\ last'.d = d
  BY <1>1, <1>2, Recorded
<1>4. Ready
  BY <1>2 DEF Ready
<1>5. cpu' = [cpu EXCEPT !.P = BranchAddress(form, d, 0)]
  <2>1. Taken(op)
    BY <1>3 DEF Taken
  <2>2. Done(Pointers(form, d) \cup {w + 0 : w \in Pointers(form, d)}, {},
             [cpu EXCEPT !.P = BranchAddress(form, d, 0)], mem)
    BY <1>2, <1>3, <2>1
  <2> QED  BY <1>1, <2>2, Complete
<1>6. cpu'.P = BranchAddress(form, d, 0)
  BY <1>4, <1>5, ReadyTypes DEF Registers
<1>7. d \in Int /\ cpu.L \in Int /\ cpu.G \in Int
  BY <1>4, DisplacementType, ReadyTypes
<1> DEFINE base == IF form = "IL" THEN cpu.L ELSE cpu.G
<1>8. base + 0 + d = base + d
  BY <1>7
<1>9. c.cell = Cell(base + d)
  <2>1. \E va \in Pointers(form, d) : Cell(va) = c.cell
    BY <1>3 DEF ReturnThrough
  <2>2. Pointers(form, d) = {base + d}
    BY <1>3 DEF Pointers
  <2> QED  BY <2>1, <2>2
<1>10. BranchAddress(form, d, 0) = (GPRIME(cpu) + read_word(mem, base + 0 + d)) % Modulus
  BY <1>3 DEF BranchAddress
<1> HIDE DEF base
<1>11. BranchAddress(form, d, 0) = (0 + mem[c.cell]) % Modulus
  BY <1>8, <1>9, <1>10 DEF GPRIME, read_word
<1> DEFINE w == mem[c.cell]
<1>12. w \in Word
  OBVIOUS
<1> HIDE DEF w
<1>13. (0 + w) % Modulus = w
  BY <1>12, Sizes DEF Word
<1> QED  BY <1>6, <1>11, <1>13 DEF w

LEMMA SectionsStep ==
  /\ SectionsNext => Step \/ (Idle /\ UNCHANGED sectionVars)
  /\ SectionsNext => [Next]_vars
BY DEF SectionsNext, Step, Idle, vars, sectionVars

LEMMA SectionsTyped == SectionsSpec => []TypeOK
<1>1. SectionsInit => TypeOK
  BY TypeInitial DEF SectionsInit
<1>2. TypeOK /\ [SectionsNext]_sectionVars => TypeOK'
  BY TypePreserved, SectionsStep DEF TypeOK, vars, sectionVars
<1> QED  BY <1>1, <1>2, PTL DEF SectionsSpec

\* A master subroutine returns to the instruction after its call, as
\* MasterSubroutineReturns says, as long as its word is as SPA left it.
THEOREM MasterReturns == SectionsSpec => MasterSubroutineReturns
<1>1. SectionsInit => CallInv
  BY DEF SectionsInit, CallInv
<1>2. TypeOK /\ CallInv /\ [SectionsNext]_sectionVars => CallInv'
  <2>1. CallInv /\ UNCHANGED sectionVars => CallInv'
    BY DEF CallInv, sectionVars, vars
  <2> QED  BY <2>1, CallPreserved, SectionsStep
<1>3. TypeOK /\ CallInv /\ [SectionsNext]_sectionVars
        => [\A c \in call : c.MS = 1 /\ cpu.MS = 1 /\ ReturnThrough(c)
              => cpu'.P = c.P]_sectionVars
  <2> SUFFICES ASSUME TypeOK, CallInv, SectionsNext, NEW c \in call, c.MS = 1,
                      cpu.MS = 1, ReturnThrough(c)
               PROVE  cpu'.P = c.P
    OBVIOUS
  <2>1. Next /\ ~Idle
    BY DEF SectionsNext, ReturnThrough, Returned, Idle, vars
  <2>2. mem[c.cell] = c.P /\ c.P \in Word
    BY DEF CallInv
  <2> QED  BY <2>1, <2>2, BranchThrough
<1> QED  BY <1>1, <1>2, <1>3, SectionsTyped, PTL DEF SectionsSpec, MasterSubroutineReturns

----------------------------------------------------------------------------
(* Places and words. *)

LEMMA Turned ==
  ASSUME NEW x \in Int, NEW t \in Int
  PROVE  VA_TO_PA(x + t * Half) = VA_TO_PA(x)
<1> DEFINE q == x \div Half
           p == x % Half
<1>1. Half \in Nat \ {0}
  BY Halves
<1>2. q \in Int /\ p \in 0..Half - 1 /\ x = q * Half + p
  BY <1>1
<1>3. VA_TO_PA(x) = p
  BY DEF VA_TO_PA
<1> HIDE DEF q, p
<1> DEFINE n == q + t
           z == x + t * Half
<1>4. n \in Int /\ z \in Int /\ z = n * Half + p
  BY <1>1, <1>2
<1> HIDE DEF n, z
<1>5. VA_TO_PA(z) = p
  BY <1>2, <1>4, Turns
<1> QED  BY <1>3, <1>5 DEF z

LEMMA MovedPlace ==
  ASSUME NEW x \in Int, NEW z \in Int, NEW k \in Int, VA_TO_PA(x) = VA_TO_PA(z)
  PROVE  VA_TO_PA(x + k) = VA_TO_PA(z + k) /\ Cell(x + k) = Cell(z + k)
<1>1. PICK t \in Int : x = z + t * Half
  BY SamePlace
<1> DEFINE u == t * Half
           y == z + k
<1>2. u \in Int /\ x = z + u /\ y \in Int
  BY <1>1, Halves
<1> HIDE DEF u
<1>3. x + k = y + u
  BY <1>2
<1> HIDE DEF y
<1>4. VA_TO_PA(y + u) = VA_TO_PA(y)
  BY <1>2, Turned DEF u
<1>5. VA_TO_PA(x + k) = VA_TO_PA(y)
  BY <1>3, <1>4
<1> QED  BY <1>5 DEF y, Cell

\* A word that is cut from an address is at the same place.
LEMMA CutPlace ==
  ASSUME NEW x \in Int
  PROVE  \E t \in Int : x % Modulus = x + t * Half
<1> DEFINE q == x \div Modulus
           p == x % Modulus
<1>1. q \in Int /\ p \in Int /\ x = q * Modulus + p
  <2>1. Modulus \in Nat \ {0}
    BY Sizes
  <2> QED  BY <2>1
<1> HIDE DEF q, p
<1> DEFINE t == -(2 * q)
<1>2. t \in Int /\ p = x + t * Half
  BY <1>1, Sizes
<1> QED  BY <1>2 DEF p

\* An address that was made relative and is made absolute again.
LEMMA AbsolutePlace ==
  ASSUME NEW x \in Int, NEW b \in Int, NEW k \in Int
  PROVE  /\ VA_TO_PA((((x - b) % Modulus) + b + k) % Modulus) = VA_TO_PA(x + k)
         /\ VA_TO_PA(VA_TO_PA(b + k + ((x - b) % Modulus))) = VA_TO_PA(x + k)
<1> DEFINE w == (x - b) % Modulus
<1>1. PICK t \in Int : w = (x - b) + t * Half
  <2>1. x - b \in Int
    OBVIOUS
  <2> QED  BY <2>1, CutPlace
<1> DEFINE u == t * Half
           y == x + k
           z == w + b + k
<1>2. u \in Int /\ w = (x - b) + u /\ y \in Int
  BY <1>1, Halves
<1>3. w \in Int
  BY <1>2
<1> HIDE DEF w, u
<1>4. z = y + u /\ z \in Int /\ b + k + w = z
  BY <1>2, <1>3
<1>5. VA_TO_PA(y + u) = VA_TO_PA(y)
  <2> HIDE DEF y
  <2> QED  BY <1>2, Turned DEF u
<1> HIDE DEF z, y
<1>6. VA_TO_PA(z) = VA_TO_PA(y)
  BY <1>4, <1>5
<1>7. PICK v \in Int : z % Modulus = z + v * Half
  BY <1>4, CutPlace
<1>8. VA_TO_PA(z % Modulus) = VA_TO_PA(z)
  BY <1>4, <1>7, Turned
<1>9. VA_TO_PA(VA_TO_PA(z)) = VA_TO_PA(z)
  <2> DEFINE p == VA_TO_PA(z)
  <2>1. p \in 0..Half - 1
    BY <1>4, Places
  <2> HIDE DEF p
  <2>2. p \in Int /\ p = 0 * Half + p
    BY <2>1, Halves
  <2>3. VA_TO_PA(p) = p
    BY <2>1, <2>2, Turns
  <2> QED  BY <2>3 DEF p
<1>10. VA_TO_PA(z % Modulus) = VA_TO_PA(y) /\ VA_TO_PA(VA_TO_PA(b + k + w)) = VA_TO_PA(y)
  BY <1>4, <1>6, <1>8, <1>9
<1> QED  BY <1>10 DEF w, y, z

\* Words that follow each other are not the same.
LEMMA OtherCell ==
  ASSUME NEW x \in Int, NEW z \in Int, z \in {x + 2, x + 4}
  PROVE  Cell(x) # Cell(z)
<1>1. VA_TO_PA(x) # VA_TO_PA(z)
  <2>1. x < z /\ z - x < Half
    BY Halves
  <2> QED  BY <2>1, OtherPlace
<1>2. x % 2 = z % 2
  OBVIOUS
<1>3. PICK b \in 0..1 : b = x % 2 /\ VA_TO_PA(x) = 2 * Cell(x) + b
  BY Places
<1>4. PICK c \in 0..1 : c = z % 2 /\ VA_TO_PA(z) = 2 * Cell(z) + c
  BY Places
<1> QED  BY <1>1, <1>2, <1>3, <1>4

LEMMA Sixteen == \E d \in Nat \ {0} : Half = 16 * d
<1> DEFINE w == Width - 1
           u == w - 4
<1>1. w \in Nat /\ Half = 2^w /\ Half >= 16
  BY WidthAssumption, IndicatorsAssumption
<1>2. 2^0 = 1 /\ 2^1 = 2 /\ 2^2 = 4 /\ 2^3 = 8 /\ 2^4 = 16
  <2>1. 2^(0 + 1) = 2 /\ 2^(1 + 1) = 2 * 2^1 /\ 2^(2 + 1) = 2 * 2^2
        /\ 2^(3 + 1) = 2 * 2^3 /\ 2^0 = 1
    BY Powers
  <2>2. 0 + 1 = 1 /\ 1 + 1 = 2 /\ 2 + 1 = 3 /\ 3 + 1 = 4
    OBVIOUS
  <2> QED  BY <2>1, <2>2
<1> HIDE DEF w
<1>3. w \notin {0, 1, 2, 3}
  <2>1. w = 0 => Half = 2^0
    BY <1>1, Zenon
  <2>2. w = 1 => Half = 2^1
    BY <1>1, Zenon
  <2>3. w = 2 => Half = 2^2
    BY <1>1, Zenon
  <2>4. w = 3 => Half = 2^3
    BY <1>1, Zenon
  <2> QED  BY <1>1, <1>2, <2>1, <2>2, <2>3, <2>4
<1>4. u \in Nat /\ w = 4 + u
  BY <1>1, <1>3
<1> HIDE DEF u
<1>5. 2^(4 + u) = 2^4 * 2^u /\ 2^u \in Nat \ {0}
  BY <1>4, PowerOfSum, Powers
<1>6. Half = 16 * 2^u
  BY <1>1, <1>2, <1>4, <1>5
<1> QED  BY <1>5, <1>6

\* The mode and the key come back from the word that saves them.
LEMMA IndicatorsBack ==
  ASSUME NEW r \in Registers, NEW s \in Registers
  PROVE  /\ load_indicators_from_block(s, set_indicators(r)).MS = r.MS
         /\ load_indicators_from_block(s, set_indicators(r)).PR = r.PR
<1>1. PICK d \in Nat \ {0} : Half = 16 * d
  BY Sixteen
<1>2. /\ Half \div 2 = 8 * d /\ Half \div 4 = 4 * d
      /\ Half \div 8 = 2 * d /\ Half \div 16 = d
  BY <1>1
<1> DEFINE w == set_indicators(r)
           p == r.PR
           a == r.MA
           m == r.MS
           o == r.OV
           c == r.C
<1>3. p \in 0..1 /\ a \in 0..1 /\ m \in 0..1 /\ o \in 0..1 /\ c \in 0..1
  BY RegisterTypesOf DEF Flag
<1>4. w = 16 * d * p + 8 * d * a + 4 * d * m + 2 * d * o + d * c
  BY <1>1, <1>2 DEF set_indicators
<1>5. /\ load_indicators_from_block(s, w).MS = (w \div (4 * d)) % 2
      /\ load_indicators_from_block(s, w).PR = w \div Half
  BY <1>2 DEF load_indicators_from_block, Registers
<1> HIDE DEF w, p, a, m, o, c
<1> DEFINE low == 2 * d * o + d * c
           high == 4 * p + 2 * a + m
           rest == 8 * d * a + 4 * d * m + low
<1>6. low \in 0..4 * d - 1 /\ rest \in 0..16 * d - 1
  <2>1. o \in {0, 1} /\ c \in {0, 1} /\ a \in {0, 1} /\ m \in {0, 1}
    BY <1>3
  <2> QED  BY <1>1, <2>1
<1>7. w = high * (4 * d) + low /\ w = p * (16 * d) + rest
  <2>1. o \in {0, 1} /\ c \in {0, 1} /\ a \in {0, 1} /\ m \in {0, 1} /\ p \in {0, 1}
    BY <1>3
  <2> QED  BY <1>1, <1>4, <2>1
<1>8. high \in Int /\ high % 2 = m
  BY <1>3
<1> HIDE DEF low, high, rest
<1> DEFINE k == 4 * d
           n == 16 * d
<1>9. k \in Nat \ {0} /\ n \in Nat \ {0} /\ low \in 0..k - 1 /\ rest \in 0..n - 1
      /\ w = high * k + low /\ w = p * n + rest /\ p \in Int
  BY <1>1, <1>3, <1>6, <1>7
<1>10. k = 4 * d /\ n = Half
  BY <1>1
<1> HIDE DEF k, n
<1>11. w \div k = high /\ w \div n = p
  BY <1>8, <1>9, Divided
<1>12. (w \div (4 * d)) % 2 = m /\ w \div Half = p
  BY <1>8, <1>10, <1>11
<1> QED  BY <1>5, <1>12 DEF w, m, p

FrameType ==
  [by : {"CLS", "CSV", "trap"}, P : Word, L : Word, entered : Word,
   ind : [MS : Flag, PR : Flag]]

\* A call that may be returned from: no trap was taken since.
Open(i) == i \in 1..Len(stack) /\ \A j \in i..Len(stack) : stack[j].by # "trap"

\* What the links of a call are relative to, and the mode of what it called.
LinkBase(f, r) == IF f.ind.MS = 1 THEN 0 ELSE r.G
ModeInside(f) == IF f.by = "CSV" THEN 1 ELSE f.ind.MS

\* The words of memory m that the call f is returned by, with the registers r.
Linked(f, r, m) ==
  f.by = "CLS" => /\ f.entered \in Bases
                  /\ m[Cell(f.entered)] = (f.P - LinkBase(f, r)) % Modulus
                  /\ m[Cell(f.entered + 2)] = (f.L - LinkBase(f, r)) % Modulus

SavedIn(f, r, m) ==
  f.by = "CSV" => /\ m[Cell(r.G)] = (f.P - r.G) % Modulus
                  /\ m[Cell(r.G + 2)] = (f.L - r.G) % Modulus
                  /\ LET s == load_indicators_from_block(r, m[Cell(r.G + 4)])
                     IN  s.MS = f.ind.MS /\ s.PR = f.ind.PR

\* The local base and the mode are those of what the call entered.
Within(f, l, mode) == VA_TO_PA(l) = VA_TO_PA(f.entered) /\ mode = ModeInside(f)

OpenCall(i) ==
  /\ Linked(stack[i], cpu, mem)
  /\ SavedIn(stack[i], cpu, mem)
  /\ i < Len(stack) => Within(stack[i], stack[i + 1].L, stack[i + 1].ind.MS)
  /\ i = Len(stack) => Within(stack[i], cpu.L, cpu.MS)

FramesInv ==
  /\ stack \in Seq(FrameType)
  /\ state = "run" => /\ \E s \in Start : cpu.G = s.cpu.G
                      /\ \A i \in 1..Len(stack) : Open(i) => OpenCall(i)

----------------------------------------------------------------------------
(* What the instructions leave to the calls. *)

LEMMA DoneKeepsG ==
  ASSUME NEW read, NEW written, NEW r, "G" \in DOMAIN r, NEW m,
         Done(read, written, r, m), state' = "run"
  PROVE  cpu'.G = r.G
<1>1. \/ Exit
      \/ Trapped(r, m, TRAP_PM, cpu.P)
      \/ cpu' = r
  BY DEF Done
<1>2. ~Exit
  BY DEF Exit
<1> QED  BY <1>1, <1>2, TrapKeepsG

LEMMA StepRegisterBases ==
  ASSUME TypeOK, StepRegister, state' = "run"
  PROVE  /\ cpu'.MS = cpu.MS /\ cpu'.G = cpu.G
         /\ last'.op \in {"ICX", "DCX"} => cpu'.L = cpu.L
<1>1. PICK op \in {"ICL", "DCL", "ICX", "DCX"}, form \in ParameterForms,
           d \in Displacements :
        /\ Running
        /\ Is(op, form, d)
        /\ LET r == Stepped(op, Fetched, Parameter(form, d))
           IN  Done(ParameterWords(form, d), {},
                    IF op \in {"ICX", "DCX"} THEN set_condition_codes_load(r, r.X)
                                             ELSE r, mem)
  BY DEF StepRegister
<1> DEFINE n == Parameter(form, d)
           r == Stepped(op, Fetched, n)
           s == IF op \in {"ICX", "DCX"} THEN set_condition_codes_load(r, r.X) ELSE r
<1>2. Fetched \in Local
  BY <1>1, LocalMachines DEF Ready
<1>3. Done(ParameterWords(form, d), {}, s, mem)
  BY <1>1
<1>4. cpu' = s
  BY <1>3 DEF Done, Exit
<1>5. last'.op = op
  BY <1>1, Recorded
<1> HIDE DEF n
<1>6. /\ r.MS = cpu.MS /\ r.G = cpu.G
      /\ op \in {"ICX", "DCX"} => r.L = cpu.L
  BY <1>2 DEF Stepped, Local, Registers
<1> HIDE DEF r
<1>7. s.MS = r.MS /\ s.G = r.G /\ s.L = r.L
  BY DEF set_condition_codes_load
<1> QED  BY <1>4, <1>5, <1>6, <1>7

LEMMA MoveRegisterBases ==
  ASSUME TypeOK, MoveRegister, state' = "run"
  PROVE  /\ cpu'.MS = cpu.MS
         /\ last'.op = "LDR" => cpu'.L = cpu.L /\ cpu'.G = cpu.G
         /\ trap' = {}
<1>1. PICK op \in {"LDR", "STR"}, form \in ParameterForms, d \in Displacements :
        /\ Running
        /\ Is(op, form, d)
        /\ LET n == Parameter(form, d) % 64
               r == IF op = "LDR" THEN [Fetched EXCEPT !.A = RegisterValue(Fetched, n)]
                    ELSE WithRegister(Fetched, n, Fetched.A)
           IN  Done(ParameterWords(form, d), {},
                    IF op = "STR" /\ cpu.MS = 0 THEN Fetched
                    ELSE set_condition_codes_load(r, r.A), mem)
  BY DEF MoveRegister
<1> DEFINE p == Parameter(form, d)
           n == p % 64
           r == IF op = "LDR" THEN [Fetched EXCEPT !.A = RegisterValue(Fetched, n)]
                ELSE WithRegister(Fetched, n, Fetched.A)
           s == IF op = "STR" /\ cpu.MS = 0 THEN Fetched
                ELSE set_condition_codes_load(r, r.A)
<1>2. Ready
  BY <1>1 DEF Ready
<1>3. Fetched \in Local /\ p \in Int
  BY <1>2, LocalMachines, AddressType, WordsAndBytes
<1>4. Done(ParameterWords(form, d), {}, s, mem)
  BY <1>1
<1>5. cpu' = s /\ trap' = {}
  BY <1>4 DEF Done, Exit
<1>6. last'.op = op
  BY <1>1, Recorded
<1> HIDE DEF p
<1>7. n \in 0..63
  BY <1>3
<1> HIDE DEF n
<1>8. WithRegister(Fetched, n, Fetched.A).MS = cpu.MS
  <2>1. CASE n \in 0..5
    <3>1. n \in {0, 1, 2, 3, 4, 5} /\ Len(RegisterNames) = 6
      BY <2>1 DEF RegisterNames
    <3> DEFINE name == RegisterNames[n + 1]
    <3>2. WithRegister(Fetched, n, Fetched.A) = [Fetched EXCEPT ![name] = Fetched.A]
      BY <2>1, <3>1 DEF WithRegister
    <3>3. name \in {"P", "L", "G", "A", "E", "X"}
      BY <3>1 DEF RegisterNames
    <3> HIDE DEF name
    <3> QED  BY <1>3, <3>2, <3>3 DEF Local, Registers
  <2>2. CASE n \notin 0..5
    <3>1. ~(n < Len(RegisterNames))
      BY <1>7, <2>2 DEF RegisterNames
    <3>2. WithRegister(Fetched, n, Fetched.A) = [Fetched EXCEPT !.block[n] = Fetched.A]
      BY <3>1 DEF WithRegister
    <3> QED  BY <1>3, <3>2 DEF Local, Registers
  <2> QED  BY <2>1, <2>2
<1>9. r.MS = cpu.MS /\ (op = "LDR" => r.L = cpu.L /\ r.G = cpu.G)
  BY <1>3, <1>8 DEF Local, Registers
<1> HIDE DEF r
<1>10. s.MS = cpu.MS /\ (op = "LDR" => s.L = cpu.L /\ s.G = cpu.G)
  BY <1>3, <1>9 DEF set_condition_codes_load, Local
<1> QED  BY <1>5, <1>6, <1>10

\* CLS stores its two links and nothing else.
LEMMA SectionCalled ==
  ASSUME TypeOK, CallSection, state' = "run"
  PROVE  /\ cpu'.G = cpu.G
         /\ Finished =>
              /\ cpu'.MS = cpu.MS
              /\ cpu'.L \in Int
              /\ mem'[Cell(cpu'.L)] = (cpu.P - GPRIME(cpu)) % Modulus
              /\ mem'[Cell(cpu'.L + 2)] = (cpu.L - GPRIME(cpu)) % Modulus
              /\ \A c : c \notin Links(cpu'.L) => mem'[c] = mem[c]
<1>1. PICK form \in ParameterForms, d \in Displacements :
        /\ Running
        /\ LET entry == Entry(cpu.G, Parameter(form, d))
               lds == (read_word(mem, entry) + cpu.G) % Modulus
               linked == write_word(cpu, mem, lds, Link(cpu))
           IN  Done(ParameterWords(form, d) \cup {entry}, {lds, lds + 2},
                    [cpu EXCEPT !.L = lds,
                                !.P = (read_word(mem, entry + 2) + cpu.G) % Modulus],
                    write_word(cpu, linked, lds + 2, (cpu.L - GPRIME(cpu)) % Modulus))
  BY DEF CallSection
<1> DEFINE entry == Entry(cpu.G, Parameter(form, d))
           lds == (read_word(mem, entry) + cpu.G) % Modulus
           link == Link(cpu)
           linked == write_word(cpu, mem, lds, link)
           base == (cpu.L - GPRIME(cpu)) % Modulus
           after == write_word(cpu, linked, lds + 2, base)
           p == (read_word(mem, entry + 2) + cpu.G) % Modulus
           r == [cpu EXCEPT !.L = lds, !.P = p]
<1>2. Ready
  BY <1>1 DEF Ready
<1>3. Done(ParameterWords(form, d) \cup {entry}, {lds, lds + 2}, r, after)
  BY <1>1
<1>4. TypeOK' /\ link \in Word
  <2>1. cpu.P - GPRIME(cpu) \in Int
    BY <1>2, ReadyTypes
  <2>2. link \in Word
    BY <2>1, Reduces DEF Link
  <2>3. TypeOK'
    BY CallSectionType
  <2> QED  BY <2>2, <2>3
<1>5. link = (cpu.P - GPRIME(cpu)) % Modulus
  BY DEF Link
<1> HIDE DEF p, base, link, lds, entry
<1>6. r.G = cpu.G /\ r.MS = cpu.MS /\ r.L = lds /\ "G" \in DOMAIN r
  BY <1>2, ReadyTypes DEF Registers
<1>7. cpu'.G = cpu.G
  BY <1>3, <1>6, DoneKeepsG
<1>8. ASSUME Finished
      PROVE  /\ cpu'.MS = cpu.MS
             /\ cpu'.L \in Int
             /\ mem'[Cell(cpu'.L)] = link
             /\ mem'[Cell(cpu'.L + 2)] = base
             /\ \A c : c \notin Links(cpu'.L) => mem'[c] = mem[c]
  <2>1. /\ cpu' = r /\ mem' = after
        /\ ~Refused(cpu, lds) /\ ~Refused(cpu, lds + 2)
    BY <1>3, <1>8, Complete
  <2>2. cpu'.L = lds /\ cpu'.MS = cpu.MS
    BY <1>6, <2>1
  <2>3. lds \in Int /\ lds + 2 \in Int
    <3>1. lds \in Int
      BY <1>4, <2>2, RegisterTypesOf, WordsAndBytes DEF TypeOK
    <3> QED  BY <3>1
  <2>4. /\ linked[Cell(lds)] = link
        /\ \A c : c # Cell(lds) => linked[c] = mem[c]
    BY <1>2, <2>1, <2>3, ReadyTypes, WordWritten
  <2>5. linked \in Memory
    BY <1>2, <1>4, <2>3, MemoryType, ReadyTypes
  <2> HIDE DEF linked
  <2>6. /\ after[Cell(lds + 2)] = base
        /\ \A c : c # Cell(lds + 2) => after[c] = linked[c]
    BY <2>1, <2>3, <2>5, WordWritten
  <2>7. Cell(lds) # Cell(lds + 2)
    BY <2>3, OtherCell
  <2> HIDE DEF after
  <2> QED  BY <2>1, <2>2, <2>3, <2>4, <2>6, <2>7 DEF Links
<1> QED  BY <1>5, <1>7, <1>8 DEF base

\* A section out of bounds leaves G, and counts as a trap.
LEMMA BoundTrapKeepsG ==
  ASSUME Ready, BoundTrap, state' = "run"
  PROVE  cpu'.G = cpu.G /\ ~Finished
<1> DEFINE t == mitra_trap(Fetched, mem, TRAP_VM, Fetched.P)
<1>1. Fetched.G = cpu.G /\ "G" \in DOMAIN Fetched
  BY LocalMachines DEF Local, Registers
<1>2. \/ Trapped(Fetched, mem, TRAP_VM, Fetched.P)
      \/ Trapped(Fetched, t.mem, TRAP_PM, cpu.P)
      \/ cpu' = Fetched /\ trap' = {TRAP_VM}
  BY DEF BoundTrap
<1> HIDE DEF t
<1>3. CASE Trapped(Fetched, mem, TRAP_VM, Fetched.P)
  <2>1. ~Finished
    BY <1>3 DEF Trapped, Exit, Finished
  <2> QED  BY <1>1, <1>3, <2>1, TrapKeepsG
<1>4. CASE Trapped(Fetched, t.mem, TRAP_PM, cpu.P)
  <2>1. ~Finished
    BY <1>4 DEF Trapped, Exit, Finished
  <2> QED  BY <1>1, <1>4, <2>1, TrapKeepsG
<1>5. CASE cpu' = Fetched /\ trap' = {TRAP_VM}
  BY <1>1, <1>5 DEF Finished
<1> QED  BY <1>2, <1>3, <1>4, <1>5

\* CSV saves P, L and the indicators and nothing else.
LEMMA SupervisorCalled ==
  ASSUME TypeOK, CallSupervisor, state' = "run"
  PROVE  /\ cpu'.G = cpu.G
         /\ Finished =>
              /\ cpu'.MS = 1
              /\ mem'[Cell(cpu.G)] = (cpu.P - cpu.G) % Modulus
              /\ mem'[Cell(cpu.G + 2)] = (cpu.L - cpu.G) % Modulus
              /\ mem'[Cell(cpu.G + 4)] = set_indicators(cpu)
              /\ \A c : c \notin SaveArea(cpu.G) => mem'[c] = mem[c]
<1>1. PICK form \in ParameterForms, d \in Displacements :
        /\ Running
        /\ LET y == Parameter(form, d)
               m1 == write_word(cpu, mem, cpu.G, (cpu.P - cpu.G) % Modulus)
               m2 == write_word(cpu, m1, cpu.G + 2, (cpu.L - cpu.G) % Modulus)
               m3 == write_word(cpu, m2, cpu.G + 4, set_indicators(cpu))
               entry == Entry(read_word(m3, 12), y)
           IN  IF y >= read_word(mem, 14)
                 THEN /\ steps' = steps + 1
                      /\ IF \E va \in ParameterWords(form, d) \cup {cpu.P} : va % 2 = 1
                           THEN Exit
                         ELSE BoundTrap
                 ELSE Done(ParameterWords(form, d) \cup {entry},
                           {cpu.G, cpu.G + 2, cpu.G + 4},
                           [cpu EXCEPT !.MS = 1, !.PR = 1,
                                       !.L = read_word(m3, entry),
                                       !.P = read_word(m3, entry + 2)], m3)
  BY DEF CallSupervisor
<1> DEFINE y == Parameter(form, d)
           w1 == (cpu.P - cpu.G) % Modulus
           w2 == (cpu.L - cpu.G) % Modulus
           w3 == set_indicators(cpu)
           m1 == write_word(cpu, mem, cpu.G, w1)
           m2 == write_word(cpu, m1, cpu.G + 2, w2)
           m3 == write_word(cpu, m2, cpu.G + 4, w3)
           entry == Entry(read_word(m3, 12), y)
           l == read_word(m3, entry)
           p == read_word(m3, entry + 2)
           r == [cpu EXCEPT !.MS = 1, !.PR = 1, !.L = l, !.P = p]
           read == ParameterWords(form, d) \cup {entry}
<1>2. Ready
  BY <1>1 DEF Ready
<1>3. /\ cpu \in Registers /\ mem \in Memory
      /\ cpu.G \in Int /\ cpu.G + 2 \in Int /\ cpu.G + 4 \in Int
      /\ cpu.P - cpu.G \in Int /\ cpu.L - cpu.G \in Int
  BY <1>2, ReadyTypes
<1>4. w1 \in Word /\ w2 \in Word /\ w3 \in Word
  BY <1>3, Reduces, IndicatorsType
<1>5. IF y >= read_word(mem, 14)
        THEN Exit \/ BoundTrap
        ELSE Done(read, {cpu.G, cpu.G + 2, cpu.G + 4}, r, m3)
  BY <1>1
<1> HIDE DEF w1, w2, w3, y, l, p, entry, read
<1>6. r.G = cpu.G /\ r.MS = 1 /\ "G" \in DOMAIN r
  BY <1>3 DEF Registers
<1>7. m1 \in Memory
  BY <1>2, <1>3, <1>4, MemoryType
<1> HIDE DEF m1
<1>8. m2 \in Memory
  BY <1>2, <1>3, <1>4, <1>7, MemoryType
<1>9. CASE Exit \/ BoundTrap
  <2>1. BoundTrap
    BY <1>9 DEF Exit
  <2> QED  BY <1>2, <2>1, BoundTrapKeepsG
<1>10. CASE Done(read, {cpu.G, cpu.G + 2, cpu.G + 4}, r, m3)
  <2>1. cpu'.G = cpu.G
    BY <1>6, <1>10, DoneKeepsG
  <2>2. ASSUME Finished
        PROVE  /\ cpu'.MS = 1
               /\ mem'[Cell(cpu.G)] = w1
               /\ mem'[Cell(cpu.G + 2)] = w2
               /\ mem'[Cell(cpu.G + 4)] = w3
               /\ \A c : c \notin SaveArea(cpu.G) => mem'[c] = mem[c]
    <3>1. /\ cpu' = r /\ mem' = m3
          /\ ~Refused(cpu, cpu.G) /\ ~Refused(cpu, cpu.G + 2)
          /\ ~Refused(cpu, cpu.G + 4)
      BY <1>10, <2>2, Complete
    <3>2. /\ m1[Cell(cpu.G)] = w1
          /\ \A c : c # Cell(cpu.G) => m1[c] = mem[c]
      BY <1>3, <3>1, WordWritten DEF m1
    <3>3. /\ m2[Cell(cpu.G + 2)] = w2
          /\ \A c : c # Cell(cpu.G + 2) => m2[c] = m1[c]
      BY <1>3, <1>7, <3>1, WordWritten
    <3> HIDE DEF m2
    <3>4. /\ m3[Cell(cpu.G + 4)] = w3
          /\ \A c : c # Cell(cpu.G + 4) => m3[c] = m2[c]
      BY <1>3, <1>8, <3>1, WordWritten
    <3> HIDE DEF m3
    <3>5. /\ Cell(cpu.G) # Cell(cpu.G + 2) /\ Cell(cpu.G) # Cell(cpu.G + 4)
          /\ Cell(cpu.G + 2) # Cell(cpu.G + 4)
      <4>1. cpu.G + 4 = (cpu.G + 2) + 2
        BY <1>3
      <4> QED  BY <1>3, <4>1, OtherCell
    <3> QED  BY <1>6, <3>1, <3>2, <3>3, <3>4, <3>5 DEF SaveArea
  <2> QED  BY <2>1, <2>2 DEF w1, w2, w3
<1> QED  BY <1>5, <1>9, <1>10

LEMMA SectionReturned ==
  ASSUME TypeOK, ReturnSection, state' = "run"
  PROVE  /\ cpu'.G = cpu.G /\ cpu'.MS = cpu.MS /\ mem' = mem /\ trap' = {}
         /\ cpu'.P = (mem[Cell(cpu.L)] + GPRIME(cpu) + 2) % Modulus
         /\ cpu'.L = (mem[Cell(cpu.L + 2)] + GPRIME(cpu)) % Modulus
<1> DEFINE p == (read_word(mem, cpu.L) + GPRIME(cpu) + 2) % Modulus
           l == (read_word(mem, cpu.L + 2) + GPRIME(cpu)) % Modulus
           r == [cpu EXCEPT !.P = p, !.L = l]
<1>1. Running /\ Done({cpu.L}, {}, r, mem)
  BY DEF ReturnSection
<1>2. cpu' = r /\ mem' = mem /\ trap' = {}
  BY <1>1 DEF Done, Exit
<1>3. cpu \in Registers
  BY DEF TypeOK
<1>4. p = (mem[Cell(cpu.L)] + GPRIME(cpu) + 2) % Modulus
      /\ l = (mem[Cell(cpu.L + 2)] + GPRIME(cpu)) % Modulus
  BY DEF read_word
<1> HIDE DEF p, l
<1>5. r.P = p /\ r.L = l /\ r.G = cpu.G /\ r.MS = cpu.MS
  BY <1>3 DEF Registers
<1> QED  BY <1>2, <1>4, <1>5

LEMMA SupervisorReturned ==
  ASSUME TypeOK, ReturnSupervisor, state' = "run"
  PROVE  LET s == load_indicators_from_block(cpu, mem[Cell(cpu.G + 4)])
         IN  /\ cpu'.G = cpu.G /\ mem' = mem /\ trap' = {}
             /\ cpu'.MS = s.MS /\ cpu'.PR = s.PR
             /\ cpu'.P = VA_TO_PA(cpu.G + 2 + mem[Cell(cpu.G)])
             /\ cpu'.L = VA_TO_PA(cpu.G + mem[Cell(cpu.G + 2)])
<1> DEFINE w == read_word(mem, cpu.G + 4)
           s == load_indicators_from_block(cpu, w)
           l == VA_TO_PA(cpu.G + read_word(mem, cpu.G + 2))
           p == VA_TO_PA(cpu.G + 2 + read_word(mem, cpu.G))
           r == [s EXCEPT !.L = l, !.P = p]
<1>1. Running /\ Done({cpu.G}, {}, r, mem)
  BY DEF ReturnSupervisor
<1>2. cpu' = r /\ mem' = mem /\ trap' = {}
  BY <1>1 DEF Done, Exit
<1>3. Ready
  BY <1>1 DEF Ready
<1>4. w = mem[Cell(cpu.G + 4)]
      /\ l = VA_TO_PA(cpu.G + mem[Cell(cpu.G + 2)])
      /\ p = VA_TO_PA(cpu.G + 2 + mem[Cell(cpu.G)])
  BY DEF read_word
<1>5. w \in Word
  BY <1>3, ReadyTypes, MemoryType
<1> HIDE DEF w, l, p
<1>6. s \in Registers /\ s.G = cpu.G
  <2>1. s \in Registers
    BY <1>3, <1>5, ReadyTypes, IndicatorsType
  <2>2. s.G = cpu.G
    BY <1>3, ReadyTypes DEF load_indicators_from_block, Registers
  <2> QED  BY <2>1, <2>2
<1>7. s = load_indicators_from_block(cpu, mem[Cell(cpu.G + 4)])
  BY <1>4
<1> HIDE DEF s
<1>8. r.P = p /\ r.L = l /\ r.G = cpu.G /\ r.MS = s.MS /\ r.PR = s.PR
  BY <1>6 DEF Registers
<1> QED  BY <1>2, <1>4, <1>7, <1>8

\* Only the calls and the registers that name L and G change the bases or the
\* mode.
LEMMA BasesKept ==
  ASSUME TypeOK, Step
  PROVE  /\ state = "run"
         /\ state' = "run" => cpu'.G = cpu.G
         /\ Finished /\ last'.op \notin {"CLS", "RTS", "CSV", "RSV"}
              => cpu'.L = cpu.L /\ cpu'.MS = cpu.MS
<1>1. Next /\ ~Idle /\ Disciplined
  BY DEF Step
<1>2. state = "run"
  BY <1>1 DEF Next, LoadWord, LoadAddress, CompareString, DoubleLoad, StoreWord,
       DoubleStore, StoreProgramAddress, MoveString, TranslateString, Branch,
       CallSection, ReturnSection, CallSupervisor, ReturnSupervisor, StepRegister,
       ParameterShift, ParameterSpecialShift, ParameterRegister, MoveRegister,
       TestAndSet, LoadProtection, PrivilegedTrap, Running
<1>3. last'.op \in {"STR", "ICL", "DCL"} /\ trap' = {} => cpu'.L = cpu.L /\ cpu'.G = cpu.G
  BY <1>1 DEF Disciplined
<1> DEFINE Kept == /\ state' = "run" => cpu'.G = cpu.G
                   /\ Finished /\ last'.op \notin {"CLS", "RTS", "CSV", "RSV"}
                        => cpu'.L = cpu.L /\ cpu'.MS = cpu.MS
<1>4. KeepsBases => Kept
  BY DEF KeepsBases, Local
<1>5. StepRegister => Kept
  BY <1>3, StepRegisterBases, Names DEF Finished
<1>6. MoveRegister => Kept
  BY <1>3, MoveRegisterBases, Names DEF Finished
<1>7. CallSection => Kept
  BY SectionCalled, Names
<1>8. CallSupervisor => Kept
  BY SupervisorCalled, Names
<1>9. ReturnSection => Kept
  BY SectionReturned, Names
<1>10. ReturnSupervisor => Kept
  BY SupervisorReturned, Names
<1>11. PrivilegedTrap => Kept
  <2> SUFFICES ASSUME PrivilegedTrap, state' = "run" PROVE Kept
    BY DEF Finished
  <2>1. Running /\ Trapped(Fetched, mem, TRAP_VM, cpu.P)
    BY DEF PrivilegedTrap, Exit
  <2>2. Fetched.G = cpu.G /\ "G" \in DOMAIN Fetched
    BY <2>1, LocalMachines DEF Local, Registers, Ready
  <2>3. cpu'.G = Fetched.G
    BY <2>1, <2>2, TrapKeepsG
  <2> QED  BY <2>2, <2>3, PrivilegedIsTrapped
<1> HIDE DEF Kept
<1>12. Kept
  <2>1. KeepsBases \/ StepRegister \/ MoveRegister \/ CallSection \/ CallSupervisor
        \/ ReturnSection \/ ReturnSupervisor \/ PrivilegedTrap
    BY <1>1, LoadWordType, LoadAddressType, CompareStringType, DoubleLoadType,
       StoreWordType, DoubleStoreType, StoreProgramAddressType, MoveStringType,
       TranslateStringType, BranchType, ParameterShiftType,
       ParameterSpecialShiftType, ParameterRegisterType, TestAndSetType,
       LoadProtectionType
    DEF Next
  <2> QED  BY <1>4, <1>5, <1>6, <1>7, <1>8, <1>9, <1>10, <1>11, <2>1
<1> QED  BY <1>2, <1>12 DEF Kept

\* A trap or an end closes every call.
LEMMA FramesTyped ==
  ASSUME TypeOK, TypeOK', stack \in Seq(FrameType), Step
  PROVE  /\ stack' \in Seq(FrameType)
         /\ state' # "run" => stack' = stack
         /\ state' = "run" /\ trap' # {} =>
              /\ Len(stack') = Len(stack) + 1
              /\ stack'[Len(stack) + 1].by = "trap"
         /\ Finished /\ last'.op \in {"CLS", "CSV"} =>
              /\ Frame \in FrameType
              /\ Len(stack') = Len(stack) + 1
              /\ stack'[Len(stack) + 1] = Frame
              /\ \A i \in 1..Len(stack) : stack'[i] = stack[i]
         /\ Finished /\ last'.op \in {"RTS", "RSV"} =>
              /\ Len(stack) \in Nat \ {0}
              /\ Len(stack') = Len(stack) - 1
              /\ \A i \in 1..Len(stack) - 1 : stack'[i] = stack[i]
         /\ Finished /\ last'.op \notin {"CLS", "CSV", "RTS", "RSV"} => stack' = stack
<1>1. /\ cpu.P \in Word /\ cpu.L \in Word /\ cpu'.L \in Word
      /\ cpu.MS \in Flag /\ cpu.PR \in Flag
  BY RegisterTypesOf DEF TypeOK
<1>2. Follow /\ Disciplined
  BY DEF Step
<1> DEFINE N == Len(stack)
           trapped == [Frame EXCEPT !.by = "trap"]
<1>3. N \in Nat
  BY LenProperties
<1>4. trapped \in FrameType /\ trapped.by = "trap"
  BY <1>1 DEF Frame, FrameType
<1>5. last'.op \in {"CLS", "CSV"} => Frame \in FrameType
  BY <1>1 DEF Frame, FrameType
<1> HIDE DEF trapped
<1>6. CASE state' # "run"
  BY <1>2, <1>6 DEF Follow, Finished
<1>7. CASE state' = "run" /\ trap' # {}
  <2>1. stack' = Append(stack, trapped)
    BY <1>2, <1>7 DEF Follow, trapped
  <2> QED  BY <1>4, <1>7, <2>1, AppendProperties DEF Finished
<1>8. CASE Finished /\ last'.op \in {"CLS", "CSV"}
  <2>1. stack' = Append(stack, Frame)
    BY <1>2, <1>8 DEF Follow, Finished
  <2> QED  BY <1>5, <1>8, <2>1, AppendProperties DEF Finished
<1>9. CASE Finished /\ last'.op \in {"RTS", "RSV"}
  <2>1. stack' = SubSeq(stack, 1, N - 1)
    BY <1>2, <1>9 DEF Follow, Finished
  <2>2. stack # <<>>
    BY <1>2, <1>9 DEF Disciplined, Last
  <2>3. N \in Nat \ {0}
    BY <2>2, EmptySeq
  <2> DEFINE n == N - 1
  <2>4. n \in Nat /\ 1 \in Int /\ \A i \in 1..n : stack[i] \in FrameType
    <3>1. \A i \in 1..N : stack[i] \in FrameType
      BY ElementOfSeq
    <3> QED  BY <2>3, <3>1
  <2> HIDE DEF n
  <2>5. /\ SubSeq(stack, 1, n) \in Seq(FrameType)
        /\ Len(SubSeq(stack, 1, n)) = IF 1 <= n THEN n - 1 + 1 ELSE 0
        /\ \A i \in 1..n - 1 + 1 : SubSeq(stack, 1, n)[i] = stack[1 + i - 1]
    BY <2>4, SubSeqProperties
  <2>6. Len(SubSeq(stack, 1, n)) = n /\ \A i \in 1..n : SubSeq(stack, 1, n)[i] = stack[i]
    <3>1. n - 1 + 1 = n /\ \A i \in 1..n : 1 + i - 1 = i
      BY <2>4
    <3> QED  BY <2>4, <2>5, <3>1
  <2> QED  BY <1>9, <2>1, <2>3, <2>5, <2>6 DEF n, Finished
<1>10. CASE Finished /\ last'.op \notin {"CLS", "CSV", "RTS", "RSV"}
  BY <1>2, <1>10 DEF Follow, Finished
<1> QED  BY <1>6, <1>7, <1>8, <1>9, <1>10 DEF Finished

\* The words a call is returned by are the same in two memories.
Untouched(f, r, m, n) ==
  /\ f.by = "CLS" => \A c \in Links(f.entered) : n[c] = m[c]
  /\ f.by = "CSV" => \A c \in SaveArea(r.G) : n[c] = m[c]

LEMMA LinksKept ==
  ASSUME NEW f, NEW r \in Registers, NEW s \in Registers, NEW m, NEW n, s.G = r.G,
         Linked(f, r, m), SavedIn(f, r, m), Untouched(f, r, m, n)
  PROVE  Linked(f, s, n) /\ SavedIn(f, s, n)
<1>1. \A w : /\ load_indicators_from_block(s, w).MS = load_indicators_from_block(r, w).MS
             /\ load_indicators_from_block(s, w).PR = load_indicators_from_block(r, w).PR
  BY DEF load_indicators_from_block, Registers
<1>2. Linked(f, s, n)
  <2> SUFFICES ASSUME f.by = "CLS" PROVE Linked(f, s, n)
    BY DEF Linked
  <2>1. n[Cell(f.entered)] = m[Cell(f.entered)] /\ n[Cell(f.entered + 2)] = m[Cell(f.entered + 2)]
    BY DEF Untouched, Links
  <2>2. LinkBase(f, s) = LinkBase(f, r)
    BY DEF LinkBase
  <2> QED  BY <2>1, <2>2 DEF Linked
<1>3. SavedIn(f, s, n)
  <2> SUFFICES ASSUME f.by = "CSV" PROVE SavedIn(f, s, n)
    BY DEF SavedIn
  <2>1. /\ n[Cell(r.G)] = m[Cell(r.G)] /\ n[Cell(r.G + 2)] = m[Cell(r.G + 2)]
        /\ n[Cell(r.G + 4)] = m[Cell(r.G + 4)]
    BY DEF Untouched, SaveArea
  <2> QED  BY <1>1, <2>1 DEF SavedIn
<1> QED  BY <1>2, <1>3

\* What an instruction that returns leaves: the registers of the last caller.
LEMMA Returning ==
  ASSUME TypeOK, FramesInv, Step, Finished, last'.op \in {"RTS", "RSV"}
  PROVE  /\ VA_TO_PA(cpu'.P) = VA_TO_PA(Top.P + 2)
         /\ VA_TO_PA(cpu'.L) = VA_TO_PA(Top.L)
         /\ cpu'.MS = Top.ind.MS
         /\ last'.op = "RSV" => cpu'.PR = Top.ind.PR
         /\ mem' = mem
         /\ Len(stack) \in Nat \ {0} /\ Top.by # "trap"
<1> DEFINE N == Len(stack)
           f == stack[N]
<1>1. state = "run" /\ state' = "run" /\ Next /\ ~Idle
  BY BasesKept DEF Finished, Step
<1>2. stack # <<>> /\ f.by = IF last'.op = "RTS" THEN "CLS" ELSE "CSV"
  BY DEF Step, Disciplined, Last, Top
<1>3. N \in Nat \ {0}
  BY <1>2, EmptySeq DEF FramesInv
<1>4. f \in FrameType
  <2>1. N \in 1..N
    BY <1>3
  <2> QED  BY <2>1, ElementOfSeq DEF FramesInv
<1>5. OpenCall(N)
  <2>1. N \in 1..N /\ \A j \in N..N : j = N
    BY <1>3
  <2>2. Open(N)
    BY <1>2, <2>1 DEF Open
  <2> QED  BY <1>1, <2>1, <2>2 DEF FramesInv
<1>6. Linked(f, cpu, mem) /\ SavedIn(f, cpu, mem) /\ Within(f, cpu.L, cpu.MS)
  BY <1>5 DEF OpenCall
<1>7. Top = f
  BY DEF Top
<1> HIDE DEF f, N
<1>8. /\ f.P \in Int /\ f.L \in Int /\ f.entered \in Int
      /\ cpu.L \in Int /\ cpu.G \in Int /\ GPRIME(cpu) \in Int
  BY <1>4, WordsAndBytes, RegisterTypesOf, GPrimeType DEF FrameType, TypeOK
<1>9. CASE last'.op = "RTS"
  <2>1. f.by = "CLS" /\ ReturnSection
    BY <1>1, <1>2, <1>9, Actions
  <2>2. /\ cpu'.MS = cpu.MS /\ mem' = mem
        /\ cpu'.P = (mem[Cell(cpu.L)] + GPRIME(cpu) + 2) % Modulus
        /\ cpu'.L = (mem[Cell(cpu.L + 2)] + GPRIME(cpu)) % Modulus
    BY <1>1, <2>1, SectionReturned
  <2>3. VA_TO_PA(cpu.L) = VA_TO_PA(f.entered) /\ cpu.MS = f.ind.MS
    BY <1>6, <2>1 DEF Within, ModeInside
  <2>4. Cell(cpu.L) = Cell(f.entered) /\ Cell(cpu.L + 2) = Cell(f.entered + 2)
    BY <1>8, <2>3, MovedPlace DEF Cell
  <2>5. LinkBase(f, cpu) = GPRIME(cpu)
    BY <2>3 DEF LinkBase, GPRIME
  <2>6. /\ mem[Cell(cpu.L)] = (f.P - GPRIME(cpu)) % Modulus
        /\ mem[Cell(cpu.L + 2)] = (f.L - GPRIME(cpu)) % Modulus
    BY <1>6, <2>1, <2>4, <2>5 DEF Linked
  <2> DEFINE b == GPRIME(cpu)
             l == (f.L - b) % Modulus
  <2>7. VA_TO_PA(cpu'.P) = VA_TO_PA(f.P + 2)
    BY <1>8, <2>2, <2>6, AbsolutePlace
  <2>8. VA_TO_PA((l + b + 0) % Modulus) = VA_TO_PA(f.L + 0)
    <3>1. f.L \in Int /\ b \in Int /\ 0 \in Int
      BY <1>8
    <3> QED  BY <3>1, AbsolutePlace, Zenon
  <2>9. l + b + 0 = l + b /\ f.L + 0 = f.L
    <3>1. l \in Int
      <4>1. f.L - b \in Int
        BY <1>8
      <4> QED  BY <4>1, Reduces, WordsAndBytes
    <3> HIDE DEF l
    <3> QED  BY <1>8, <3>1
  <2>10. VA_TO_PA(cpu'.L) = VA_TO_PA(f.L)
    BY <2>2, <2>6, <2>8, <2>9
  <2> QED  BY <1>2, <1>3, <1>7, <1>9, <2>2, <2>3, <2>7, <2>10 DEF N
<1>10. CASE last'.op = "RSV"
  <2>1. f.by = "CSV"
    BY <1>2, <1>10
  <2>2. ReturnSupervisor
    BY <1>1, <1>10, Actions, PrivilegedIsTrapped
  <2> DEFINE s == load_indicators_from_block(cpu, mem[Cell(cpu.G + 4)])
  <2>3. /\ cpu'.MS = s.MS /\ cpu'.PR = s.PR /\ mem' = mem
        /\ cpu'.P = VA_TO_PA(cpu.G + 2 + mem[Cell(cpu.G)])
        /\ cpu'.L = VA_TO_PA(cpu.G + mem[Cell(cpu.G + 2)])
    BY <1>1, <2>2, SupervisorReturned
  <2>4. /\ mem[Cell(cpu.G)] = (f.P - cpu.G) % Modulus
        /\ mem[Cell(cpu.G + 2)] = (f.L - cpu.G) % Modulus
        /\ s.MS = f.ind.MS /\ s.PR = f.ind.PR
    BY <1>6, <2>1 DEF SavedIn
  <2> DEFINE b == cpu.G
             l == (f.L - b) % Modulus
  <2>5. VA_TO_PA(cpu'.P) = VA_TO_PA(f.P + 2)
    BY <1>8, <2>3, <2>4, AbsolutePlace
  <2>6. VA_TO_PA(VA_TO_PA(b + 0 + l)) = VA_TO_PA(f.L + 0)
    <3>1. f.L \in Int /\ b \in Int /\ 0 \in Int
      BY <1>8
    <3> QED  BY <3>1, AbsolutePlace, Zenon
  <2>7. b + 0 + l = b + l /\ f.L + 0 = f.L
    <3>1. l \in Int
      <4>1. f.L - b \in Int
        BY <1>8
      <4> QED  BY <4>1, Reduces, WordsAndBytes
    <3> HIDE DEF l
    <3> QED  BY <1>8, <3>1
  <2>8. VA_TO_PA(cpu'.L) = VA_TO_PA(f.L)
    BY <2>3, <2>4, <2>6, <2>7
  <2> QED  BY <1>2, <1>3, <1>7, <1>10, <2>3, <2>4, <2>5, <2>8 DEF N
<1> QED  BY <1>9, <1>10

\* What an instruction that calls leaves: the registers and the words of the
\* call are those it will return by.
LEMMA Calling ==
  ASSUME TypeOK, TypeOK', FramesInv, Step, Finished, last'.op \in {"CLS", "CSV"}
  PROVE  /\ Linked(Frame, cpu', mem') /\ SavedIn(Frame, cpu', mem')
         /\ Within(Frame, cpu'.L, cpu'.MS)
<1>1. state = "run" /\ state' = "run" /\ Next /\ ~Idle /\ cpu'.G = cpu.G
  BY BasesKept DEF Finished, Step
<1>2. /\ Frame.by = last'.op /\ Frame.P = cpu.P /\ Frame.L = cpu.L
      /\ Frame.entered = cpu'.L
      /\ Frame.ind.MS = cpu.MS /\ Frame.ind.PR = cpu.PR
  BY DEF Frame
<1>3. cpu \in Registers /\ cpu' \in Registers
  BY DEF TypeOK
<1> DEFINE f == Frame
           r == cpu'
           m == mem'
<1> HIDE DEF f
<1>4. CASE last'.op = "CLS"
  <2>1. CallSection
    BY <1>1, <1>4, Actions
  <2>2. /\ r.MS = cpu.MS
        /\ m[Cell(r.L)] = (cpu.P - GPRIME(cpu)) % Modulus
        /\ m[Cell(r.L + 2)] = (cpu.L - GPRIME(cpu)) % Modulus
    BY <1>1, <2>1, SectionCalled
  <2>3. r.L \in Bases
    BY <1>1, <1>4 DEF Step, Disciplined, Finished, Last, Enters
  <2> HIDE DEF r, m
  <2>4. LinkBase(f, r) = GPRIME(cpu)
    BY <1>1, <1>2 DEF LinkBase, GPRIME, f, r
  <2>5. Linked(f, r, m)
    BY <1>2, <2>2, <2>3, <2>4 DEF Linked, f, r
  <2>6. SavedIn(f, r, m)
    BY <1>2, <1>4 DEF SavedIn, f
  <2>7. Within(f, r.L, r.MS)
    BY <1>2, <1>4, <2>2 DEF Within, ModeInside, f, r
  <2> QED  BY <2>5, <2>6, <2>7 DEF f, r, m
<1>5. CASE last'.op = "CSV"
  <2>1. CallSupervisor
    BY <1>1, <1>5, Actions
  <2>2. /\ r.MS = 1
        /\ m[Cell(cpu.G)] = (cpu.P - cpu.G) % Modulus
        /\ m[Cell(cpu.G + 2)] = (cpu.L - cpu.G) % Modulus
        /\ m[Cell(cpu.G + 4)] = set_indicators(cpu)
    BY <1>1, <2>1, SupervisorCalled
  <2>3. /\ load_indicators_from_block(r, set_indicators(cpu)).MS = cpu.MS
        /\ load_indicators_from_block(r, set_indicators(cpu)).PR = cpu.PR
    BY <1>3, IndicatorsBack
  <2>4. r.G = cpu.G
    BY <1>1
  <2> HIDE DEF r, m
  <2>5. Linked(f, r, m)
    BY <1>2, <1>5 DEF Linked, f
  <2>6. SavedIn(f, r, m)
    BY <1>2, <1>5, <2>2, <2>3, <2>4 DEF SavedIn, f
  <2>7. Within(f, r.L, r.MS)
    BY <1>2, <1>5, <2>2 DEF Within, ModeInside, f, r
  <2> QED  BY <2>5, <2>6, <2>7 DEF f, r, m
<1> QED  BY <1>4, <1>5

\* No instruction that is not trapped stores in the words of an open call.
LEMMA CallsUntouched ==
  ASSUME TypeOK, TypeOK', FramesInv, Step, Finished,
         NEW i \in 1..Len(stack), Linked(stack[i], cpu, mem)
  PROVE  Untouched(stack[i], cpu, mem, mem')
<1> DEFINE f == stack[i]
<1>1. state = "run" /\ state' = "run" /\ trap' = {} /\ Next /\ ~Idle /\ Disciplined
  BY BasesKept DEF Finished, Step
<1>2. PICK s \in Start : cpu.G = s.cpu.G
  BY <1>1 DEF FramesInv
<1>3. f.by = "CLS" => f.entered \in Bases
  BY DEF Linked
<1>4. CASE last'.op = "CLS"
  <2>1. CallSection
    BY <1>1, <1>4, Actions
  <2>2. \A c : c \notin Links(cpu'.L) => mem'[c] = mem[c]
    BY <1>1, <2>1, SectionCalled DEF Finished
  <2>3. cpu'.L \in Bases /\ f.entered # cpu'.L
    BY <1>1, <1>4 DEF Disciplined, Last, Enters
  <2>4. f.by = "CLS" => Links(f.entered) \cap Links(cpu'.L) = {}
    BY <1>3, <2>3, LayoutAssumption
  <2>5. Links(cpu'.L) \cap SaveArea(cpu.G) = {}
    BY <1>2, <2>3, LayoutAssumption
  <2> QED  BY <2>2, <2>4, <2>5 DEF Untouched
<1>5. CASE last'.op = "CSV"
  <2>1. CallSupervisor
    BY <1>1, <1>5, Actions
  <2>2. \A c : c \notin SaveArea(cpu.G) => mem'[c] = mem[c]
    BY <1>1, <2>1, SupervisorCalled DEF Finished
  <2>3. f.by = "CLS"
    BY <1>1, <1>5 DEF Disciplined, Last
  <2>4. Links(f.entered) \cap SaveArea(cpu.G) = {}
    BY <1>2, <1>3, <2>3, LayoutAssumption
  <2> QED  BY <2>2, <2>3, <2>4 DEF Untouched
<1>6. CASE last'.op \notin {"CLS", "CSV"}
  <2>1. \A c \in DOMAIN mem : mem'[c] # mem[c] => 2 * c \in Free
    BY <1>1, <1>6 DEF Disciplined
  <2>2. ASSUME f.by = "CLS", NEW c \in Links(f.entered)
        PROVE  mem'[c] = mem[c]
    <3>1. 2 * c \notin Free
      BY <1>3, <2>2, LayoutAssumption
    <3>2. f.entered \in Int
      <4>1. f \in FrameType
        BY ElementOfSeq DEF FramesInv
      <4> HIDE DEF f
      <4> QED  BY <4>1, WordsAndBytes DEF FrameType
    <3>3. f.entered + 2 \in Int
      BY <3>2
    <3>4. c \in DOMAIN mem
      BY <2>2, <3>2, <3>3, Places DEF TypeOK, Memory, Links
    <3> QED  BY <2>1, <3>1, <3>4
  <2>3. ASSUME NEW c \in SaveArea(cpu.G)
        PROVE  mem'[c] = mem[c]
    <3>1. 2 * c \notin Free
      BY <1>2, <2>3, LayoutAssumption
    <3>2. cpu.G \in Int
      BY WordsAndBytes, RegisterTypesOf DEF TypeOK
    <3>3. cpu.G + 2 \in Int /\ cpu.G + 4 \in Int
      BY <3>2
    <3>4. c \in DOMAIN mem
      BY <2>3, <3>2, <3>3, Places DEF TypeOK, Memory, SaveArea
    <3> QED  BY <2>1, <3>1, <3>4
  <2> QED  BY <2>2, <2>3 DEF Untouched
<1> QED  BY <1>4, <1>5, <1>6

\* A call that stays open keeps the words it is returned by.
LEMMA OpenStays ==
  ASSUME TypeOK, TypeOK', FramesInv, Step, Finished, NEW i \in 1..Len(stack), Open(i)
  PROVE  /\ OpenCall(i)
         /\ Linked(stack[i], cpu', mem') /\ SavedIn(stack[i], cpu', mem')
<1>1. state = "run" /\ cpu'.G = cpu.G
  BY BasesKept DEF Finished
<1>2. OpenCall(i)
  BY <1>1 DEF FramesInv
<1>3. Linked(stack[i], cpu, mem) /\ SavedIn(stack[i], cpu, mem)
  BY <1>2 DEF OpenCall
<1>4. Untouched(stack[i], cpu, mem, mem')
  BY <1>3, CallsUntouched
<1>5. cpu \in Registers /\ cpu' \in Registers
  BY DEF TypeOK
<1> QED  BY <1>1, <1>2, <1>3, <1>4, <1>5, LinksKept

LEMMA FramesPreserved ==
  ASSUME TypeOK, TypeOK', FramesInv, Step
  PROVE  FramesInv'
<1> DEFINE N == Len(stack)
<1>1. stack \in Seq(FrameType) /\ N \in Nat
  BY LenProperties DEF FramesInv
<1>2. state = "run"
  BY BasesKept
<1>3. stack' \in Seq(FrameType)
  BY <1>1, FramesTyped
<1>4. ASSUME state' = "run"
      PROVE  \E s \in Start : cpu'.G = s.cpu.G
  <2>1. cpu'.G = cpu.G
    BY <1>4, BasesKept
  <2> QED  BY <1>2, <2>1 DEF FramesInv
<1>5. ASSUME state' = "run", NEW i \in 1..Len(stack'), Open(i)'
      PROVE  OpenCall(i)'
  <2>1. i \in 1..Len(stack') /\ \A j \in i..Len(stack') : stack'[j].by # "trap"
    BY <1>5 DEF Open
  <2>2. Finished
    <3> SUFFICES ASSUME trap' # {} PROVE FALSE
      BY <1>5 DEF Finished
    <3>1. Len(stack') = N + 1 /\ stack'[N + 1].by = "trap"
      BY <1>1, <1>5, FramesTyped
    <3>2. N + 1 \in i..Len(stack')
      BY <1>1, <2>1, <3>1
    <3> QED  BY <2>1, <3>1, <3>2
  <2> SUFFICES /\ Linked(stack'[i], cpu', mem')
               /\ SavedIn(stack'[i], cpu', mem')
               /\ i < Len(stack')
                    => Within(stack'[i], stack'[i + 1].L, stack'[i + 1].ind.MS)
               /\ i = Len(stack') => Within(stack'[i], cpu'.L, cpu'.MS)
    BY DEF OpenCall
  <2>3. CASE last'.op \in {"CLS", "CSV"}
    <3>1. /\ Len(stack') = N + 1 /\ stack'[N + 1] = Frame
          /\ \A k \in 1..N : stack'[k] = stack[k]
      BY <1>1, <2>2, <2>3, FramesTyped
    <3>2. CASE i = N + 1
      BY <1>1, <2>2, <2>3, <3>1, <3>2, Calling
    <3>3. CASE i # N + 1
      <4>1. i \in 1..N /\ i < Len(stack') /\ i # Len(stack')
        BY <1>1, <3>1, <3>3
      <4>2. Open(i)
        <5> SUFFICES ASSUME NEW j \in i..N PROVE stack[j].by # "trap"
          BY <4>1 DEF Open
        <5>1. j \in i..Len(stack') /\ j \in 1..N
          BY <1>1, <3>1, <4>1
        <5> QED  BY <2>1, <3>1, <5>1
      <4>3. /\ OpenCall(i)
            /\ Linked(stack[i], cpu', mem') /\ SavedIn(stack[i], cpu', mem')
        BY <2>2, <4>1, <4>2, OpenStays
      <4>4. Within(stack[i], stack'[i + 1].L, stack'[i + 1].ind.MS)
        <5>1. CASE i = N
          <6>1. stack'[i + 1].L = cpu.L /\ stack'[i + 1].ind.MS = cpu.MS
            BY <3>1, <5>1 DEF Frame
          <6> QED  BY <4>3, <5>1, <6>1 DEF OpenCall
        <5>2. CASE i # N
          <6>1. i < N /\ i + 1 \in 1..N
            BY <1>1, <4>1, <5>2
          <6> QED  BY <3>1, <4>3, <6>1 DEF OpenCall
        <5> QED  BY <5>1, <5>2
      <4> QED  BY <3>1, <4>1, <4>3, <4>4
    <3> QED  BY <3>2, <3>3
  <2>4. CASE last'.op \in {"RTS", "RSV"}
    <3>1. /\ N \in Nat \ {0} /\ Len(stack') = N - 1
          /\ \A k \in 1..N - 1 : stack'[k] = stack[k]
      BY <1>1, <2>2, <2>4, FramesTyped
    <3>2. /\ VA_TO_PA(cpu'.L) = VA_TO_PA(stack[N].L)
          /\ cpu'.MS = stack[N].ind.MS /\ stack[N].by # "trap"
      BY <2>2, <2>4, Returning DEF Top
    <3>3. i \in 1..N - 1 /\ i \in 1..N /\ i < N /\ stack'[i] = stack[i]
      BY <2>1, <3>1
    <3>4. Open(i)
      <4> SUFFICES ASSUME NEW j \in i..N PROVE stack[j].by # "trap"
        BY <3>3 DEF Open
      <4>1. CASE j = N
        BY <3>2, <4>1
      <4>2. CASE j # N
        <5>1. i \in Nat \ {0} /\ j \in Int /\ i <= j /\ j <= N
          BY <3>1, <3>3
        <5> HIDE DEF N
        <5>2. j \in i..N - 1 /\ j \in 1..N - 1
          BY <3>1, <4>2, <5>1
        <5> QED  BY <2>1, <3>1, <5>2
      <4> QED  BY <4>1, <4>2
    <3>5. /\ OpenCall(i)
          /\ Linked(stack[i], cpu', mem') /\ SavedIn(stack[i], cpu', mem')
      BY <2>2, <3>3, <3>4, OpenStays
    <3>6. Within(stack[i], stack[i + 1].L, stack[i + 1].ind.MS)
      BY <3>3, <3>5 DEF OpenCall
    <3>7. ASSUME i < Len(stack')
          PROVE  Within(stack[i], stack'[i + 1].L, stack'[i + 1].ind.MS)
      <4>1. i + 1 \in 1..N - 1
        BY <3>1, <3>3, <3>7
      <4> QED  BY <3>1, <3>6, <4>1
    <3>8. ASSUME i = Len(stack')
          PROVE  Within(stack[i], cpu'.L, cpu'.MS)
      <4>1. i + 1 = N
        BY <3>1, <3>8
      <4> QED  BY <3>2, <3>6, <4>1 DEF Within
    <3> QED  BY <3>3, <3>5, <3>7, <3>8
  <2>5. CASE last'.op \notin {"CLS", "CSV", "RTS", "RSV"}
    <3>1. stack' = stack
      BY <1>1, <2>2, <2>5, FramesTyped
    <3>2. i \in 1..N /\ Open(i)
      BY <2>1, <3>1 DEF Open
    <3>3. /\ OpenCall(i)
          /\ Linked(stack[i], cpu', mem') /\ SavedIn(stack[i], cpu', mem')
      BY <2>2, <3>2, OpenStays
    <3>4. cpu'.L = cpu.L /\ cpu'.MS = cpu.MS
      BY <2>2, <2>5, BasesKept
    <3> QED  BY <3>1, <3>3, <3>4 DEF OpenCall
  <2> QED  BY <2>3, <2>4, <2>5
<1> QED  BY <1>3, <1>4, <1>5 DEF FramesInv

\* A section and the supervisor return to their callers, as ReturnsToCaller
\* says, through any nesting of the calls of any program that leaves its links
\* alone.
THEOREM CallersAreReached == SectionsSpec => ReturnsToCaller
<1>1. SectionsInit => FramesInv
  <2> SUFFICES ASSUME SectionsInit PROVE FramesInv
    OBVIOUS
  <2>1. stack = <<>> /\ stack \in Seq(FrameType) /\ Len(stack) = 0
    BY DEF SectionsInit
  <2>2. \E s \in Start : cpu.G = s.cpu.G
    BY DEF SectionsInit, Init
  <2> QED  BY <2>1, <2>2 DEF FramesInv
<1>2. TypeOK /\ TypeOK' /\ FramesInv /\ [SectionsNext]_sectionVars => FramesInv'
  <2>1. FramesInv /\ UNCHANGED sectionVars => FramesInv'
    BY DEF FramesInv, Open, OpenCall, sectionVars, vars
  <2> QED  BY <2>1, FramesPreserved, SectionsStep
<1>3. TypeOK /\ FramesInv /\ [SectionsNext]_sectionVars
        => [/\ Returned("RTS") \/ Returned("RSV") =>
                 /\ VA_TO_PA(cpu'.P) = VA_TO_PA(Top.P + 2)
                 /\ VA_TO_PA(cpu'.L) = VA_TO_PA(Top.L)
            /\ Returned("RSV") =>
                 cpu'.MS = Top.ind.MS /\ cpu'.PR = Top.ind.PR]_sectionVars
  <2> SUFFICES ASSUME TypeOK, FramesInv, SectionsNext,
                      Returned("RTS") \/ Returned("RSV")
               PROVE  /\ VA_TO_PA(cpu'.P) = VA_TO_PA(Top.P + 2)
                      /\ VA_TO_PA(cpu'.L) = VA_TO_PA(Top.L)
                      /\ Returned("RSV") =>
                           cpu'.MS = Top.ind.MS /\ cpu'.PR = Top.ind.PR
    OBVIOUS
  <2>1. Finished /\ last'.op \in {"RTS", "RSV"} /\ steps' # steps
    BY DEF Returned, Finished, Last
  <2>2. Step
    BY <2>1, SectionsStep DEF sectionVars, vars
  <2>3. Returned("RSV") => last'.op = "RSV"
    BY DEF Returned, Last
  <2> QED  BY <2>1, <2>2, <2>3, Returning
<1> QED  BY <1>1, <1>2, <1>3, SectionsTyped, PTL DEF SectionsSpec, ReturnsToCaller

\* The registers are assigned one by one, whatever the bases are.
WithA(r, v) == [r EXCEPT !.A = v]
WithE(r, v) == [r EXCEPT !.E = v]
WithX(r, v) == [r EXCEPT !.X = v]
WithC(r, v) == [r EXCEPT !.C = v]
WithOV(r, v) == [r EXCEPT !.OV = v]
Based(r, p, l, g) == [r EXCEPT !.P = p, !.L = l, !.G = g]

\* The same registers, those of the addresses but for the bases.
Full(r) == {"A", "E", "X", "P", "L", "G", "C", "OV"} \subseteq DOMAIN r

\* An assignment of another register leaves the bases, and they leave it.
LEMMA BasedAssigned ==
  ASSUME NEW r, NEW p, NEW l, NEW g
  PROVE  /\ \A v : Based(WithA(r, v), p, l, g) = WithA(Based(r, p, l, g), v)
         /\ \A v : Based(WithE(r, v), p, l, g) = WithE(Based(r, p, l, g), v)
         /\ \A v : Based(WithX(r, v), p, l, g) = WithX(Based(r, p, l, g), v)
         /\ \A v : Based(WithC(r, v), p, l, g) = WithC(Based(r, p, l, g), v)
         /\ \A v : Based(WithOV(r, v), p, l, g) = WithOV(Based(r, p, l, g), v)
BY DEF Based, WithA, WithE, WithX, WithC, WithOV

LEMMA RelativeBased ==
  \A r : Relative(r) = Based(r, (r.P - r.G) % Modulus, (r.L - r.G) % Modulus, 0)
BY DEF Relative, Based

LEMMA AssignedFields ==
  ASSUME NEW r, Full(r)
  PROVE  /\ \A v : /\ Full(WithA(r, v)) /\ WithA(r, v).A = v /\ WithA(r, v).E = r.E
                   /\ WithA(r, v).X = r.X /\ WithA(r, v).C = r.C
         /\ \A v : /\ Full(WithE(r, v)) /\ WithE(r, v).E = v /\ WithE(r, v).A = r.A
                   /\ WithE(r, v).X = r.X /\ WithE(r, v).C = r.C
         /\ \A v : Full(WithX(r, v)) /\ WithX(r, v).X = v /\ WithX(r, v).A = r.A
         /\ \A v : Full(WithC(r, v)) /\ WithC(r, v).E = r.E
         /\ \A v : Full(WithOV(r, v))
<1>1. \A v : /\ Full(WithA(r, v)) /\ WithA(r, v).A = v /\ WithA(r, v).E = r.E
             /\ WithA(r, v).X = r.X /\ WithA(r, v).C = r.C
  BY DEF Full, WithA
<1>2. \A v : /\ Full(WithE(r, v)) /\ WithE(r, v).E = v /\ WithE(r, v).A = r.A
             /\ WithE(r, v).X = r.X /\ WithE(r, v).C = r.C
  BY DEF Full, WithE
<1>3. \A v : Full(WithX(r, v)) /\ WithX(r, v).X = v /\ WithX(r, v).A = r.A
  BY DEF Full, WithX
<1>4. \A v : Full(WithC(r, v)) /\ WithC(r, v).E = r.E
  BY DEF Full, WithC
<1>5. \A v : Full(WithOV(r, v))
  BY DEF Full, WithOV
<1> QED  BY <1>1, <1>2, <1>3, <1>4, <1>5

LEMMA AssignedBases ==
  ASSUME NEW r, Full(r)
  PROVE  /\ \A v : WithA(r, v).P = r.P /\ WithA(r, v).L = r.L /\ WithA(r, v).G = r.G
         /\ \A v : WithE(r, v).P = r.P /\ WithE(r, v).L = r.L /\ WithE(r, v).G = r.G
         /\ \A v : WithX(r, v).P = r.P /\ WithX(r, v).L = r.L /\ WithX(r, v).G = r.G
         /\ \A v : WithC(r, v).P = r.P /\ WithC(r, v).L = r.L /\ WithC(r, v).G = r.G
         /\ \A v : WithOV(r, v).P = r.P /\ WithOV(r, v).L = r.L /\ WithOV(r, v).G = r.G
BY DEF Full, WithA, WithE, WithX, WithC, WithOV

\* The relative registers differ in P, L and G alone.
LEMMA RelativeFields ==
  ASSUME NEW r, Full(r)
  PROVE  /\ Full(Relative(r))
         /\ Relative(r).A = r.A /\ Relative(r).E = r.E /\ Relative(r).X = r.X
         /\ Relative(r).C = r.C /\ Relative(r).OV = r.OV
BY DEF Full, Relative

LEMMA RelativeAssigned ==
  ASSUME NEW r, Full(r)
  PROVE  /\ \A v : Relative(WithA(r, v)) = WithA(Relative(r), v)
         /\ \A v : Relative(WithE(r, v)) = WithE(Relative(r), v)
         /\ \A v : Relative(WithX(r, v)) = WithX(Relative(r), v)
         /\ \A v : Relative(WithC(r, v)) = WithC(Relative(r), v)
         /\ \A v : Relative(WithOV(r, v)) = WithOV(Relative(r), v)
<1> DEFINE p == (r.P - r.G) % Modulus
           l == (r.L - r.G) % Modulus
<1>1. \A s : s.P = r.P /\ s.L = r.L /\ s.G = r.G => Relative(s) = Based(s, p, l, 0)
  BY RelativeBased
<1> HIDE DEF p, l
<1>2. Relative(r) = Based(r, p, l, 0)
  BY <1>1
<1> QED  BY <1>1, <1>2, BasedAssigned, AssignedBases

\* Several registers at once.
LEMMA AssignedChains ==
  ASSUME NEW r
  PROVE  /\ \A c, o : [r EXCEPT !.C = c, !.OV = o] = WithOV(WithC(r, c), o)
         /\ \A a, e : [r EXCEPT !.A = a, !.E = e] = WithE(WithA(r, a), e)
         /\ \A a, e : [r EXCEPT !.E = e, !.A = a] = WithA(WithE(r, e), a)
         /\ \A a, x : [r EXCEPT !.A = a, !.X = x] = WithX(WithA(r, a), x)
         /\ \A e, x : [r EXCEPT !.E = e, !.X = x] = WithX(WithE(r, e), x)
         /\ \A e, c : [r EXCEPT !.E = e, !.C = c] = WithC(WithE(r, e), c)
         /\ \A a, c, o : [r EXCEPT !.A = a, !.C = c, !.OV = o] = WithOV(WithC(WithA(r, a), c), o)
         /\ \A x, c, o : [r EXCEPT !.X = x, !.C = c, !.OV = o] = WithOV(WithC(WithX(r, x), c), o)
BY DEF WithA, WithE, WithX, WithC, WithOV

\* The indicators of a value.
LEMMA CodesRelative ==
  ASSUME NEW r, Full(r)
  PROVE  /\ \A v : /\ Full(set_condition_codes_load(r, v))
                   /\ set_condition_codes_load(Relative(r), v)
                        = Relative(set_condition_codes_load(r, v))
         /\ \A v, w : /\ Full(set_condition_codes_compare(r, v, w))
                      /\ set_condition_codes_compare(Relative(r), v, w)
                           = Relative(set_condition_codes_compare(r, v, w))
<1>1. \A s, v : set_condition_codes_load(s, v)
                  = WithOV(WithC(s, Test(v = 0)), Test(Negative(v)))
  BY DEF set_condition_codes_load, WithC, WithOV
<1>2. \A s, v, w : set_condition_codes_compare(s, v, w)
                     = WithOV(WithC(s, Test(v = w)), Test(Signed(v) < Signed(w)))
  BY DEF set_condition_codes_compare, WithC, WithOV
<1>3. ASSUME NEW c, NEW o
      PROVE  /\ Full(WithOV(WithC(r, c), o))
             /\ Relative(WithOV(WithC(r, c), o)) = WithOV(WithC(Relative(r), c), o)
  <2>1. Full(WithC(r, c)) /\ Relative(WithC(r, c)) = WithC(Relative(r), c)
    BY AssignedFields, RelativeAssigned
  <2> QED  BY <2>1, AssignedFields, RelativeAssigned
<1> QED  BY <1>1, <1>2, <1>3

LEMMA FullRegisters ==
  ASSUME NEW r \in Registers
  PROVE  Full(r) /\ Relative(r) \in Registers
<1>1. Full(r)
  BY DEF Registers, Full
<1>2. (r.P - r.G) % Modulus \in Word /\ (r.L - r.G) % Modulus \in Word /\ 0 \in Word
  <2>1. r.P \in Int /\ r.L \in Int /\ r.G \in Int
    BY RegisterTypesOf, WordsAndBytes
  <2>2. r.P - r.G \in Int /\ r.L - r.G \in Int
    BY <2>1
  <2> QED  BY <2>2, Reduces, WordsAndBytes
<1>3. \A p, l, g \in Word : Based(r, p, l, g) \in Registers
  BY DEF Registers, Based
<1> QED  BY <1>1, <1>2, <1>3, RelativeBased

----------------------------------------------------------------------------
(* The operations are those of the registers, whatever the bases are. *)

\* Each shift as the assignments it makes.
LEMMA ShiftAssigns ==
  ASSUME NEW r, Full(r)
  PROVE
   /\ ShiftOnce("SLLS", r) = WithA(r, Doubled(r.A))
   /\ ShiftOnce("SRLS", r) = WithA(r, r.A \div 2)
   /\ ShiftOnce("SAS", r) = WithA(r, r.A \div 2 + Half * TopBit(r.A))
   /\ ShiftOnce("SRCS", r) = WithA(r, r.A \div 2 + Half * LowBit(r.A))
   /\ ShiftOnce("SLCS", r) = WithA(r, Doubled(r.A) + TopBit(r.A))
   /\ ShiftOnce("SLLD", r) = WithA(WithE(r, Doubled(r.E) + TopBit(r.A)), Doubled(r.A))
   /\ ShiftOnce("SRLD", r)
        = WithE(WithA(r, r.A \div 2 + Half * LowBit(r.E)), r.E \div 2)
   /\ ShiftOnce("SAD", r)
        = WithE(WithA(r, r.A \div 2 + Half * LowBit(r.E)),
                r.E \div 2 + Half * TopBit(r.E))
   /\ ShiftOnce("SLCD", r)
        = WithA(WithE(r, Doubled(r.E) + TopBit(r.A)), Doubled(r.A) + TopBit(r.E))
   /\ ShiftOnce("SRCD", r)
        = WithE(WithA(r, r.A \div 2 + Half * LowBit(r.E)),
                r.E \div 2 + Half * LowBit(r.A))
   /\ ShiftOnce("PTY", r)
        = WithC(WithE(WithA(r, Doubled(r.A) + TopBit(r.A)),
                      (r.E + TopBit(r.A)) % Modulus), TopBit(r.A))
<1> USE DEF Full, WithA, WithE, ShiftOnce
<1>1. ShiftOnce("SLLS", r) = WithA(r, Doubled(r.A))
  BY DEF shift_lls
<1>2. ShiftOnce("SRLS", r) = WithA(r, r.A \div 2)
  BY DEF shift_rls
<1>3. ShiftOnce("SAS", r) = WithA(r, r.A \div 2 + Half * TopBit(r.A))
  BY DEF shift_sas
<1>4. ShiftOnce("SRCS", r) = WithA(r, r.A \div 2 + Half * LowBit(r.A))
  BY DEF shift_srcs
<1>5. ShiftOnce("SLCS", r) = WithA(r, Doubled(r.A) + TopBit(r.A))
  BY DEF shift_slcs
<1>6. ShiftOnce("SLLD", r) = WithA(WithE(r, Doubled(r.E) + TopBit(r.A)), Doubled(r.A))
  BY DEF shift_lld
<1>7. ShiftOnce("SRLD", r)
        = WithE(WithA(r, r.A \div 2 + Half * LowBit(r.E)), r.E \div 2)
  BY DEF shift_rld
<1>8. ShiftOnce("SAD", r)
        = WithE(WithA(r, r.A \div 2 + Half * LowBit(r.E)),
                r.E \div 2 + Half * TopBit(r.E))
  BY DEF shift_sad
<1>9. ShiftOnce("SLCD", r)
        = WithA(WithE(r, Doubled(r.E) + TopBit(r.A)), Doubled(r.A) + TopBit(r.E))
  BY DEF shift_lcd
<1>10. ShiftOnce("SRCD", r)
         = WithE(WithA(r, r.A \div 2 + Half * LowBit(r.E)),
                 r.E \div 2 + Half * LowBit(r.A))
  BY DEF shift_rcd
<1>11. ShiftOnce("PTY", r)
         = WithC(WithE(WithA(r, Doubled(r.A) + TopBit(r.A)),
                       (r.E + TopBit(r.A)) % Modulus), TopBit(r.A))
  BY DEF ParityStep, shift_slcs, WithC
<1> QED  BY <1>1, <1>2, <1>3, <1>4, <1>5, <1>6, <1>7, <1>8, <1>9, <1>10, <1>11, Zenon

\* Assignments of several registers are made to the registers of the relative
\* machine as they are to those of the other one.
LEMMA ChainsRelative ==
  ASSUME NEW r, Full(r)
  PROVE  /\ \A a, e : /\ Full(WithE(WithA(r, a), e)) /\ Full(WithA(WithE(r, e), a))
                      /\ WithE(WithA(Relative(r), a), e) = Relative(WithE(WithA(r, a), e))
                      /\ WithA(WithE(Relative(r), e), a) = Relative(WithA(WithE(r, e), a))
         /\ \A a, x : /\ Full(WithX(WithA(r, a), x))
                      /\ WithX(WithA(Relative(r), a), x) = Relative(WithX(WithA(r, a), x))
         /\ \A e, x : /\ Full(WithX(WithE(r, e), x))
                      /\ WithX(WithE(Relative(r), e), x) = Relative(WithX(WithE(r, e), x))
         /\ \A e, c : /\ Full(WithC(WithE(r, e), c))
                      /\ WithC(WithE(Relative(r), e), c) = Relative(WithC(WithE(r, e), c))
         /\ \A a, e, c :
              /\ Full(WithC(WithE(WithA(r, a), e), c))
              /\ WithC(WithE(WithA(Relative(r), a), e), c)
                   = Relative(WithC(WithE(WithA(r, a), e), c))
         /\ \A a, c, o :
              /\ Full(WithOV(WithC(WithA(r, a), c), o))
              /\ WithOV(WithC(WithA(Relative(r), a), c), o)
                   = Relative(WithOV(WithC(WithA(r, a), c), o))
         /\ \A x, c, o :
              /\ Full(WithOV(WithC(WithX(r, x), c), o))
              /\ WithOV(WithC(WithX(Relative(r), x), c), o)
                   = Relative(WithOV(WithC(WithX(r, x), c), o))
<1>1. \A a : Full(WithA(r, a)) /\ WithA(Relative(r), a) = Relative(WithA(r, a))
  BY AssignedFields, RelativeAssigned
<1>2. \A e : Full(WithE(r, e)) /\ WithE(Relative(r), e) = Relative(WithE(r, e))
  BY AssignedFields, RelativeAssigned
<1>3. \A x : Full(WithX(r, x)) /\ WithX(Relative(r), x) = Relative(WithX(r, x))
  BY AssignedFields, RelativeAssigned
<1>4. \A a, e : /\ Full(WithE(WithA(r, a), e)) /\ Full(WithA(WithE(r, e), a))
                /\ WithE(WithA(Relative(r), a), e) = Relative(WithE(WithA(r, a), e))
                /\ WithA(WithE(Relative(r), e), a) = Relative(WithA(WithE(r, e), a))
  BY <1>1, <1>2, AssignedFields, RelativeAssigned
<1>5. \A a, x : /\ Full(WithX(WithA(r, a), x))
                /\ WithX(WithA(Relative(r), a), x) = Relative(WithX(WithA(r, a), x))
  BY <1>1, AssignedFields, RelativeAssigned
<1>6. \A e, x : /\ Full(WithX(WithE(r, e), x))
                /\ WithX(WithE(Relative(r), e), x) = Relative(WithX(WithE(r, e), x))
  BY <1>2, AssignedFields, RelativeAssigned
<1>7. \A e, c : /\ Full(WithC(WithE(r, e), c))
                /\ WithC(WithE(Relative(r), e), c) = Relative(WithC(WithE(r, e), c))
  BY <1>2, AssignedFields, RelativeAssigned
<1>8. \A a, e, c :
        /\ Full(WithC(WithE(WithA(r, a), e), c))
        /\ WithC(WithE(WithA(Relative(r), a), e), c)
             = Relative(WithC(WithE(WithA(r, a), e), c))
  BY <1>4, AssignedFields, RelativeAssigned
<1>9. \A s, c, o : Full(s) => /\ Full(WithOV(WithC(s, c), o))
                              /\ WithOV(WithC(Relative(s), c), o)
                                   = Relative(WithOV(WithC(s, c), o))
  BY AssignedFields, RelativeAssigned
<1> QED  BY <1>1, <1>3, <1>4, <1>5, <1>6, <1>7, <1>8, <1>9

LEMMA ShiftOnceRelative ==
  ASSUME NEW r, Full(r), NEW type \in Positions
  PROVE  /\ Full(ShiftOnce(type, r))
         /\ ShiftOnce(type, Relative(r)) = Relative(ShiftOnce(type, r))
<1> DEFINE s == Relative(r)
<1>1. Full(s) /\ s.A = r.A /\ s.E = r.E
  BY RelativeFields
<1>2. \A a : Full(WithA(r, a)) /\ WithA(s, a) = Relative(WithA(r, a))
  BY AssignedFields, RelativeAssigned
<1>3. \A a, e : /\ Full(WithE(WithA(r, a), e)) /\ Full(WithA(WithE(r, e), a))
                /\ WithE(WithA(s, a), e) = Relative(WithE(WithA(r, a), e))
                /\ WithA(WithE(s, e), a) = Relative(WithA(WithE(r, e), a))
  BY ChainsRelative
<1>4. \A a, e, c :
        /\ Full(WithC(WithE(WithA(r, a), e), c))
        /\ WithC(WithE(WithA(s, a), e), c) = Relative(WithC(WithE(WithA(r, a), e), c))
  BY ChainsRelative
<1> HIDE DEF s
<1> SUFFICES Full(ShiftOnce(type, r)) /\ ShiftOnce(type, s) = Relative(ShiftOnce(type, r))
  BY DEF s
<1>5. CASE type \in {"SLLS", "SRLS", "SAS", "SRCS", "SLCS"}
  BY <1>1, <1>2, <1>5, ShiftAssigns
<1>6. CASE type \in {"SAD", "SLCD", "SRCD", "SLLD", "SRLD"}
  BY <1>1, <1>3, <1>6, ShiftAssigns
<1>7. CASE type = "PTY"
  BY <1>1, <1>4, <1>7, ShiftAssigns
<1> QED  BY <1>5, <1>6, <1>7 DEF Positions

\* A shift of any count.
LEMMA RepeatRelative ==
  ASSUME NEW r \in Registers, NEW type \in Positions, NEW n \in Nat
  PROVE  /\ Repeat(type, n, r) \in Registers
         /\ Repeat(type, n, Relative(r)) = Relative(Repeat(type, n, r))
<1> DEFINE s == Relative(r)
           T == {k \in 0..n : Repeat(type, k, s) = Relative(Repeat(type, k, r))}
<1>1. s \in Registers /\ Machines(Registers)
  BY FullRegisters, RegistersAreMachines
<1> HIDE DEF s
<1>2. \A k \in Nat : /\ Repeat(type, 0, r) = r /\ Repeat(type, 0, s) = s
                     /\ Repeat(type, k, r) \in Registers
                     /\ Repeat(type, k + 1, r) = ShiftOnce(type, Repeat(type, k, r))
                     /\ Repeat(type, k + 1, s) = ShiftOnce(type, Repeat(type, k, s))
  BY <1>1, OneMore
<1>3. 0 \in T
  BY <1>2 DEF s
<1>4. ASSUME NEW k \in 0..n - 1, k \in T PROVE k + 1 \in T
  <2>1. k \in Nat /\ k + 1 \in 0..n
    OBVIOUS
  <2>2. Full(Repeat(type, k, r))
    BY <1>2, <2>1, FullRegisters
  <2>3. Repeat(type, k, s) = Relative(Repeat(type, k, r))
    BY <1>4
  <2> QED  BY <1>2, <2>1, <2>2, <2>3, ShiftOnceRelative
<1>5. n \in T
  <2>1. n \in 0..n
    OBVIOUS
  <2> HIDE DEF T
  <2> QED  BY <2>1, <1>3, <1>4, RangeInduction
<1> QED  BY <1>2, <1>5 DEF s

LEMMA ShiftRegisterRelative ==
  ASSUME NEW r \in Registers, NEW type \in Positions, NEW n \in Nat
  PROVE  ShiftRegister(type, n, Relative(r)) = Relative(ShiftRegister(type, n, r))
<1> DEFINE s == Repeat(type, n, r)
<1>1. Full(s) /\ Repeat(type, n, Relative(r)) = Relative(s)
  BY RepeatRelative, FullRegisters
<1> HIDE DEF s
<1>2. Relative(s).A = s.A
  BY <1>1, RelativeFields
<1>3. set_condition_codes_load(Relative(s), s.A) = Relative(set_condition_codes_load(s, s.A))
  BY <1>1, CodesRelative
<1> QED  BY <1>1, <1>2, <1>3 DEF ShiftRegister, s

LEMMA NormalRelative ==
  ASSUME NEW r \in Registers, NEW max \in Nat
  PROVE  normalize(Relative(r), max) = Relative(normalize(r, max))
<1> DEFINE top == 2 * Width - 1
           after(s, k) == Repeat("SLLD", k, s)
<1>1. \A k \in Nat : /\ after(r, k) \in Registers
                     /\ after(Relative(r), k) = Relative(after(r, k))
                     /\ Normal(after(Relative(r), k)) <=> Normal(after(r, k))
  <2> TAKE k \in Nat
  <2>1. after(r, k) \in Registers /\ after(Relative(r), k) = Relative(after(r, k))
    BY RepeatRelative DEF Positions
  <2>2. Relative(after(r, k)).E = after(r, k).E
    BY <2>1, FullRegisters, RelativeFields
  <2> HIDE DEF after
  <2> QED  BY <2>1, <2>2 DEF Normal
<1>2. NormalSteps(Relative(r), max) = NormalSteps(r, max)
  <2> DEFINE limit == Min({max, top})
             Stops(s, k) == /\ k = limit \/ Normal(after(s, k))
                            /\ \A j \in 0..k - 1 : ~(j = limit \/ Normal(after(s, j)))
  <2>1. \A s : NormalSteps(s, max) = CHOOSE k \in 0..limit : Stops(s, k)
    BY DEF NormalSteps
  <2>2. ASSUME NEW k \in 0..limit PROVE Stops(Relative(r), k) <=> Stops(r, k)
    <3>1. limit \in Int
      <4>1. max \in Int /\ top \in Int
        BY WidthAssumption
      <4> HIDE DEF top
      <4>2. \E x \in {max, top} : \A y \in {max, top} : x <= y
        BY <4>1
      <4>3. Min({max, top}) \in {max, top}
        BY <4>2 DEF Min
      <4> QED  BY <4>1, <4>3
    <3> HIDE DEF limit, after
    <3>2. k \in Nat /\ \A j \in 0..k - 1 : j \in Nat
      BY <3>1
    <3> QED  BY <1>1, <3>2
  <2> HIDE DEF limit, Stops
  <2> QED  BY <2>1, <2>2
<1> DEFINE n == NormalSteps(r, max)
           t == after(r, n)
           c == Test(n = max /\ n # 0)
           o == Test(n = 0)
           x == (t.X - n) % Modulus
           ends(q, k) == [after(q, k) EXCEPT !.X = (@ - k) % Modulus,
                                             !.C = Test(k = max /\ k # 0),
                                             !.OV = Test(k = 0)]
<1>3. n \in Nat
  BY NormalStops
<1>4. normalize(r, max) = ends(r, n) /\ normalize(Relative(r), max) = ends(Relative(r), n)
  <2>1. \A q : normalize(q, max) = ends(q, NormalSteps(q, max))
    BY NormalizeAt
  <2> HIDE DEF ends
  <2> QED  BY <1>2, <2>1
<1>5. t \in Registers /\ after(Relative(r), n) = Relative(t)
  <2> HIDE DEF n, after
  <2> QED  BY <1>1, <1>3
<1>6. Full(t) /\ Relative(t).X = t.X
  <2> HIDE DEF t
  <2> QED  BY <1>5, FullRegisters, RelativeFields
<1>7. \A q : after(q, n).X = t.X
               => ends(q, n) = WithOV(WithC(WithX(after(q, n), x), c), o)
  <2> HIDE DEF after
  <2> QED  BY DEF WithX, WithC, WithOV
<1> HIDE DEF n, c, o, ends, after
<1>8. /\ normalize(r, max) = WithOV(WithC(WithX(t, x), c), o)
      /\ normalize(Relative(r), max) = WithOV(WithC(WithX(Relative(t), x), c), o)
  BY <1>4, <1>5, <1>6, <1>7
<1> HIDE DEF x, t
<1> QED  BY <1>6, <1>8, ChainsRelative

\* PTY and NLZ, which are read from A and E.
LEMMA ParityRelative ==
  ASSUME NEW r \in Registers, NEW n \in Nat
  PROVE  compute_parity(Relative(r), n) = Relative(compute_parity(r, n))
<1> DEFINE s == WithC(WithE(r, 0), 0)
           t == Repeat("PTY", n, s)
<1>1. \A q : compute_parity(q, n)
               = LET end == Repeat("PTY", n, WithC(WithE(q, 0), 0))
                 IN  WithOV(end, LowBit(end.E))
  <2>1. \A q : [q EXCEPT !.E = 0, !.C = 0] = WithC(WithE(q, 0), 0)
    BY DEF WithC, WithE
  <2>2. \A q : compute_parity(q, n)
                 = LET end == Repeat("PTY", n, [q EXCEPT !.E = 0, !.C = 0])
                   IN  WithOV(end, LowBit(end.E))
    BY Zenon DEF compute_parity, WithOV
  <2> QED  BY <2>1, <2>2, Zenon
<1>2. s \in Registers
  BY WordsAndBytes, RegistersAreMachines, AssignedTogether DEF WithC, WithE, Flag
<1>3. WithC(WithE(Relative(r), 0), 0) = Relative(s)
  BY FullRegisters, ChainsRelative
<1> HIDE DEF s
<1>4. t \in Registers /\ Repeat("PTY", n, Relative(s)) = Relative(t)
  BY <1>2, RepeatRelative DEF Positions
<1>5. /\ compute_parity(r, n) = WithOV(t, LowBit(t.E))
      /\ compute_parity(Relative(r), n)
           = WithOV(Repeat("PTY", n, Relative(s)), LowBit(Repeat("PTY", n, Relative(s)).E))
  BY <1>1, <1>3 DEF s
<1> HIDE DEF t
<1>6. Full(t) /\ Relative(t).E = t.E
  BY <1>4, FullRegisters, RelativeFields
<1> QED  BY <1>4, <1>5, <1>6, RelativeAssigned

LEMMA SpecialShiftRelative ==
  ASSUME NEW r \in Registers, NEW type \in SpecialTypes, NEW n \in Nat
  PROVE  shift_instr(type, n, Relative(r)) = Relative(shift_instr(type, n, r))
<1>1. CASE type = "PTY"
  BY <1>1, ParityRelative DEF shift_instr
<1>2. CASE type = "NLZ"
  BY <1>2, NormalRelative DEF shift_instr
<1>3. CASE type \in {"SLLD", "SRLD"}
  <2> DEFINE s == Repeat(type, n, r)
  <2>1. Full(s) /\ Repeat(type, n, Relative(r)) = Relative(s)
    BY <1>3, RepeatRelative, FullRegisters DEF Positions
  <2>2. /\ shift_instr(type, n, r) = set_condition_codes_load(s, s.A)
        /\ shift_instr(type, n, Relative(r))
             = set_condition_codes_load(Relative(s), Relative(s).A)
    BY <1>3, <2>1 DEF shift_instr
  <2> HIDE DEF s
  <2>3. Relative(s).A = s.A
    BY <2>1, RelativeFields
  <2> QED  BY <2>1, <2>2, <2>3, CodesRelative
<1>4. CASE type = "unknown"
  <2>1. Full(r) /\ Relative(r).A = r.A
    BY FullRegisters, RelativeFields
  <2>2. \A q : shift_instr(type, n, q) = set_condition_codes_load(q, q.A)
    BY <1>4 DEF shift_instr
  <2> QED  BY <2>1, <2>2, CodesRelative
<1> QED  BY <1>1, <1>2, <1>3, <1>4 DEF SpecialTypes

LEMMA SetRegisterRelative ==
  ASSUME NEW r, Full(r), NEW type \in RegisterTypes
  PROVE  set_register(type, Relative(r)) = Relative(set_register(type, r))
<1> DEFINE s == Relative(r)
<1>1. /\ Full(s) /\ s.A = r.A /\ s.E = r.E /\ s.X = r.X /\ s.C = r.C
  BY RelativeFields
<1>2. /\ \A a : Full(WithA(r, a)) /\ WithA(s, a) = Relative(WithA(r, a))
      /\ \A e : Full(WithE(r, e)) /\ WithE(s, e) = Relative(WithE(r, e))
      /\ \A x : Full(WithX(r, x)) /\ WithX(s, x) = Relative(WithX(r, x))
  BY AssignedFields, RelativeAssigned
<1>3. /\ \A a, e : WithE(WithA(s, a), e) = Relative(WithE(WithA(r, a), e))
      /\ \A a, x : WithX(WithA(s, a), x) = Relative(WithX(WithA(r, a), x))
      /\ \A e, x : WithX(WithE(s, e), x) = Relative(WithX(WithE(r, e), x))
  BY ChainsRelative
<1>4. \A q : Full(q) => TestedA(Relative(q)) = Relative(TestedA(q))
  BY CodesRelative, RelativeFields DEF TestedA
<1>5. \A q : /\ set_register("XAE", q) = WithE(WithA(q, q.E), q.A)
             /\ set_register("XAX", q) = WithX(WithA(q, q.X), q.A)
             /\ set_register("XEX", q) = WithX(WithE(q, q.X), q.E)
             /\ set_register("XAA", q) = WithA(q, Join(Right(q.A), Left(q.A)))
             /\ set_register("CCE", q) = WithE(q, Complement(q.E))
             /\ set_register("CCA", q) = WithA(q, Complement(q.A))
             /\ set_register("CNX", q) = WithX(q, (-q.X) % Modulus)
             /\ set_register("LNE", q) = WithE(q, Modulus - 1)
             /\ set_register("CHX", q) = WithX(q, q.X \div 2 + Half * TopBit(q.X))
  BY AssignedChains, ZenonT(60) DEF set_register, WithA, WithE, WithX
<1>6. \A q : /\ set_register("ACE", q) = TestedA(WithE(q, (q.E + q.C) % Modulus))
             /\ set_register("AEE", q) = TestedA(WithA(q, BitXor(q.A, q.E)))
             /\ set_register("AIE", q) = TestedA(WithA(q, BitOr(q.A, q.E)))
             /\ set_register("AAE", q) = TestedA(WithA(q, BitAnd(q.A, q.E)))
             /\ set_register("CNA", q) = TestedA(WithA(q, (-q.A) % Modulus))
  BY DEF set_register, WithA, WithE
<1> HIDE DEF s
<1>7. CASE type \in {"XAE", "XAX", "XEX"}
  BY <1>1, <1>3, <1>5, <1>7 DEF s
<1>8. CASE type \in {"XAA", "CCE", "CCA", "CNX", "LNE", "CHX"}
  BY <1>1, <1>2, <1>5, <1>8 DEF s
<1>9. CASE type \in {"ACE", "AEE", "AIE", "AAE", "CNA"}
  BY <1>1, <1>2, <1>4, <1>6, <1>9 DEF s
<1> QED  BY <1>7, <1>8, <1>9 DEF RegisterTypes

WithSum(r, t) == [r EXCEPT !.A = t.result, !.C = t.carry, !.OV = t.overflow]

\* ADD and its like: the sum is assigned as a whole.
LEMMA SumRelative ==
  ASSUME NEW r, Full(r), NEW t
  PROVE  WithSum(Relative(r), t) = Relative(WithSum(r, t))
<1>1. \A q : WithSum(q, t) = WithOV(WithC(WithA(q, t.result), t.carry), t.overflow)
  BY DEF WithA, WithC, WithOV, WithSum
<1> DEFINE a == t.result
           c == t.carry
           o == t.overflow
<1>2. WithOV(WithC(WithA(Relative(r), a), c), o) = Relative(WithOV(WithC(WithA(r, a), c), o))
  BY ChainsRelative
<1> QED  BY <1>1, <1>2, Zenon

\* What a load and a store leave in the registers and store.
LEMMA LoadRelative ==
  ASSUME NEW r, Full(r), NEW op \in LoadOperations, NEW m
  PROVE  Mem_OP_Reg_To_Reg(op, Relative(r), m) = Relative(Mem_OP_Reg_To_Reg(op, r, m))
<1> DEFINE s == Relative(r)
           Loads(q, v) == set_condition_codes_load(q, v)
<1>1. Full(s) /\ s.A = r.A /\ s.E = r.E
  BY RelativeFields
<1>2. /\ \A a, v : Loads(WithA(s, a), v) = Relative(Loads(WithA(r, a), v))
      /\ \A x, v : Loads(WithX(s, x), v) = Relative(Loads(WithX(r, x), v))
      /\ \A e, v : Loads(WithE(s, e), v) = Relative(Loads(WithE(r, e), v))
      /\ \A a, e, v : Loads(WithA(WithE(s, e), a), v)
                        = Relative(Loads(WithA(WithE(r, e), a), v))
      /\ \A a, e, v : Loads(WithE(WithA(s, a), e), v)
                        = Relative(Loads(WithE(WithA(r, a), e), v))
  BY AssignedFields, RelativeAssigned, ChainsRelative, CodesRelative
<1>3. \A a, e : /\ WithE(WithA(s, a), e).A = a /\ WithE(WithA(r, a), e).A = a
                /\ WithOV(WithE(WithA(s, a), e), 1) = Relative(WithOV(WithE(WithA(r, a), e), 1))
  BY <1>1, AssignedFields, RelativeAssigned, ChainsRelative
<1>4. \A t : WithSum(s, t) = Relative(WithSum(r, t))
  BY SumRelative
<1>5. \A q : /\ Mem_OP_Reg_To_Reg("LDA", q, m) = Loads(WithA(q, m), m)
             /\ Mem_OP_Reg_To_Reg("LDE", q, m) = Loads(WithE(q, m), m)
             /\ Mem_OP_Reg_To_Reg("LDX", q, m) = Loads(WithX(q, m), m)
             /\ Mem_OP_Reg_To_Reg("EOR", q, m)
                  = Loads(WithA(q, BitXor(q.A, m)), BitXor(q.A, m))
             /\ Mem_OP_Reg_To_Reg("IOR", q, m)
                  = Loads(WithA(q, BitOr(q.A, m)), BitOr(q.A, m))
             /\ Mem_OP_Reg_To_Reg("AND", q, m)
                  = Loads(WithA(q, BitAnd(q.A, m)), BitAnd(q.A, m))
             /\ Mem_OP_Reg_To_Reg("LBL", q, m)
                  = Loads(WithA(q, Join(Right(m), Right(q.A))), Join(Right(m), Right(q.A)))
             /\ Mem_OP_Reg_To_Reg("LBR", q, m) = Loads(WithA(q, Right(m)), Right(m))
             /\ Mem_OP_Reg_To_Reg("LBX", q, m) = Loads(WithX(q, Right(m)), Right(m))
  BY DEF Mem_OP_Reg_To_Reg, WithA, WithE, WithX
<1>6. \A q : /\ Mem_OP_Reg_To_Reg("ADD", q, m) = WithSum(q, add16(q.A, m))
             /\ Mem_OP_Reg_To_Reg("SUB", q, m) = WithSum(q, sub16(q.A, m))
             /\ Mem_OP_Reg_To_Reg("CMP", q, m) = set_condition_codes_compare(q, q.A, m)
  BY DEF Mem_OP_Reg_To_Reg, WithSum
<1>7. \A q : Mem_OP_Reg_To_Reg("MUL", q, m)
               = Loads(WithA(WithE(q, mul32(q.A, m).high), mul32(q.A, m).low),
                       mul32(q.A, m).high)
  BY DEF Mem_OP_Reg_To_Reg, WithA, WithE
<1>8. \A q : Mem_OP_Reg_To_Reg("DIV", q, m)
               = LET division == div32(q, m)
                     divided == WithE(WithA(q, division.A), division.E)
                 IN  IF division.ok THEN Loads(divided, divided.A) ELSE WithOV(divided, 1)
  BY DEF Mem_OP_Reg_To_Reg, WithA, WithE, WithOV
<1>9. div32(s, m) = div32(r, m)
  BY <1>1, Zenon DEF div32, Dividend
<1>10. set_condition_codes_compare(s, s.A, m) = Relative(set_condition_codes_compare(r, r.A, m))
  BY <1>1, CodesRelative
<1> HIDE DEF s, Loads
<1>11. CASE op \in {"LDA", "LDE", "LDX", "EOR", "IOR", "AND", "LBL", "LBR", "LBX"}
  BY <1>1, <1>2, <1>5, <1>11 DEF s
<1>12. CASE op \in {"ADD", "SUB", "CMP"}
  BY <1>1, <1>4, <1>6, <1>10, <1>12 DEF s
<1>13. CASE op = "MUL"
  BY <1>1, <1>2, <1>7, <1>13 DEF s
<1>14. CASE op = "DIV"
  <2> DEFINE division == div32(r, m)
  <2>1. /\ Mem_OP_Reg_To_Reg("DIV", r, m)
             = IF division.ok
                 THEN Loads(WithE(WithA(r, division.A), division.E), division.A)
                 ELSE WithOV(WithE(WithA(r, division.A), division.E), 1)
        /\ Mem_OP_Reg_To_Reg("DIV", s, m)
             = IF division.ok
                 THEN Loads(WithE(WithA(s, division.A), division.E), division.A)
                 ELSE WithOV(WithE(WithA(s, division.A), division.E), 1)
    BY <1>3, <1>8, <1>9
  <2> HIDE DEF division
  <2> QED  BY <1>2, <1>3, <1>14, <2>1 DEF s
<1> QED  BY <1>11, <1>12, <1>13, <1>14 DEF LoadOperations

LEMMA StoreRelative ==
  ASSUME NEW r, Full(r), NEW op, NEW m
  PROVE  /\ StoredValue(op, Relative(r), m) = StoredValue(op, r, m)
         /\ AfterStore(op, Relative(r), m) = Relative(AfterStore(op, r, m))
<1> DEFINE s == Relative(r)
<1>1. Full(s) /\ s.A = r.A /\ s.E = r.E /\ s.X = r.X
  BY RelativeFields
<1>2. \A t : WithSum(s, t) = Relative(WithSum(r, t))
  BY SumRelative
<1>3. \A v : set_condition_codes_load(s, v) = Relative(set_condition_codes_load(r, v))
  BY CodesRelative
<1>4. \A q : AfterStore(op, q, m)
               = IF op = "ADM" THEN WithSum(q, add16(m, q.A))
                 ELSE IF op = "STS" THEN set_condition_codes_load(q, StoredValue(op, q, m))
                 ELSE q
  BY DEF AfterStore, WithSum
<1> HIDE DEF s
<1>5. StoredValue(op, s, m) = StoredValue(op, r, m)
  BY <1>1, Zenon DEF StoredValue
<1>6. AfterStore(op, s, m) = Relative(AfterStore(op, r, m))
  BY <1>1, <1>2, <1>3, <1>4, <1>5 DEF s
<1> QED  BY <1>5, <1>6 DEF s

----------------------------------------------------------------------------
(* The relative machine is the same program. *)

\* It has the words and the places of the other one.
LEMMA VirtualWords ==
  /\ Virtual!Modulus = Modulus
  /\ \A v : Virtual!Test(v) = Test(v)
  /\ \A v : Virtual!Negative(v) = Negative(v)
  /\ \A v : Virtual!Right(v) = Right(v)
  /\ \A va : Virtual!Cell(va) = Cell(va)
  /\ \A m, va : Virtual!read_word(m, va) = read_word(m, va)
  /\ \A m, va : Virtual!read_byte(m, va) = read_byte(m, va)
  /\ \A r, va : Virtual!Refused(r, va) = Refused(r, va)
  /\ \A r, m, va, v : Virtual!write_word(r, m, va, v) = write_word(r, m, va, v)
  /\ \A r, m, va, v : Virtual!write_byte(r, m, va, v) = write_byte(r, m, va, v)
  /\ \A r : Virtual!GPRIME(r) = GPRIME(r)
  /\ \A r : Virtual!Link(r) = Link(r)
  /\ \A b, s : Virtual!Entry(b, s) = Entry(b, s)
<1>1. Virtual!Modulus = Modulus
  BY ZenonT(60)
         DEF Virtual!Modulus, Modulus
<1>2. \A v : Virtual!Test(v) = Test(v)
  BY ZenonT(60)
         DEF Virtual!Test, Test
<1>3. \A v : Virtual!Negative(v) = Negative(v)
  BY ZenonT(60)
         DEF Virtual!Negative, Negative
<1>4. \A v : Virtual!Right(v) = Right(v)
  BY ZenonT(60)
         DEF Virtual!Right, Right
<1>5. \A va : Virtual!Cell(va) = Cell(va)
  BY ZenonT(60)
         DEF Virtual!Cell, Virtual!VA_TO_PA, Cell, VA_TO_PA
<1>6. \A m, va : Virtual!read_word(m, va) = read_word(m, va)
  BY ZenonT(60)
         DEF Virtual!Cell, Virtual!VA_TO_PA, Virtual!read_word, Cell, VA_TO_PA,
             read_word
<1>7. \A m, va : Virtual!read_byte(m, va) = read_byte(m, va)
  BY ZenonT(60)
         DEF Virtual!Cell, Virtual!Left, Virtual!Right, Virtual!VA_TO_PA,
             Virtual!read_byte, Cell, Left, Right, VA_TO_PA, read_byte
<1>8. \A r, va : Virtual!Refused(r, va) = Refused(r, va)
  BY ZenonT(60)
         DEF Virtual!Cell, Virtual!Refused, Virtual!VA_TO_PA, Cell, Refused, VA_TO_PA
<1>9. \A r, m, va, v : Virtual!write_word(r, m, va, v) = write_word(r, m, va, v)
  BY ZenonT(60)
         DEF Virtual!Cell, Virtual!Refused, Virtual!VA_TO_PA, Virtual!write_word, Cell,
             Refused, VA_TO_PA, write_word
<1>10. \A r, m, va, v : Virtual!write_byte(r, m, va, v) = write_byte(r, m, va, v)
  BY ZenonT(60)
         DEF Virtual!Cell, Virtual!Join, Virtual!Left, Virtual!Refused, Virtual!Right,
             Virtual!VA_TO_PA, Virtual!write_byte, Virtual!write_word, Cell, Join,
             Left, Refused, Right, VA_TO_PA, write_byte, write_word
<1>11. \A r : Virtual!GPRIME(r) = GPRIME(r)
  BY ZenonT(60)
         DEF Virtual!GPRIME, GPRIME
<1>12. \A r : Virtual!Link(r) = Link(r)
  BY ZenonT(60)
         DEF Virtual!GPRIME, Virtual!Link, Virtual!Modulus, GPRIME, Link, Modulus
<1>13. \A b, s : Virtual!Entry(b, s) = Entry(b, s)
  BY ZenonT(60)
         DEF Virtual!Entry, Virtual!Modulus, Entry, Modulus
<1> QED  BY <1>1, <1>2, <1>3, <1>4, <1>5, <1>6, <1>7, <1>8, <1>9, <1>10, <1>11, <1>12, <1>13

\* It has the same operations.
LEMMA VirtualOperations ==
  /\ \A r, v : 
       Virtual!set_condition_codes_load(r, v)
         = set_condition_codes_load(r, v)
  /\ \A r, m : Virtual!DivisionFaults(r, m) = DivisionFaults(r, m)
  /\ \A op, r, m : 
       Virtual!Mem_OP_Reg_To_Reg(op, r, m)
         = Mem_OP_Reg_To_Reg(op, r, m)
  /\ \A op, r, m : Virtual!StoredValue(op, r, m) = StoredValue(op, r, m)
  /\ \A op, r, m : Virtual!AfterStore(op, r, m) = AfterStore(op, r, m)
  /\ \A op, r, n : Virtual!Stepped(op, r, n) = Stepped(op, r, n)
  /\ \A t, n, r : Virtual!ShiftRegister(t, n, r) = ShiftRegister(t, n, r)
  /\ \A t, n, r : Virtual!shift_instr(t, n, r) = shift_instr(t, n, r)
  /\ \A t, r : Virtual!set_register(t, r) = set_register(t, r)
  /\ \A r, n : Virtual!RegisterValue(r, n) = RegisterValue(r, n)
  /\ \A r, n, v : Virtual!WithRegister(r, n, v) = WithRegister(r, n, v)
<1>1. \A r, v : 
       Virtual!set_condition_codes_load(r, v)
         = set_condition_codes_load(r, v)
  BY ZenonT(60)
         DEF Virtual!Negative, Virtual!Test, Virtual!set_condition_codes_load,
             Negative, Test, set_condition_codes_load
<1>2. \A r, m : Virtual!DivisionFaults(r, m) = DivisionFaults(r, m)
  BY ZenonT(60)
         DEF Virtual!DivisionFaults, Virtual!Modulus, Virtual!Signed, DivisionFaults,
             Modulus, Signed
<1>3. ASSUME NEW op, NEW r, NEW m
      PROVE  Virtual!Mem_OP_Reg_To_Reg(op, r, m) = Mem_OP_Reg_To_Reg(op, r, m)
  BY ZenonT(60)
         DEF Virtual!BitAnd, Virtual!BitOr, Virtual!BitXor, Virtual!Bits,
             Virtual!Dividend, Virtual!FromBits, Virtual!Join,
             Virtual!Mem_OP_Reg_To_Reg, Virtual!Modulus, Virtual!Negative,
             Virtual!Quotient, Virtual!Right, Virtual!Signed, Virtual!Test,
             Virtual!add16, Virtual!div32, Virtual!mul32,
             Virtual!set_condition_codes_compare, Virtual!set_condition_codes_load,
             Virtual!sub16, BitAnd, BitOr, BitXor, Bits, Dividend, FromBits, Join,
             Mem_OP_Reg_To_Reg, Modulus, Negative, Quotient, Right, Signed, Test,
             add16, div32, mul32, set_condition_codes_compare,
             set_condition_codes_load, sub16
<1>4. \A op, r, m : Virtual!StoredValue(op, r, m) = StoredValue(op, r, m)
  BY ZenonT(60)
         DEF Virtual!BitAnd, Virtual!BitOr, Virtual!Bits, Virtual!Complement,
             Virtual!FromBits, Virtual!Join, Virtual!Left, Virtual!Modulus,
             Virtual!Negative, Virtual!Right, Virtual!StoredValue, Virtual!Test,
             Virtual!add16, BitAnd, BitOr, Bits, Complement, FromBits, Join, Left,
             Modulus, Negative, Right, StoredValue, Test, add16
<1>5. ASSUME NEW op, NEW r, NEW m
      PROVE  Virtual!AfterStore(op, r, m) = AfterStore(op, r, m)
  BY ZenonT(60)
         DEF Virtual!AfterStore, Virtual!BitAnd, Virtual!BitOr, Virtual!Bits,
             Virtual!Complement, Virtual!FromBits, Virtual!Join, Virtual!Left,
             Virtual!Modulus, Virtual!Negative, Virtual!Right, Virtual!StoredValue,
             Virtual!Test, Virtual!add16, Virtual!set_condition_codes_load, AfterStore,
             BitAnd, BitOr, Bits, Complement, FromBits, Join, Left, Modulus, Negative,
             Right, StoredValue, Test, add16, set_condition_codes_load
<1>6. \A op, r, n : Virtual!Stepped(op, r, n) = Stepped(op, r, n)
  BY ZenonT(60)
         DEF Virtual!Modulus, Virtual!Stepped, Modulus, Stepped
<1>7. ASSUME NEW t, NEW n, NEW r
      PROVE  Virtual!ShiftRegister(t, n, r) = ShiftRegister(t, n, r)
  BY ZenonT(60)
         DEF Virtual!Doubled, Virtual!LowBit, Virtual!Modulus, Virtual!Negative,
             Virtual!ParityStep, Virtual!Repeat, Virtual!ShiftOnce,
             Virtual!ShiftRegister, Virtual!Test, Virtual!TopBit,
             Virtual!set_condition_codes_load, Virtual!shift_lcd, Virtual!shift_lld,
             Virtual!shift_lls, Virtual!shift_rcd, Virtual!shift_rld,
             Virtual!shift_rls, Virtual!shift_sad, Virtual!shift_sas,
             Virtual!shift_slcs, Virtual!shift_srcs, Doubled, LowBit, Modulus,
             Negative, ParityStep, Repeat, ShiftOnce, ShiftRegister, Test, TopBit,
             set_condition_codes_load, shift_lcd, shift_lld, shift_lls, shift_rcd,
             shift_rld, shift_rls, shift_sad, shift_sas, shift_slcs, shift_srcs
<1>8. ASSUME NEW t, NEW n, NEW r
      PROVE  Virtual!shift_instr(t, n, r) = shift_instr(t, n, r)
  BY ZenonT(60)
         DEF Virtual!Doubled, Virtual!LowBit, Virtual!Modulus, Virtual!Negative,
             Virtual!Normal, Virtual!ParityStep, Virtual!Repeat, Virtual!ShiftOnce,
             Virtual!Test, Virtual!TopBit, Virtual!compute_parity, Virtual!normalize,
             Virtual!set_condition_codes_load, Virtual!shift_instr, Virtual!shift_lcd,
             Virtual!shift_lld, Virtual!shift_lls, Virtual!shift_rcd,
             Virtual!shift_rld, Virtual!shift_rls, Virtual!shift_sad,
             Virtual!shift_sas, Virtual!shift_slcs, Virtual!shift_srcs, Doubled,
             LowBit, Modulus, Negative, Normal, ParityStep, Repeat, ShiftOnce, Test,
             TopBit, compute_parity, normalize, set_condition_codes_load, shift_instr,
             shift_lcd, shift_lld, shift_lls, shift_rcd, shift_rld, shift_rls,
             shift_sad, shift_sas, shift_slcs, shift_srcs,
             Virtual!Min, Min
<1>9. \A t, r : Virtual!set_register(t, r) = set_register(t, r)
  BY ZenonT(60)
         DEF Virtual!BitAnd, Virtual!BitOr, Virtual!BitXor, Virtual!Bits,
             Virtual!Complement, Virtual!FromBits, Virtual!Join, Virtual!Left,
             Virtual!Modulus, Virtual!Negative, Virtual!Right, Virtual!Test,
             Virtual!TestedA, Virtual!TopBit, Virtual!set_condition_codes_load,
             Virtual!set_register, BitAnd, BitOr, BitXor, Bits, Complement, FromBits,
             Join, Left, Modulus, Negative, Right, Test, TestedA, TopBit,
             set_condition_codes_load, set_register
<1>10. \A r, n : Virtual!RegisterValue(r, n) = RegisterValue(r, n)
  BY ZenonT(60)
         DEF Virtual!RegisterNames, Virtual!RegisterValue, RegisterNames,
             RegisterValue
<1>11. \A r, n, v : Virtual!WithRegister(r, n, v) = WithRegister(r, n, v)
  BY ZenonT(60)
         DEF Virtual!RegisterNames, Virtual!WithRegister, RegisterNames, WithRegister
<1> QED  BY <1>1, <1>2, <1>3, <1>4, <1>5, <1>6, <1>7, <1>8, <1>9, <1>10, <1>11

\* It has the same names.
LEMMA VirtualNames ==
  /\ Virtual!LoadOperations = LoadOperations
  /\ Virtual!StoreOperations = StoreOperations
  /\ Virtual!RegisterTypes = RegisterTypes
  /\ Virtual!MemoryForms = MemoryForms
  /\ Virtual!ParameterForms = ParameterForms
  /\ Virtual!BranchOperations = BranchOperations
  /\ Virtual!BranchForms = BranchForms
  /\ Virtual!Displacements = Displacements
  /\ \A op, form, d : Virtual!Privileged(op, form, d) = Privileged(op, form, d)
  /\ \A types, p : Virtual!ShiftType(types, p) = ShiftType(types, p)
  /\ Virtual!shr_types = shr_types
  /\ Virtual!shc_types = shc_types
  /\ Virtual!srg_types = srg_types
<1>1. Virtual!LoadOperations = LoadOperations
  BY ZenonT(60)
         DEF Virtual!LoadOperations, LoadOperations
<1>2. Virtual!StoreOperations = StoreOperations
  BY ZenonT(60)
         DEF Virtual!StoreOperations, StoreOperations
<1>3. Virtual!RegisterTypes = RegisterTypes
  BY ZenonT(60)
         DEF Virtual!RegisterTypes, RegisterTypes
<1>4. Virtual!MemoryForms = MemoryForms
  BY ZenonT(60)
         DEF Virtual!MemoryForms, MemoryForms
<1>5. Virtual!ParameterForms = ParameterForms
  BY ZenonT(60)
         DEF Virtual!ParameterForms, ParameterForms
<1>6. Virtual!BranchOperations = BranchOperations
  BY ZenonT(60)
         DEF Virtual!BranchOperations, BranchOperations
<1>7. Virtual!BranchForms = BranchForms
  BY ZenonT(60)
         DEF Virtual!BranchForms, BranchForms
<1>8. Virtual!Displacements = Displacements
  BY ZenonT(60)
         DEF Virtual!Displacements, Displacements
<1>9. \A op, form, d : Virtual!Privileged(op, form, d) = Privileged(op, form, d)
  BY ZenonT(60)
         DEF Virtual!Privileged, Privileged
<1>10. \A types, p : Virtual!ShiftType(types, p) = ShiftType(types, p)
  BY ZenonT(60)
         DEF Virtual!ShiftType, ShiftType
<1>11. Virtual!shr_types = shr_types
  BY ZenonT(60)
         DEF Virtual!shr_types, shr_types
<1>12. Virtual!shc_types = shc_types
  BY ZenonT(60)
         DEF Virtual!shc_types, shc_types
<1>13. Virtual!srg_types = srg_types
  BY ZenonT(60)
         DEF Virtual!srg_types, srg_types
<1> QED  BY <1>1, <1>2, <1>3, <1>4, <1>5, <1>6, <1>7, <1>8, <1>9, <1>10, <1>11, <1>12, <1>13

----------------------------------------------------------------------------
(* The addresses of a slave program and those of the relative machine. *)

Slave ==
  /\ TypeOK /\ Running
  /\ cpu.MS = 0 /\ cpu.MP = {} /\ cpu.G % 2 = 0

\* An address of the relative machine and the one it stands for.
Meets(a, b) == a \in Int /\ b \in Int /\ (b - a - cpu.G) % Modulus = 0

\* The types of the registers of a slave, whose G' is G.
LEMMA SlaveTypes ==
  ASSUME Slave
  PROVE  /\ Ready /\ cpu \in Registers /\ Full(cpu) /\ mem \in Memory
         /\ cpu.A \in Int /\ cpu.E \in Nat /\ cpu.X \in Int
         /\ cpu.P \in Int /\ cpu.L \in Int /\ cpu.G \in Int
         /\ GPRIME(cpu) = cpu.G
         /\ Modulus \in Nat \ {0} /\ Half \in Nat \ {0} /\ Modulus = 2 * Half
<1>1. Ready
  BY DEF Slave, Ready
<1>2. GPRIME(cpu) = cpu.G
  BY DEF Slave, GPRIME
<1>3. Modulus \in Nat \ {0} /\ Half \in Nat \ {0} /\ Modulus = 2 * Half
  BY Halves DEF Modulus
<1> QED  BY <1>1, <1>2, <1>3, ReadyTypes, FullRegisters

LEMMA Relatives ==
  ASSUME Slave
  PROVE  /\ Relative(cpu).A = cpu.A /\ Relative(cpu).E = cpu.E /\ Relative(cpu).X = cpu.X
         /\ Relative(cpu).C = cpu.C /\ Relative(cpu).OV = cpu.OV
         /\ Relative(cpu).MS = 0 /\ Relative(cpu).MP = {} /\ Relative(cpu).PR = cpu.PR
         /\ Relative(cpu).P = (cpu.P - cpu.G) % Modulus
         /\ Relative(cpu).L = (cpu.L - cpu.G) % Modulus
         /\ Relative(cpu).G = 0 /\ GPRIME(Relative(cpu)) = 0
<1>1. cpu \in Registers /\ cpu.MS = 0 /\ cpu.MP = {}
  BY SlaveTypes DEF Slave
<1> QED  BY <1>1 DEF Relative, Registers, GPRIME

\* Two addresses meet when they are G and whole turns apart.
LEMMA MeetsTurns ==
  ASSUME Slave, NEW a \in Int, NEW b \in Int
  PROVE  Meets(a, b) <=> \E k \in Int : b = a + cpu.G + k * Modulus
<1> DEFINE M == Modulus
           g == cpu.G
           x == b - a - g
           q == x \div M
           j == x % M
<1>1. M \in Nat \ {0} /\ g \in Int
  BY SlaveTypes
<1>2. x \in Int
  BY <1>1
<1> HIDE DEF M, g
<1>3. q \in Int /\ j \in 0..M - 1 /\ x = q * M + j
  <2> HIDE DEF x
  <2> QED  BY <1>1, <1>2
<1>4. ASSUME x % M = 0 PROVE \E k \in Int : b = a + g + k * M
  <2> DEFINE t == q * M
  <2>1. t \in Int /\ x = t
    BY <1>1, <1>3, <1>4
  <2> HIDE DEF t, q
  <2>2. b = a + g + t
    BY <1>1, <2>1
  <2> QED  BY <1>3, <2>2 DEF t
<1>5. ASSUME NEW k \in Int, b = a + g + k * M PROVE x % M = 0
  <2> DEFINE t == k * M
  <2>1. t \in Int /\ b = a + g + t
    BY <1>1, <1>5
  <2> HIDE DEF t
  <2>2. x = t
    BY <1>1, <2>1
  <2>3. (k * M + 0) % M = 0
    BY <1>1, Divided
  <2>4. k * M + 0 = k * M
    BY <2>1 DEF t
  <2> QED  BY <2>2, <2>3, <2>4 DEF t
<1> QED  BY <1>4, <1>5 DEF Meets, M, g

LEMMA MeetsMoved ==
  ASSUME Slave, NEW a, NEW b, Meets(a, b), NEW d \in Int
  PROVE  Meets(a + d, b + d)
<1>1. a \in Int /\ b \in Int /\ cpu.G \in Int /\ (b - a - cpu.G) % Modulus = 0
  BY SlaveTypes DEF Meets
<1>2. (b + d) - (a + d) - cpu.G = b - a - cpu.G
  BY <1>1
<1> QED  BY <1>1, <1>2 DEF Meets

\* Cut to a word, they still meet: the relative one is the other less G.
LEMMA MeetsReduced ==
  ASSUME Slave, NEW a, NEW b, Meets(a, b)
  PROVE  Meets(a % Modulus, b % Modulus) /\ a % Modulus = (b - cpu.G) % Modulus
<1> DEFINE M == Modulus
           g == cpu.G
<1>1. a \in Int /\ b \in Int /\ g \in Int /\ M \in Nat \ {0}
  BY SlaveTypes DEF Meets
<1>2. PICK k \in Int : b = a + g + k * M
  BY <1>1, MeetsTurns
<1> HIDE DEF M, g
<1> DEFINE p == a \div M
           q == b \div M
           i == a % M
           j == b % M
<1>3. p \in Int /\ i \in 0..M - 1 /\ a = p * M + i
  BY <1>1
<1>4. q \in Int /\ j \in 0..M - 1 /\ b = q * M + j
  BY <1>1
<1> HIDE DEF p, q
<1> DEFINE s == p * M
           t == q * M
           u == k * M
<1>5. s \in Int /\ t \in Int /\ u \in Int /\ (s + u) - t = (p + k - q) * M
  BY <1>1, <1>3, <1>4
<1>6. j = i + g + ((s + u) - t)
  <2>1. i \in Int /\ j \in Int /\ a = s + i /\ b = t + j /\ b = a + g + u
    BY <1>2, <1>3, <1>4
  <2> HIDE DEF s, t, u, i, j
  <2> QED  BY <1>1, <1>5, <2>1
<1>7. p + k - q \in Int /\ i \in Int /\ j \in Int
  BY <1>3, <1>4
<1>8. Meets(i, j)
  <2> HIDE DEF s, t, u, i, j
  <2>1. j = i + g + (p + k - q) * M
    BY <1>5, <1>6
  <2> QED  BY <1>7, <2>1, MeetsTurns DEF M, g
<1>9. (b - g) % M = i
  <2>1. b - g = s + i + u
    BY <1>1, <1>2, <1>3
  <2>2. s + i + u = (p + k) * M + i
    BY <1>1, <1>3
  <2>3. ((p + k) * M + i) % M = i
    <3> HIDE DEF i
    <3>1. p + k \in Int
      BY <1>3
    <3> QED  BY <1>1, <1>3, <3>1, Divided
  <2> QED  BY <2>1, <2>2, <2>3
<1> QED  BY <1>8, <1>9 DEF M, g

----------------------------------------------------------------------------
(* The memory of the relative machine. *)

\* A number of words added to a word, around the end of memory.
LEMMA Around ==
  ASSUME NEW h \in Nat \ {0}, NEW i \in 0..h - 1, NEW c \in 0..h - 1
  PROVE  /\ (i + c) % h = IF i + c < h THEN i + c ELSE i + c - h
         /\ \A j \in 0..h - 1 : (i + c) % h = (j + c) % h => i = j
<1>1. ASSUME NEW n \in 0..h - 1
      PROVE  (n + c) % h = IF n + c < h THEN n + c ELSE n + c - h
  <2>1. CASE n + c < h
    <3> DEFINE x == n + c
    <3>1. x \in 0..h - 1
      BY <2>1
    <3> HIDE DEF x
    <3>2. x % h = x
      BY <3>1
    <3> QED  BY <2>1, <3>2 DEF x
  <2>2. CASE ~(n + c < h)
    <3> DEFINE x == n + c - h
    <3>1. x \in 0..h - 1 /\ n + c = 1 * h + x
      BY <2>2
    <3> HIDE DEF x
    <3>2. (1 * h + x) % h = x
      BY <3>1, Divided
    <3> QED  BY <2>2, <3>1, <3>2 DEF x
  <2> QED  BY <2>1, <2>2
<1> QED  BY <1>1

\* Addresses that meet are of the same word, memory seen from G on, and of the
\* same byte of it, as G is even.
LEMMA MeetsCell ==
  ASSUME Slave, NEW a, NEW b, Meets(a, b)
  PROVE  /\ Cell(b) = (Cell(a) + Cell(cpu.G)) % (Half \div 2)
         /\ a % 2 = b % 2
<1> DEFINE h == Half \div 2
           g == cpu.G
           H == Half
<1>1. /\ a \in Int /\ b \in Int /\ g \in Int /\ H \in Nat \ {0}
      /\ h \in Nat \ {0} /\ H = 2 * h /\ g % 2 = 0
  BY SlaveTypes, Halves DEF Meets, Slave
<1>2. PICK k \in Int : b = a + g + k * Modulus
  BY <1>1, MeetsTurns
<1>3. Modulus = 2 * H
  BY SlaveTypes
<1> DEFINE t == 2 * k
<1>4. t \in Int /\ b = (a + g) + t * H
  BY <1>1, <1>2, <1>3
<1> HIDE DEF t
<1>5. VA_TO_PA(b) = VA_TO_PA(a + g)
  <2> DEFINE x == a + g
  <2>1. x \in Int
    BY <1>1
  <2> HIDE DEF x, g
  <2> QED  BY <1>4, <2>1, Turned DEF x
<1>6. PICK x \in 0..1 : x = a % 2 /\ VA_TO_PA(a) = 2 * Cell(a) + x
  BY <1>1, Places
<1>7. VA_TO_PA(g) = 2 * Cell(g)
  <2>1. \E y \in 0..1 : y = g % 2 /\ VA_TO_PA(g) = 2 * Cell(g) + y
    BY <1>1, Places
  <2>2. Cell(g) \in Int
    BY <1>1, Places
  <2> QED  BY <1>1, <2>1, <2>2
<1>8. PICK z \in 0..1 : z = b % 2 /\ VA_TO_PA(b) = 2 * Cell(b) + z
  BY <1>1, Places
<1> DEFINE c == Cell(a)
           d == Cell(g)
           e == Cell(b)
<1>9. c \in 0..h - 1 /\ d \in 0..h - 1 /\ e \in 0..h - 1
  BY <1>1, Places
<1> DEFINE p == a \div H
           q == g \div H
<1>10. p \in Int /\ a = p * H + 2 * c + x
  <2> DEFINE j == a % H
  <2>1. p \in Int /\ j \in 0..H - 1 /\ a = p * H + j
    BY <1>1
  <2>2. j = 2 * c + x
    BY <1>6 DEF VA_TO_PA
  <2> HIDE DEF j, p, c
  <2> QED  BY <1>1, <1>9, <2>1, <2>2
<1>11. q \in Int /\ g = q * H + 2 * d
  <2> DEFINE j == g % H
  <2>1. q \in Int /\ j \in 0..H - 1 /\ g = q * H + j
    BY <1>1
  <2>2. j = 2 * d
    BY <1>7 DEF VA_TO_PA
  <2> HIDE DEF j, q, d
  <2> QED  BY <1>1, <1>9, <2>1, <2>2
<1> HIDE DEF p, q, c, d, g
<1> DEFINE s == IF c + d < h THEN c + d ELSE c + d - h
           u == IF c + d < h THEN p + q ELSE p + q + 1
<1>12. /\ s \in 0..h - 1 /\ u \in Int /\ 2 * s + x \in 0..H - 1
       /\ a + g = u * H + (2 * s + x)
  <2>1. (p + q) * H = p * H + q * H /\ (p + q + 1) * H = p * H + q * H + H
    BY <1>1, <1>10, <1>11
  <2> DEFINE v == p * H
             w == q * H
  <2>2. v \in Int /\ w \in Int /\ a = v + 2 * c + x /\ g = w + 2 * d
    BY <1>1, <1>10, <1>11
  <2>3. u * H = IF c + d < h THEN v + w ELSE v + w + H
    BY <2>1
  <2>4. u \in Int
    BY <1>10, <1>11
  <2> DEFINE n == u * H
  <2>5. n = IF c + d < h THEN v + w ELSE v + w + H
    BY <2>3
  <2> HIDE DEF v, w, h, H, u, n
  <2>6. s \in 0..h - 1 /\ 2 * s + x \in 0..H - 1 /\ a + g = n + (2 * s + x)
    BY <1>1, <1>9, <2>2, <2>5
  <2> QED  BY <2>4, <2>6 DEF n
<1>13. VA_TO_PA(b) = 2 * s + x
  <2> DEFINE y == a + g
             j == 2 * s + x
  <2>1. y \in Int /\ u \in Int /\ j \in 0..Half - 1 /\ y = u * Half + j
    BY <1>1, <1>12
  <2> HIDE DEF y, j, u
  <2>2. VA_TO_PA(y) = j
    BY <2>1, Turns
  <2> QED  BY <1>5, <2>2 DEF y, j
<1>14. e = s /\ x = z
  <2>1. 2 * e + z = 2 * s + x
    BY <1>8, <1>13
  <2> HIDE DEF e, s, h
  <2> QED  BY <1>9, <1>12, <2>1
<1>15. (c + d) % h = s
  <2> HIDE DEF h
  <2> QED  BY <1>1, <1>9, Around, ZenonT(60)
<1> QED  BY <1>6, <1>8, <1>14, <1>15 DEF c, d, g

\* So the relative machine reads and writes the same words and bytes.
LEMMA RelativeWords ==
  ASSUME Slave, NEW a, NEW b, Meets(a, b), NEW m \in Memory
  PROVE  /\ read_word(FromG(cpu, m), a) = read_word(m, b)
         /\ read_byte(FromG(cpu, m), a) = read_byte(m, b)
         /\ \A v : write_word(Relative(cpu), FromG(cpu, m), a, v)
                     = FromG(cpu, write_word(cpu, m, b, v))
         /\ \A v : write_byte(Relative(cpu), FromG(cpu, m), a, v)
                     = FromG(cpu, write_byte(cpu, m, b, v))
<1> DEFINE h == Half \div 2
           g == Cell(cpu.G)
           c == Cell(a)
           d == Cell(b)
           w == FromG(cpu, m)
<1>1. /\ h \in Nat \ {0} /\ c \in 0..h - 1 /\ d \in 0..h - 1 /\ g \in 0..h - 1
      /\ DOMAIN m = 0..h - 1
  <2>1. a \in Int /\ b \in Int /\ cpu.G \in Int
    BY SlaveTypes DEF Meets
  <2>2. c \in 0..h - 1 /\ d \in 0..h - 1 /\ g \in 0..h - 1
    BY <2>1, Places
  <2>3. h \in Nat \ {0}
    BY Halves
  <2> QED  BY <2>2, <2>3 DEF Memory
<1>2. d = (c + g) % h /\ a % 2 = b % 2
  BY MeetsCell
<1>3. \A x : FromG(cpu, x) = [i \in DOMAIN x |-> x[(i + g) % h]]
  BY DEF FromG
<1>4. ~Refused(cpu, b) /\ ~Refused(Relative(cpu), a)
  BY Relatives DEF Refused, Slave
<1>5. \A i \in 0..h - 1 : (i + g) % h \in 0..h - 1 /\ ((i + g) % h = d <=> i = c)
  <2> HIDE DEF h, g, c, d
  <2>1. \A i \in 0..h - 1 : (i + g) % h \in 0..h - 1
    BY <1>1, Around
  <2>2. \A i \in 0..h - 1 : (i + g) % h = (c + g) % h => i = c
    BY <1>1, Around
  <2> QED  BY <1>2, <2>1, <2>2
<1>6. w[c] = m[d]
  <2> HIDE DEF h, g, c, d
  <2> QED  BY <1>1, <1>2, <1>3
<1>7. ASSUME NEW v
      PROVE  [w EXCEPT ![c] = v] = FromG(cpu, [m EXCEPT ![d] = v])
  <2> DEFINE n == [m EXCEPT ![d] = v]
             y == [w EXCEPT ![c] = v]
             z == FromG(cpu, n)
  <2>1. DOMAIN n = 0..h - 1 /\ \A i \in 0..h - 1 : n[i] = IF i = d THEN v ELSE m[i]
    <3> HIDE DEF h, d
    <3> QED  BY <1>1
  <2> HIDE DEF n
  <2>2. z = [i \in 0..h - 1 |-> n[(i + g) % h]]
    <3> HIDE DEF h, g
    <3> QED  BY <1>3, <2>1
  <2>3. w = [i \in 0..h - 1 |-> m[(i + g) % h]]
    <3> HIDE DEF h, g
    <3> QED  BY <1>1, <1>3
  <2> HIDE DEF w, z
  <2>4. y = [i \in 0..h - 1 |-> IF i = c THEN v ELSE m[(i + g) % h]]
    <3> HIDE DEF h, g, c
    <3> QED  BY <1>1, <2>3
  <2> HIDE DEF y
  <2>5. \A i \in 0..h - 1 : n[(i + g) % h] = IF i = c THEN v ELSE m[(i + g) % h]
    <3> HIDE DEF h, g, c, d
    <3> QED  BY <1>5, <2>1
  <2>6. z = y
    <3> HIDE DEF h, g, c, d
    <3> QED  BY <2>2, <2>4, <2>5
  <2> QED  BY <2>6 DEF z, y, n
<1>8. read_word(w, a) = read_word(m, b)
  <2> HIDE DEF w
  <2> QED  BY <1>6 DEF read_word
<1>9. read_byte(w, a) = read_byte(m, b)
  <2> HIDE DEF w
  <2> QED  BY <1>2, <1>6 DEF read_byte
<1>10. ASSUME NEW v
       PROVE  write_word(Relative(cpu), w, a, v) = FromG(cpu, write_word(cpu, m, b, v))
  <2>1. write_word(Relative(cpu), w, a, v) = [w EXCEPT ![c] = v]
    <3> HIDE DEF w
    <3> QED  BY <1>4 DEF write_word
  <2>2. write_word(cpu, m, b, v) = [m EXCEPT ![d] = v]
    BY <1>4 DEF write_word
  <2> HIDE DEF w, c, d
  <2> QED  BY <1>7, <2>1, <2>2
<1>11. ASSUME NEW v
       PROVE  write_byte(Relative(cpu), w, a, v) = FromG(cpu, write_byte(cpu, m, b, v))
  <2> DEFINE x == IF b % 2 = 1 THEN Join(Left(m[d]), v) ELSE Join(v, Right(m[d]))
  <2>1. write_byte(cpu, m, b, v) = write_word(cpu, m, b, x)
    BY DEF write_byte
  <2>2. write_byte(Relative(cpu), w, a, v) = write_word(Relative(cpu), w, a, x)
    <3> HIDE DEF w
    <3> QED  BY <1>2, <1>6 DEF write_byte
  <2> HIDE DEF x, w
  <2> QED  BY <1>10, <2>1, <2>2
<1> QED  BY <1>8, <1>9, <1>10, <1>11

\* The bases of the two machines meet.
LEMMA BasesMeet ==
  ASSUME Slave
  PROVE  /\ Meets(Relative(cpu).P, cpu.P)
         /\ Meets(Relative(cpu).L, cpu.L)
         /\ Meets(Relative(cpu).G, cpu.G)
<1> DEFINE g == cpu.G
           p == cpu.P
           l == cpu.L
<1>1. g \in Int /\ p \in Int /\ l \in Int
  BY SlaveTypes
<1>2. p - g \in Int /\ l - g \in Int
  BY <1>1
<1>3. \A x \in Int : Meets(x - g, x)
  <2> TAKE x \in Int
  <2>1. x - g \in Int /\ x - (x - g) - g = 0
    BY <1>1
  <2>2. 0 % Modulus = 0
    BY SlaveTypes
  <2> QED  BY <2>1, <2>2 DEF Meets
<1>4. \A x \in Int : x \in Word => Meets((x - g) % Modulus, x)
  <2> TAKE x \in Int
  <2> HAVE x \in Word
  <2>1. x % Modulus = x
    BY SlaveTypes DEF Word
  <2>2. Meets((x - g) % Modulus, x % Modulus)
    BY <1>3, MeetsReduced
  <2> QED  BY <2>1, <2>2
<1>5. p \in Word /\ l \in Word
  BY SlaveTypes, RegisterTypesOf
<1>6. Meets(0, g)
  <2>1. g - 0 - g = 0
    BY <1>1
  <2>2. 0 % Modulus = 0
    BY SlaveTypes
  <2> QED  BY <1>1, <2>1, <2>2 DEF Meets
<1> HIDE DEF g, p, l
<1>7. Meets((p - g) % Modulus, p) /\ Meets((l - g) % Modulus, l)
  BY <1>1, <1>4, <1>5
<1> QED  BY <1>6, <1>7, Relatives DEF g, p, l

\* An address of G' is one the relative machine has from 0.
LEMMA GeneralMeets ==
  ASSUME Slave, NEW x \in Int
  PROVE  Meets(x, cpu.G + x)
<1>1. Meets(0 + x, cpu.G + x)
  BY BasesMeet, Relatives, MeetsMoved
<1> QED  BY <1>1

\* P after the instruction is fetched.
LEMMA FetchedRelative ==
  ASSUME Slave
  PROVE  /\ Virtual!Fetched = Relative(Fetched)
         /\ Fetched \in Registers /\ Full(Fetched)
         /\ Fetched.G = cpu.G /\ Fetched.A = cpu.A /\ Fetched.E = cpu.E
<1> DEFINE p == (cpu.P + 2) % Modulus
           q == (Relative(cpu).P + 2) % Modulus
<1>1. cpu \in Registers /\ Fetched \in Registers
  BY SlaveTypes, ReadyTypes
<1>2. q = (p - cpu.G) % Modulus
  <2> DEFINE x == cpu.P + 2
             y == Relative(cpu).P + 2
  <2>1. Meets(y, x)
    BY BasesMeet, MeetsMoved
  <2> HIDE DEF x, y
  <2>2. Meets(y % Modulus, x % Modulus)
    BY <2>1, MeetsReduced
  <2>3. (y % Modulus) % Modulus = ((x % Modulus) - cpu.G) % Modulus
    BY <2>2, MeetsReduced
  <2>4. (y % Modulus) % Modulus = y % Modulus
    <3> DEFINE j == y % Modulus
    <3>1. y \in Int
      BY <2>1 DEF Meets
    <3>2. j \in 0..Modulus - 1
      BY <3>1, SlaveTypes
    <3> HIDE DEF j
    <3>3. j % Modulus = j
      BY <3>2, SlaveTypes
    <3> QED  BY <3>3 DEF j
  <2> QED  BY <2>3, <2>4 DEF x, y
<1>3. Fetched = [cpu EXCEPT !.P = p]
  BY DEF Fetched
<1>4. Virtual!Fetched = [Relative(cpu) EXCEPT !.P = q]
  BY DEF Virtual!Fetched, Virtual!Modulus, Modulus
<1> HIDE DEF p, q
<1>5. Virtual!Fetched = Relative(Fetched)
  BY <1>1, <1>2, <1>3, <1>4 DEF Relative, Registers
<1>6. Fetched.G = cpu.G /\ Fetched.A = cpu.A /\ Fetched.E = cpu.E
  BY <1>1, <1>3 DEF Registers
<1> QED  BY <1>1, <1>5, <1>6, FullRegisters

\* The addresses of the two machines meet, and the parameters are the same.
LEMMA AddressesMeet ==
  ASSUME Slave, NEW d \in Displacements
  PROVE  /\ \A form \in MemoryForms \cup {"P"} :
              Meets(Virtual!TargetAddress(form, d), TargetAddress(form, d))
         /\ \A form \in ParameterForms : Virtual!Parameter(form, d) = Parameter(form, d)
<1> DEFINE r == Relative(cpu)
           m == FromG(cpu, mem)
           local == read_word(mem, cpu.L + d)
           general == read_word(mem, cpu.G + d)
           M == Modulus
<1>1. /\ d \in Int /\ Ready /\ mem \in Memory
      /\ cpu.P \in Int /\ cpu.L \in Int /\ cpu.G \in Int /\ cpu.X \in Int
  BY SlaveTypes, DisplacementType
<1>2. Meets(r.L + d, cpu.L + d) /\ Meets(r.G + d, cpu.G + d) /\ Meets(r.P, cpu.P)
  BY <1>1, BasesMeet, MeetsMoved
<1>3. read_word(m, r.L + d) = local /\ read_word(m, r.G + d) = general
  BY <1>1, <1>2, RelativeWords
<1>4. local \in Int /\ general \in Int
  <2>1. cpu.L + d \in Int /\ cpu.G + d \in Int
    BY <1>1
  <2> QED  BY <1>1, <2>1, MemoryType
<1>5. /\ r.G = 0 /\ r.X = cpu.X /\ GPRIME(r) = 0 /\ GPRIME(cpu) = cpu.G
  BY Relatives, SlaveTypes
<1>6. \A form : TargetAddress(form, d)
        = (CASE form = "DL" -> cpu.L + d
             [] form = "DG" -> cpu.G + d
             [] form = "P" -> cpu.P
             [] form = "IL" -> GPRIME(cpu) + local
             [] form = "ILX" -> GPRIME(cpu) + local + cpu.X
             [] form = "IGX" -> cpu.G + general + cpu.X) % M
  BY DEF TargetAddress
<1>7. \A form : Virtual!TargetAddress(form, d)
        = (CASE form = "DL" -> r.L + d
             [] form = "DG" -> r.G + d
             [] form = "P" -> r.P
             [] form = "IL" -> GPRIME(r) + local
             [] form = "ILX" -> GPRIME(r) + local + r.X
             [] form = "IGX" -> r.G + general + r.X) % M
  <2>1. \A form : Virtual!TargetAddress(form, d)
        = (CASE form = "DL" -> r.L + d
             [] form = "DG" -> r.G + d
             [] form = "P" -> r.P
             [] form = "IL" -> Virtual!GPRIME(r) + Virtual!read_word(m, r.L + d)
             [] form = "ILX" -> Virtual!GPRIME(r) + Virtual!read_word(m, r.L + d) + r.X
             [] form = "IGX" -> r.G + Virtual!read_word(m, r.G + d) + r.X)
          % Virtual!Modulus
    BY DEF Virtual!TargetAddress
  <2> HIDE DEF r, m, local, general
  <2> QED  BY <1>3, <2>1, VirtualWords
<1>8. /\ Meets(GPRIME(r) + local, GPRIME(cpu) + local)
      /\ Meets(GPRIME(r) + local + r.X, GPRIME(cpu) + local + cpu.X)
      /\ Meets(r.G + general + r.X, cpu.G + general + cpu.X)
  <2> HIDE DEF local, general
  <2>1. \A x \in Int : Meets(x, cpu.G + x)
    BY GeneralMeets
  <2>2. /\ 0 + local = local /\ 0 + local + cpu.X = local + cpu.X
        /\ 0 + general + cpu.X = general + cpu.X
        /\ cpu.G + local + cpu.X = cpu.G + (local + cpu.X)
        /\ cpu.G + general + cpu.X = cpu.G + (general + cpu.X)
        /\ local + cpu.X \in Int /\ general + cpu.X \in Int
    BY <1>1, <1>4
  <2> QED  BY <1>4, <1>5, <2>1, <2>2
<1> HIDE DEF r, m, local, general
<1>9. ASSUME NEW form \in MemoryForms \cup {"P"}
      PROVE  Meets(Virtual!TargetAddress(form, d), TargetAddress(form, d))
  <2>1. \E x, y : /\ Meets(x, y)
                  /\ Virtual!TargetAddress(form, d) = x % M
                  /\ TargetAddress(form, d) = y % M
    BY <1>2, <1>6, <1>7, <1>8 DEF MemoryForms
  <2> QED  BY <2>1, MeetsReduced
<1>10. ASSUME NEW form \in ParameterForms
       PROVE  Virtual!Parameter(form, d) = Parameter(form, d)
  <2>1. Virtual!Parameter(form, d)
          = CASE form = "P" -> d
              [] form = "PX" -> (d + r.X) % Virtual!Modulus
              [] form = "DL" -> Virtual!read_word(m, r.L + d)
    BY DEF Virtual!Parameter, r, m
  <2>2. Parameter(form, d)
          = CASE form = "P" -> d
              [] form = "PX" -> (d + cpu.X) % M
              [] form = "DL" -> local
    BY DEF Parameter, local
  <2> QED  BY <1>3, <1>5, <2>1, <2>2, VirtualWords
<1> QED  BY <1>9, <1>10

\* The two machines access words that meet, and so odd addresses together.
EachMeets(S, T) ==
  /\ \A a \in S : \E b \in T : Meets(a, b)
  /\ \A b \in T : \E a \in S : Meets(a, b)

HasOdd(S) == \E a \in S : a % 2 = 1

LEMMA EachMeetsOdd ==
  ASSUME Slave, NEW S, NEW T, EachMeets(S, T)
  PROVE  HasOdd(S) <=> HasOdd(T)
<1>1. \A a, b : Meets(a, b) => a % 2 = b % 2
  BY MeetsCell
<1> QED  BY <1>1 DEF EachMeets, HasOdd

LEMMA EndRelative ==
  ASSUME Slave, trap' = {},
         NEW read, NEW written, NEW r, NEW m, Done(read, written, r, m),
         r.G = cpu.G,
         NEW reads, NEW writes,
         HasOdd(reads) <=> HasOdd(read), HasOdd(writes) <=> HasOdd(written)
  PROVE  Virtual!Done(reads, writes, Relative(r), FromG(cpu, m))
<1> DEFINE S == reads \cup writes \cup {Relative(cpu).P}
           T == read \cup written \cup {cpu.P}
<1>1. (\E a \in S : a % 2 = 1) <=> (\E b \in T : b % 2 = 1)
  <2>1. Relative(cpu).P % 2 = cpu.P % 2
    BY BasesMeet, MeetsCell
  <2> QED  BY <2>1 DEF HasOdd
<1>2. steps' = steps + 1
  BY DEF Done
<1>3. \A va : ~Refused(cpu, va) /\ ~Refused(Relative(cpu), va)
  BY Relatives DEF Refused, Slave
<1>4. CASE \E b \in T : b % 2 = 1
  <2>1. Exit
    BY <1>4 DEF Done
  <2>2. cpu' = cpu /\ mem' = mem /\ trap' = {} /\ state' = "exit"
    BY <2>1 DEF Exit
  <2>3. Relative(cpu') = Relative(cpu) /\ FromG(cpu', mem') = FromG(cpu, mem)
    BY <2>2
  <2>4. Virtual!Exit
    BY <2>2, <2>3 DEF Virtual!Exit
  <2> QED  BY <1>1, <1>2, <1>4, <2>4 DEF Virtual!Done
<1>5. CASE ~\E b \in T : b % 2 = 1
  <2>1. cpu' = r /\ mem' = m /\ trap' = {} /\ state' = state
    BY <1>3, <1>5 DEF Done
  <2>2. Relative(cpu') = Relative(r) /\ FromG(cpu', mem') = FromG(cpu, m)
    BY <2>1 DEF FromG
  <2>3. \A va : ~Virtual!Refused(Relative(cpu), va)
    BY <1>3, VirtualWords
  <2> QED  BY <1>1, <1>2, <1>5, <2>1, <2>2, <2>3 DEF Virtual!Done
<1> QED  BY <1>4, <1>5

LEMMA DoneRelative ==
  ASSUME Slave, trap' = {},
         NEW read, NEW written, NEW r, NEW m, Done(read, written, r, m),
         r.G = cpu.G,
         NEW reads, NEW writes, EachMeets(reads, read), EachMeets(writes, written)
  PROVE  Virtual!Done(reads, writes, Relative(r), FromG(cpu, m))
<1>1. (HasOdd(reads) <=> HasOdd(read)) /\ (HasOdd(writes) <=> HasOdd(written))
  BY EachMeetsOdd
<1> QED  BY <1>1, EndRelative

----------------------------------------------------------------------------
(* The instructions. *)

\* The instruction that is recorded is the same.
LEMMA Recording ==
  ASSUME Slave
  PROVE  /\ Virtual!Running
         /\ \A op, form, d : Virtual!Is(op, form, d) <=> Is(op, form, d)
BY DEF Virtual!Running, Running, Virtual!Is, Is, Slave

\* The pointers and the parameters are at words that meet.
LEMMA WordsMeet ==
  ASSUME Slave, NEW d \in Displacements
  PROVE  /\ EachMeets({}, {})
         /\ \A form : EachMeets(Virtual!Pointers(form, d), Pointers(form, d))
         /\ \A form : EachMeets(Virtual!ParameterWords(form, d), ParameterWords(form, d))
         /\ \A a, b : Meets(a, b) => EachMeets({a}, {b}) /\ EachMeets({a, a + 2}, {b, b + 2})
         /\ \A S, T, R, U : EachMeets(S, T) /\ EachMeets(R, U) => EachMeets(S \cup R, T \cup U)
<1>1. Meets(Relative(cpu).L + d, cpu.L + d) /\ Meets(Relative(cpu).G + d, cpu.G + d)
  BY DisplacementType, BasesMeet, MeetsMoved
<1>2. \A form : EachMeets(Virtual!Pointers(form, d), Pointers(form, d))
  BY <1>1 DEF EachMeets, Pointers, Virtual!Pointers
<1>3. \A form : EachMeets(Virtual!ParameterWords(form, d), ParameterWords(form, d))
  BY <1>1 DEF EachMeets, ParameterWords, Virtual!ParameterWords
<1>4. \A a, b : Meets(a, b) => EachMeets({a}, {b}) /\ EachMeets({a, a + 2}, {b, b + 2})
  BY MeetsMoved DEF EachMeets
<1>5. \A S, T, R, U : EachMeets(S, T) /\ EachMeets(R, U) => EachMeets(S \cup R, T \cup U)
  BY DEF EachMeets
<1> QED  BY <1>2, <1>3, <1>4, <1>5 DEF EachMeets

LEMMA LoadWordRelative ==
  ASSUME Slave, LoadWord, trap' = {}
  PROVE  Virtual!LoadWord
<1>1. PICK op \in LoadOperations, form \in MemoryForms \cup {"P"}, d \in Displacements :
        /\ Is(op, form, d)
        /\ LET y == TargetAddress(form, d)
               m == IF form = "P" THEN d ELSE read_word(mem, y)
           IN  /\ ~(op = "DIV" /\ m # 0 /\ DivisionFaults(cpu, m))
               /\ IF op = "LDA" /\ form = "DL" /\ d = 0
                    THEN Done({}, {}, Fetched, mem)
                    ELSE Done(Pointers(form, d) \cup {y}, {},
                              Mem_OP_Reg_To_Reg(op, Fetched, m), mem)
  BY DEF LoadWord
<1> DEFINE y == TargetAddress(form, d)
           m == IF form = "P" THEN d ELSE read_word(mem, y)
           z == Virtual!TargetAddress(form, d)
           n == IF form = "P" THEN d ELSE Virtual!read_word(FromG(cpu, mem), z)
           r == Mem_OP_Reg_To_Reg(op, Fetched, m)
<1>2. Meets(z, y)
  BY AddressesMeet
<1>3. n = m /\ m \in Word
  <2>1. mem \in Memory /\ y \in Int /\ d \in Word
    BY <1>2, SlaveTypes, DisplacementType DEF Meets
  <2> HIDE DEF y, z
  <2> QED  BY <1>2, <2>1, RelativeWords, VirtualWords, ReadType
<1> HIDE DEF m, n, y, z
<1>4. Mem_OP_Reg_To_Reg(op, Relative(Fetched), m) = Relative(r)
  BY FetchedRelative, LoadRelative
<1>5. r.G = cpu.G /\ Fetched.G = cpu.G
  <2>1. Machines(Local) /\ Fetched \in Local
    BY SlaveTypes, LocalMachines
  <2>2. r \in Local
    BY <1>3, <2>1, LoadType
  <2> QED  BY <2>1, <2>2 DEF Local
<1>6. DivisionFaults(Relative(cpu), m) = DivisionFaults(cpu, m)
  BY Relatives, Zenon DEF DivisionFaults
<1> HIDE DEF r
<1>7. /\ ~(op = "DIV" /\ m # 0 /\ DivisionFaults(cpu, m))
      /\ IF op = "LDA" /\ form = "DL" /\ d = 0
           THEN Done({}, {}, Fetched, mem)
           ELSE Done(Pointers(form, d) \cup {y}, {}, r, mem)
  BY <1>1 DEF r, m, y
<1>8. EachMeets({}, {}) /\ EachMeets(Virtual!Pointers(form, d) \cup {z}, Pointers(form, d) \cup {y})
  BY <1>2, WordsMeet
<1>9. /\ ~(op = "DIV" /\ n # 0 /\ Virtual!DivisionFaults(Relative(cpu), n))
      /\ IF op = "LDA" /\ form = "DL" /\ d = 0
           THEN Virtual!Done({}, {}, Virtual!Fetched, FromG(cpu, mem))
           ELSE Virtual!Done(Virtual!Pointers(form, d) \cup {z}, {},
                             Virtual!Mem_OP_Reg_To_Reg(op, Virtual!Fetched, n),
                             FromG(cpu, mem))
  <2>1. ~(op = "DIV" /\ n # 0 /\ Virtual!DivisionFaults(Relative(cpu), n))
    BY <1>3, <1>6, <1>7, VirtualOperations
  <2>2. Virtual!Mem_OP_Reg_To_Reg(op, Virtual!Fetched, n) = Relative(r)
    BY <1>3, <1>4, FetchedRelative, VirtualOperations
  <2>3. CASE op = "LDA" /\ form = "DL" /\ d = 0
    BY <1>5, <1>7, <1>8, <2>1, <2>3, FetchedRelative, DoneRelative
  <2>4. CASE ~(op = "LDA" /\ form = "DL" /\ d = 0)
    BY <1>5, <1>7, <1>8, <2>1, <2>2, <2>4, DoneRelative
  <2> QED  BY <2>3, <2>4
<1> QED  BY <1>1, <1>9, Recording, VirtualNames DEF Virtual!LoadWord, n, z

\* Registers that keep the bases, and memory.
LEMMA KeptBases ==
  ASSUME Slave
  PROVE  /\ Fetched \in Local /\ Fetched.G = cpu.G
         /\ \A r \in Local : r.G = cpu.G /\ r \in Registers /\ Full(r)
         /\ Machines(Local)
BY SlaveTypes, LocalMachines, FullRegisters DEF Local

\* LEA leaves the address relative to G, which is the one of the relative machine.
LEMMA LoadAddressRelative ==
  ASSUME Slave, LoadAddress, trap' = {}
  PROVE  Virtual!LoadAddress
<1>1. PICK form \in MemoryForms \cup {"P"}, d \in Displacements :
        /\ Is("LEA", form, d)
        /\ LET y == TargetAddress(form, d)
               a == (y - cpu.G) % Modulus
           IN  Done(Pointers(form, d) \cup {y}, {},
                    set_condition_codes_load([Fetched EXCEPT !.A = a], a), mem)
  BY DEF LoadAddress
<1> DEFINE y == TargetAddress(form, d)
           z == Virtual!TargetAddress(form, d)
           a == (y - cpu.G) % Modulus
           b == (z - Relative(cpu).G) % Modulus
           s == WithA(Fetched, a)
           r == set_condition_codes_load(s, a)
<1>2. Meets(z, y)
  BY AddressesMeet
<1> HIDE DEF y, z
<1>3. a = b /\ a \in Word
  <2>1. z \in Int /\ y \in Int /\ z - 0 = z /\ y - cpu.G \in Int
    BY <1>2, SlaveTypes DEF Meets
  <2>2. z % Modulus = a
    BY <1>2, MeetsReduced
  <2> QED  BY <2>1, <2>2, Relatives, Reduces
<1> HIDE DEF a, b
<1>4. s \in Local /\ Relative(s) = WithA(Relative(Fetched), a)
  BY <1>3, KeptBases, LocalAssigned, FetchedRelative, RelativeAssigned DEF WithA
<1> HIDE DEF s
<1>5. r \in Local /\ set_condition_codes_load(Relative(s), a) = Relative(r)
  BY <1>4, KeptBases, LoadCodes, CodesRelative
<1> HIDE DEF r
<1>6. Done(Pointers(form, d) \cup {y}, {}, r, mem)
  BY <1>1 DEF r, s, a, y, WithA
<1>7. EachMeets({}, {}) /\ EachMeets(Virtual!Pointers(form, d) \cup {z}, Pointers(form, d) \cup {y})
  BY <1>2, WordsMeet
<1>8. Virtual!set_condition_codes_load([Virtual!Fetched EXCEPT !.A = b], b) = Relative(r)
  BY <1>3, <1>4, <1>5, FetchedRelative, VirtualOperations DEF WithA
<1>9. Virtual!Done(Virtual!Pointers(form, d) \cup {z}, {},
                   Virtual!set_condition_codes_load([Virtual!Fetched EXCEPT !.A = b], b),
                   FromG(cpu, mem))
  BY <1>5, <1>6, <1>7, <1>8, KeptBases, DoneRelative
<1> QED  BY <1>1, <1>9, Recording, VirtualNames, VirtualWords
         DEF Virtual!LoadAddress, b, z

LEMMA DoubleLoadRelative ==
  ASSUME Slave, DoubleLoad, trap' = {}
  PROVE  Virtual!DoubleLoad
<1>1. PICK form \in MemoryForms, d \in Displacements :
        /\ Is("DLD", form, d)
        /\ LET y == TargetAddress(form, d)
               e == read_word(mem, y)
           IN  Done(Pointers(form, d) \cup {y, y + 2}, {},
                    set_condition_codes_load(
                      [Fetched EXCEPT !.E = e, !.A = read_word(mem, y + 2)], e), mem)
  BY DEF DoubleLoad
<1> DEFINE y == TargetAddress(form, d)
           z == Virtual!TargetAddress(form, d)
           e == read_word(mem, y)
           a == read_word(mem, y + 2)
           s == WithA(WithE(Fetched, e), a)
           r == set_condition_codes_load(s, e)
<1>2. Meets(z, y) /\ Meets(z + 2, y + 2)
  <2>1. Meets(z, y)
    BY AddressesMeet
  <2> HIDE DEF y, z
  <2> QED  BY <2>1, MeetsMoved
<1> HIDE DEF y, z
<1>3. /\ e \in Word /\ a \in Word
      /\ read_word(FromG(cpu, mem), z) = e /\ read_word(FromG(cpu, mem), z + 2) = a
  BY <1>2, SlaveTypes, RelativeWords, ReadType DEF Meets
<1> HIDE DEF e, a
<1>4. s \in Local /\ Relative(s) = WithA(WithE(Relative(Fetched), e), a)
  <2>1. WithE(Fetched, e) \in Local
    BY <1>3, KeptBases, LocalAssigned DEF WithE
  <2>2. s \in Local
    BY <1>3, <2>1, LocalAssigned DEF WithA
  <2> QED  BY <2>2, FetchedRelative, ChainsRelative
<1>5. \A q : WithA(WithE(q, e), a) = [q EXCEPT !.E = e, !.A = a]
  BY DEF WithA, WithE
<1> HIDE DEF s
<1>6. r \in Local /\ set_condition_codes_load(Relative(s), e) = Relative(r)
  BY <1>4, KeptBases, LoadCodes, CodesRelative
<1> HIDE DEF r
<1>7. Done(Pointers(form, d) \cup {y, y + 2}, {}, r, mem)
  <2>1. Done(Pointers(form, d) \cup {y, y + 2}, {},
             set_condition_codes_load([Fetched EXCEPT !.E = e, !.A = a], e), mem)
    BY <1>1 DEF y, e, a
  <2> QED  BY <1>5, <2>1 DEF r, s
<1>8. /\ EachMeets({}, {})
      /\ EachMeets(Virtual!Pointers(form, d) \cup {z, z + 2}, Pointers(form, d) \cup {y, y + 2})
  BY <1>2, WordsMeet
<1> DEFINE f == Virtual!read_word(FromG(cpu, mem), z)
           b == Virtual!read_word(FromG(cpu, mem), z + 2)
<1>9. Virtual!set_condition_codes_load([Virtual!Fetched EXCEPT !.E = f, !.A = b], f)
        = Relative(r)
  <2>1. f = e /\ b = a
    BY <1>3, VirtualWords
  <2> HIDE DEF f, b
  <2>2. [Virtual!Fetched EXCEPT !.E = f, !.A = b] = Relative(s)
    BY <1>4, <1>5, <2>1, FetchedRelative
  <2> QED  BY <1>6, <2>1, <2>2, VirtualOperations
<1> HIDE DEF f, b
<1>10. Virtual!Done(Virtual!Pointers(form, d) \cup {z, z + 2}, {},
                    Virtual!set_condition_codes_load(
                      [Virtual!Fetched EXCEPT !.E = f, !.A = b], f), FromG(cpu, mem))
  BY <1>6, <1>7, <1>8, <1>9, KeptBases, DoneRelative
<1> QED  BY <1>1, <1>10, Recording, VirtualNames DEF Virtual!DoubleLoad, f, b, z

LEMMA StoreWordRelative ==
  ASSUME Slave, StoreWord, trap' = {}
  PROVE  Virtual!StoreWord
<1>1. PICK op \in StoreOperations, form \in MemoryForms, d \in Displacements :
        /\ Is(op, form, d)
        /\ LET y == TargetAddress(form, d)
               m == read_word(mem, y)
           IN  Done(Pointers(form, d), {y}, AfterStore(op, Fetched, m),
                    write_word(cpu, mem, y, StoredValue(op, cpu, m)))
  BY DEF StoreWord
<1> DEFINE y == TargetAddress(form, d)
           z == Virtual!TargetAddress(form, d)
           m == read_word(mem, y)
           n == Virtual!read_word(FromG(cpu, mem), z)
           r == AfterStore(op, Fetched, m)
           v == StoredValue(op, cpu, m)
           w == write_word(cpu, mem, y, v)
<1>2. Meets(z, y)
  BY AddressesMeet
<1> HIDE DEF y, z
<1>3. n = m /\ m \in Word
  BY <1>2, SlaveTypes, RelativeWords, VirtualWords, ReadType DEF Meets
<1> HIDE DEF m, n
<1>4. r \in Local /\ AfterStore(op, Relative(Fetched), m) = Relative(r)
  BY <1>3, KeptBases, StoreType, FetchedRelative, StoreRelative
<1>5. StoredValue(op, Relative(cpu), m) = v
  BY SlaveTypes, StoreRelative
<1> HIDE DEF r, v
<1>6. write_word(Relative(cpu), FromG(cpu, mem), z, v) = FromG(cpu, w)
  BY <1>2, SlaveTypes, RelativeWords
<1> HIDE DEF w
<1>7. Done(Pointers(form, d), {y}, r, w)
  BY <1>1 DEF r, w, v, m, y
<1>8. EachMeets({z}, {y}) /\ EachMeets(Virtual!Pointers(form, d), Pointers(form, d))
  BY <1>2, WordsMeet
<1>9. /\ Virtual!AfterStore(op, Virtual!Fetched, n) = Relative(r)
      /\ Virtual!write_word(Relative(cpu), FromG(cpu, mem), z,
                            Virtual!StoredValue(op, Relative(cpu), n))
           = FromG(cpu, w)
  BY <1>3, <1>4, <1>5, <1>6, FetchedRelative, VirtualOperations, VirtualWords
<1>10. Virtual!Done(Virtual!Pointers(form, d), {z},
                    Virtual!AfterStore(op, Virtual!Fetched, n),
                    Virtual!write_word(Relative(cpu), FromG(cpu, mem), z,
                                       Virtual!StoredValue(op, Relative(cpu), n)))
  BY <1>4, <1>7, <1>8, <1>9, KeptBases, DoneRelative
<1> QED  BY <1>1, <1>10, Recording, VirtualNames DEF Virtual!StoreWord, n, z

LEMMA DoubleStoreRelative ==
  ASSUME Slave, DoubleStore, trap' = {}
  PROVE  Virtual!DoubleStore
<1>1. PICK form \in MemoryForms, d \in Displacements :
        /\ Is("DST", form, d)
        /\ LET y == TargetAddress(form, d)
           IN  Done(Pointers(form, d), {y, y + 2}, Fetched,
                    write_word(cpu, write_word(cpu, mem, y, cpu.E), y + 2, cpu.A))
  BY DEF DoubleStore
<1> DEFINE y == TargetAddress(form, d)
           z == Virtual!TargetAddress(form, d)
           w == write_word(cpu, mem, y, cpu.E)
           x == write_word(cpu, w, y + 2, cpu.A)
<1>2. Meets(z, y) /\ Meets(z + 2, y + 2)
  <2>1. Meets(z, y)
    BY AddressesMeet
  <2> HIDE DEF y, z
  <2> QED  BY <2>1, MeetsMoved
<1> HIDE DEF y, z
<1>3. w \in Memory /\ write_word(Relative(cpu), FromG(cpu, mem), z, cpu.E) = FromG(cpu, w)
  <2>1. y \in Int /\ mem \in Memory /\ cpu.E \in Word
    BY <1>2, SlaveTypes, RegisterTypesOf DEF Meets
  <2>2. w \in Memory
    BY <2>1, WriteType
  <2> QED  BY <1>2, <2>1, <2>2, RelativeWords
<1> HIDE DEF w
<1>4. write_word(Relative(cpu), FromG(cpu, w), z + 2, cpu.A) = FromG(cpu, x)
  BY <1>2, <1>3, RelativeWords
<1> HIDE DEF x
<1>5. Done(Pointers(form, d), {y, y + 2}, Fetched, x)
  BY <1>1 DEF x, w, y
<1>6. /\ EachMeets({z, z + 2}, {y, y + 2})
      /\ EachMeets(Virtual!Pointers(form, d), Pointers(form, d))
  BY <1>2, WordsMeet
<1>7. Virtual!write_word(Relative(cpu),
                         Virtual!write_word(Relative(cpu), FromG(cpu, mem), z,
                                            Relative(cpu).E),
                         z + 2, Relative(cpu).A)
        = FromG(cpu, x)
  BY <1>3, <1>4, Relatives, VirtualWords
<1>8. Virtual!Done(Virtual!Pointers(form, d), {z, z + 2}, Virtual!Fetched,
                   Virtual!write_word(Relative(cpu),
                         Virtual!write_word(Relative(cpu), FromG(cpu, mem), z,
                                            Relative(cpu).E),
                         z + 2, Relative(cpu).A))
  BY <1>5, <1>6, <1>7, FetchedRelative, KeptBases, DoneRelative
<1> QED  BY <1>1, <1>8, Recording, VirtualNames DEF Virtual!DoubleStore, z

WithP(r, p) == [r EXCEPT !.P = p]
WithBases(r, p, l) == [r EXCEPT !.P = p, !.L = l]

\* P and L set to addresses that meet.
LEMMA BasesSet ==
  ASSUME Slave, NEW v, NEW p, Meets(p, v)
  PROVE  /\ Relative(WithP(cpu, v % Modulus)) = WithP(Relative(cpu), p % Modulus)
         /\ \A k, l : Meets(k, l) =>
              Relative(WithBases(cpu, v % Modulus, l % Modulus))
                = WithBases(Relative(cpu), p % Modulus, k % Modulus)
<1>1. \A a, b : Meets(a, b) => a % Modulus = ((b % Modulus) - cpu.G) % Modulus
  <2> TAKE a, b
  <2> HAVE Meets(a, b)
  <2> DEFINE x == a % Modulus
  <2>1. x \in 0..Modulus - 1
    BY SlaveTypes DEF Meets
  <2>2. x % Modulus = ((b % Modulus) - cpu.G) % Modulus
    BY MeetsReduced
  <2> HIDE DEF x
  <2>3. x % Modulus = x
    BY <2>1, SlaveTypes
  <2> QED  BY <2>2, <2>3 DEF x
<1>2. cpu \in Registers
  BY SlaveTypes
<1>3. \A x, y : x = (y - cpu.G) % Modulus
                => Relative(WithP(cpu, y)) = WithP(Relative(cpu), x)
  BY <1>2 DEF Relative, Registers, WithP
<1>4. ASSUME NEW x, NEW y, NEW z, NEW u,
             x = (y - cpu.G) % Modulus, z = (u - cpu.G) % Modulus
      PROVE  Relative(WithBases(cpu, y, u)) = WithBases(Relative(cpu), x, z)
  BY <1>4, <1>2 DEF Relative, Registers, WithBases
<1> QED  BY <1>1, <1>3, <1>4

\* The address of a branch, from P or from a pointer with G' added.
LEMMA BranchMeets ==
  ASSUME Slave, NEW d \in Displacements, NEW form \in BranchForms, NEW x \in Int
  PROVE  \E p, v : /\ Meets(p, v)
                   /\ BranchAddress(form, d, x) = v % Modulus
                   /\ Virtual!BranchAddress(form, d, x) = p % Modulus
<1> DEFINE r == Relative(cpu)
           m == FromG(cpu, mem)
           local == read_word(mem, cpu.L + x + d)
           general == read_word(mem, cpu.G + x + d)
<1>1. /\ d \in Int /\ mem \in Memory /\ Ready
      /\ cpu.P \in Int /\ cpu.L \in Int /\ cpu.G \in Int /\ GPRIME(cpu) = cpu.G
      /\ r.G = 0 /\ GPRIME(r) = 0
  BY SlaveTypes, DisplacementType, Relatives
<1>2. /\ Meets(r.L + x + d, cpu.L + x + d) /\ Meets(r.G + x + d, cpu.G + x + d)
      /\ Meets(r.P + 2 * d + 2 * x, cpu.P + 2 * d + 2 * x)
      /\ Meets(r.P - 2 * d - 2 * x, cpu.P - 2 * d - 2 * x)
  <2>1. Meets(r.P, cpu.P) /\ Meets(r.L, cpu.L) /\ Meets(r.G, cpu.G)
    BY BasesMeet
  <2>2. \A a, b, e, f \in Int : Meets(a, b) => Meets((a + e) + f, (b + e) + f)
    BY MeetsMoved DEF Meets
  <2>3. 2 * d \in Int /\ 2 * x \in Int /\ -(2 * d) \in Int /\ -(2 * x) \in Int
    BY <1>1
  <2>4. r.P \in Int /\ r.L \in Int /\ r.G \in Int
    BY <2>1 DEF Meets
  <2> HIDE DEF r
  <2>5. Meets(r.L + x + d, cpu.L + x + d) /\ Meets(r.G + x + d, cpu.G + x + d)
    BY <1>1, <2>1, <2>2, <2>4
  <2>6. Meets(r.P + 2 * d + 2 * x, cpu.P + 2 * d + 2 * x)
    BY <1>1, <2>1, <2>2, <2>3, <2>4
  <2>7. Meets((r.P + (-(2 * d))) + (-(2 * x)), (cpu.P + (-(2 * d))) + (-(2 * x)))
    BY <1>1, <2>1, <2>2, <2>3, <2>4
  <2>8. /\ (r.P + (-(2 * d))) + (-(2 * x)) = r.P - 2 * d - 2 * x
        /\ (cpu.P + (-(2 * d))) + (-(2 * x)) = cpu.P - 2 * d - 2 * x
    BY <1>1, <2>4
  <2> QED  BY <2>5, <2>6, <2>7, <2>8
<1>3. /\ read_word(m, r.L + x + d) = local /\ read_word(m, r.G + x + d) = general
      /\ local \in Int /\ general \in Int
  <2>1. cpu.L + x + d \in Int /\ cpu.G + x + d \in Int
    BY <1>1
  <2> QED  BY <1>1, <1>2, <2>1, RelativeWords, MemoryType
<1>4. BranchAddress(form, d, x)
        = (CASE form = "RP" -> cpu.P + 2 * d + 2 * x
             [] form = "RM" -> cpu.P - 2 * d - 2 * x
             [] form = "IL" -> GPRIME(cpu) + local
             [] form = "IG" -> GPRIME(cpu) + general) % Modulus
  BY DEF BranchAddress
<1>5. Virtual!BranchAddress(form, d, x)
        = (CASE form = "RP" -> r.P + 2 * d + 2 * x
             [] form = "RM" -> r.P - 2 * d - 2 * x
             [] form = "IL" -> GPRIME(r) + local
             [] form = "IG" -> GPRIME(r) + general) % Modulus
  <2>1. Virtual!BranchAddress(form, d, x)
        = (CASE form = "RP" -> r.P + 2 * d + 2 * x
             [] form = "RM" -> r.P - 2 * d - 2 * x
             [] form = "IL" -> Virtual!GPRIME(r) + Virtual!read_word(m, r.L + x + d)
             [] form = "IG" -> Virtual!GPRIME(r) + Virtual!read_word(m, r.G + x + d))
           % Virtual!Modulus
    BY DEF Virtual!BranchAddress
  <2> HIDE DEF r, m, local, general
  <2> QED  BY <1>3, <2>1, VirtualWords
<1> HIDE DEF m, local, general
<1>6. /\ Meets(GPRIME(r) + local, GPRIME(cpu) + local)
      /\ Meets(GPRIME(r) + general, GPRIME(cpu) + general)
  <2>1. \A y \in Int : Meets(y, cpu.G + y) /\ 0 + y = y
    BY GeneralMeets
  <2> QED  BY <1>1, <1>3, <2>1
<1> HIDE DEF r
<1> QED  BY <1>2, <1>4, <1>5, <1>6 DEF BranchForms

\* A branch leaves P where it meets the P of the relative machine.
LEMMA BranchRelative ==
  ASSUME Slave, Branch, trap' = {}
  PROVE  Virtual!Branch
<1>1. PICK op \in BranchOperations, form \in BranchForms, d \in Displacements :
        /\ Is(op, form, d)
        /\ LET x == IF op = "BRX" THEN cpu.X ELSE 0
           IN  Done(Pointers(form, d) \cup {w + x : w \in Pointers(form, d)}, {},
                    IF Taken(op) THEN [cpu EXCEPT !.P = BranchAddress(form, d, x)]
                                 ELSE Fetched, mem)
  BY DEF Branch
<1> DEFINE x == IF op = "BRX" THEN cpu.X ELSE 0
           y == IF op = "BRX" THEN Relative(cpu).X ELSE 0
           r == IF Taken(op) THEN [cpu EXCEPT !.P = BranchAddress(form, d, x)] ELSE Fetched
           S == Virtual!Pointers(form, d)
           T == Pointers(form, d)
<1>2. x = y /\ x \in Int
  BY Relatives, SlaveTypes
<1> HIDE DEF x, y
<1>3. Virtual!Taken(op) <=> Taken(op)
  BY Relatives, VirtualWords DEF Virtual!Taken, Taken
<1>4. (IF Virtual!Taken(op)
         THEN [Relative(cpu) EXCEPT !.P = Virtual!BranchAddress(form, d, x)]
         ELSE Virtual!Fetched) = Relative(r)
  <2>1. Relative([cpu EXCEPT !.P = BranchAddress(form, d, x)])
          = [Relative(cpu) EXCEPT !.P = Virtual!BranchAddress(form, d, x)]
    <3>1. Relative(WithP(cpu, BranchAddress(form, d, x)))
            = WithP(Relative(cpu), Virtual!BranchAddress(form, d, x))
      BY <1>2, BranchMeets, BasesSet
    <3> QED  BY <3>1 DEF WithP
  <2> QED  BY <1>3, <2>1, FetchedRelative
<1>5. r.G = cpu.G
  BY SlaveTypes, FetchedRelative DEF Registers
<1> HIDE DEF r
<1>6. Done(T \cup {w + x : w \in T}, {}, r, mem)
  BY <1>1 DEF r, x, T
<1>7. EachMeets(S, T)
  BY WordsMeet
<1> HIDE DEF S, T
<1>8. EachMeets({}, {}) /\ EachMeets(S \cup {w + x : w \in S}, T \cup {w + x : w \in T})
  <2>1. EachMeets({w + x : w \in S}, {w + x : w \in T})
    BY <1>2, <1>7, MeetsMoved DEF EachMeets
  <2> QED  BY <1>7, <2>1, WordsMeet
<1>9. Virtual!Done(S \cup {w + y : w \in S}, {},
                   IF Virtual!Taken(op)
                     THEN [Relative(cpu) EXCEPT !.P = Virtual!BranchAddress(form, d, y)]
                     ELSE Virtual!Fetched, FromG(cpu, mem))
  BY <1>2, <1>4, <1>5, <1>6, <1>8, DoneRelative
<1> QED  BY <1>1, <1>9, Recording, VirtualNames DEF Virtual!Branch, y, S

\* CLS finds its table below G and links P and L relative to G; RTS adds G again.
LEMMA CallSectionRelative ==
  ASSUME Slave, CallSection, trap' = {}
  PROVE  Virtual!CallSection
<1>1. PICK form \in ParameterForms, d \in Displacements :
        /\ Is("CLS", form, d)
        /\ LET entry == Entry(cpu.G, Parameter(form, d))
               lds == (read_word(mem, entry) + cpu.G) % Modulus
               linked == write_word(cpu, mem, lds, Link(cpu))
           IN  Done(ParameterWords(form, d) \cup {entry}, {lds, lds + 2},
                    [cpu EXCEPT !.L = lds,
                                !.P = (read_word(mem, entry + 2) + cpu.G) % Modulus],
                    write_word(cpu, linked, lds + 2, (cpu.L - GPRIME(cpu)) % Modulus))
  BY DEF CallSection
<1> DEFINE s == Parameter(form, d)
           q == Relative(cpu)
           w == FromG(cpu, mem)
           e == Entry(cpu.G, s)
           f == Entry(q.G, s)
           l0 == read_word(mem, e)
           p0 == read_word(mem, e + 2)
           l == (l0 + cpu.G) % Modulus
           k == (l0 + q.G) % Modulus
           p == (p0 + cpu.G) % Modulus
           o == (p0 + q.G) % Modulus
           m == write_word(cpu, mem, l, Link(cpu))
           n == write_word(cpu, m, l + 2, (cpu.L - GPRIME(cpu)) % Modulus)
           r == [cpu EXCEPT !.L = l, !.P = p]
<1>2. s \in Int /\ Virtual!Parameter(form, d) = s
  BY SlaveTypes, AddressType, WordsAndBytes, AddressesMeet
<1> HIDE DEF s
<1>3. Meets(f, e) /\ Meets(f + 2, e + 2)
  <2> DEFINE t == -(4 * s)
  <2>1. t \in Int
    BY <1>2
  <2> HIDE DEF t
  <2>2. Meets(q.G + t, cpu.G + t)
    BY <2>1, BasesMeet, MeetsMoved
  <2>3. Meets((q.G + t) % Modulus, (cpu.G + t) % Modulus)
    BY <2>2, MeetsReduced
  <2>4. q.G + t = q.G - 4 * s /\ cpu.G + t = cpu.G - 4 * s
    BY <1>2, Relatives, SlaveTypes DEF t
  <2>5. Meets(f, e)
    BY <2>3, <2>4 DEF Entry
  <2> HIDE DEF e, f
  <2> QED  BY <2>5, MeetsMoved
<1> HIDE DEF e, f
<1>4. l0 \in Word /\ p0 \in Word /\ read_word(w, f) = l0 /\ read_word(w, f + 2) = p0
  BY <1>3, SlaveTypes, RelativeWords, ReadType DEF Meets
<1> HIDE DEF l0, p0
<1>5. Meets(l0 + q.G, l0 + cpu.G) /\ Meets(p0 + q.G, p0 + cpu.G)
  <2>1. \A x \in Word : Meets(x + q.G, x + cpu.G)
    <3> TAKE x \in Word
    <3>1. x \in Int
      BY WordsAndBytes
    <3>2. x + q.G = x /\ x + cpu.G = cpu.G + x
      BY <3>1, Relatives, SlaveTypes
    <3> QED  BY <3>1, <3>2, GeneralMeets
  <2> QED  BY <1>4, <2>1
<1>6. Meets(k, l) /\ Meets(k + 2, l + 2) /\ l \in Int
  <2>1. Meets(k, l)
    BY <1>5, MeetsReduced
  <2> HIDE DEF k, l
  <2> QED  BY <2>1, MeetsMoved DEF Meets
<1>7. Relative(r) = [q EXCEPT !.L = k, !.P = o]
  <2>1. Relative(WithBases(cpu, p, l)) = WithBases(q, o, k)
    BY <1>5, BasesSet
  <2>2. \A c, x, y : WithBases(c, x, y) = [c EXCEPT !.L = y, !.P = x]
    BY DEF WithBases
  <2> HIDE DEF q, k, l, o, p
  <2> QED  BY <2>1, <2>2
<1>8. r.G = cpu.G
  BY SlaveTypes DEF Registers
<1>9. /\ Link(q) = Link(cpu) /\ (q.L - GPRIME(q)) % Modulus = (cpu.L - GPRIME(cpu)) % Modulus
      /\ Link(cpu) \in Word
  <2>1. \A x : Meets(x, cpu.P) => x % Modulus = (cpu.P - cpu.G) % Modulus
    BY MeetsReduced
  <2>2. \A x : Meets(x, cpu.L) => x % Modulus = (cpu.L - cpu.G) % Modulus
    BY MeetsReduced
  <2>3. q.P \in Int /\ q.L \in Int /\ GPRIME(q) = 0 /\ GPRIME(cpu) = cpu.G
    BY BasesMeet, Relatives, SlaveTypes DEF Meets
  <2>4. q.P - 0 = q.P /\ q.L - 0 = q.L
    BY <2>3
  <2>5. cpu.P - cpu.G \in Int
    BY SlaveTypes
  <2> QED  BY <2>1, <2>2, <2>3, <2>4, <2>5, BasesMeet, Reduces DEF Link
<1> HIDE DEF k, l, o, p, r
<1>10. m \in Memory /\ write_word(q, w, k, Link(q)) = FromG(cpu, m)
  <2>1. m \in Memory
    BY <1>6, <1>9, SlaveTypes, WriteType
  <2> QED  BY <1>6, <1>9, <2>1, SlaveTypes, RelativeWords
<1> HIDE DEF m
<1>11. write_word(q, FromG(cpu, m), k + 2, (q.L - GPRIME(q)) % Modulus) = FromG(cpu, n)
  BY <1>6, <1>9, <1>10, RelativeWords
<1> HIDE DEF n
<1>12. Done(ParameterWords(form, d) \cup {e}, {l, l + 2}, r, n)
  BY <1>1 DEF n, m, r, p, l, p0, l0, e, s
<1>13. /\ EachMeets(Virtual!ParameterWords(form, d) \cup {f}, ParameterWords(form, d) \cup {e})
       /\ EachMeets({k, k + 2}, {l, l + 2})
  BY <1>3, <1>6, WordsMeet
<1>14. Virtual!Done(Virtual!ParameterWords(form, d) \cup {f}, {k, k + 2},
                    [q EXCEPT !.L = k, !.P = o],
                    write_word(q, write_word(q, w, k, Link(q)), k + 2,
                               (q.L - GPRIME(q)) % Modulus))
  BY <1>7, <1>8, <1>10, <1>11, <1>12, <1>13, DoneRelative
<1>15. /\ Virtual!Entry(q.G, Virtual!Parameter(form, d)) = f
       /\ (Virtual!read_word(w, f) + q.G) % Virtual!Modulus = k
       /\ (Virtual!read_word(w, f + 2) + q.G) % Virtual!Modulus = o
  BY <1>2, <1>4, VirtualWords DEF f, k, o
<1>16. LET entry == Virtual!Entry(q.G, Virtual!Parameter(form, d))
           lds == (Virtual!read_word(w, entry) + q.G) % Virtual!Modulus
           linked == Virtual!write_word(q, w, lds, Virtual!Link(q))
       IN  Virtual!Done(Virtual!ParameterWords(form, d) \cup {entry}, {lds, lds + 2},
                [q EXCEPT !.L = lds,
                          !.P = (Virtual!read_word(w, entry + 2) + q.G) % Virtual!Modulus],
                Virtual!write_word(q, linked, lds + 2,
                                   (q.L - Virtual!GPRIME(q)) % Virtual!Modulus))
  <2> HIDE DEF q, w
  <2> QED  BY <1>14, <1>15, VirtualWords
<1> QED  BY <1>1, <1>16, Recording, VirtualNames DEF Virtual!CallSection

LEMMA ReturnSectionRelative ==
  ASSUME Slave, ReturnSection, trap' = {}
  PROVE  Virtual!ReturnSection
<1>1. /\ Is("RTS", "P", 0)
      /\ Done({cpu.L}, {},
              [cpu EXCEPT !.P = (read_word(mem, cpu.L) + GPRIME(cpu) + 2) % Modulus,
                          !.L = (read_word(mem, cpu.L + 2) + GPRIME(cpu)) % Modulus],
              mem)
  BY DEF ReturnSection
<1> DEFINE q == Relative(cpu)
           w == FromG(cpu, mem)
           p0 == read_word(mem, cpu.L)
           l0 == read_word(mem, cpu.L + 2)
           p == (p0 + GPRIME(cpu) + 2) % Modulus
           o == (p0 + GPRIME(q) + 2) % Modulus
           l == (l0 + GPRIME(cpu)) % Modulus
           k == (l0 + GPRIME(q)) % Modulus
           r == [cpu EXCEPT !.P = p, !.L = l]
<1>2. Meets(q.L, cpu.L) /\ Meets(q.L + 2, cpu.L + 2)
  BY BasesMeet, MeetsMoved
<1>3. /\ p0 \in Word /\ l0 \in Word
      /\ read_word(w, q.L) = p0 /\ read_word(w, q.L + 2) = l0
  BY <1>2, SlaveTypes, RelativeWords, ReadType DEF Meets
<1> HIDE DEF p0, l0
<1>4. Meets(p0 + GPRIME(q) + 2, p0 + GPRIME(cpu) + 2) /\ Meets(l0 + GPRIME(q), l0 + GPRIME(cpu))
  <2>1. \A x \in Word : Meets(x + GPRIME(q), x + GPRIME(cpu))
    <3> TAKE x \in Word
    <3>1. x \in Int /\ GPRIME(q) = 0 /\ GPRIME(cpu) = cpu.G /\ cpu.G \in Int
      BY WordsAndBytes, Relatives, SlaveTypes
    <3>2. x + 0 = x /\ x + cpu.G = cpu.G + x
      BY <3>1
    <3> QED  BY <3>1, <3>2, GeneralMeets
  <2>2. Meets(p0 + GPRIME(q), p0 + GPRIME(cpu))
    BY <1>3, <2>1
  <2> QED  BY <1>3, <2>1, <2>2, MeetsMoved
<1>5. Relative(r) = [q EXCEPT !.P = o, !.L = k]
  <2>1. Relative(WithBases(cpu, p, l)) = WithBases(q, o, k)
    BY <1>4, BasesSet
  <2> HIDE DEF q, k, l, o, p
  <2> QED  BY <2>1 DEF WithBases
<1>6. r.G = cpu.G
  BY SlaveTypes DEF Registers
<1> HIDE DEF p, o, l, k, r
<1>7. Done({cpu.L}, {}, r, mem)
  BY <1>1 DEF r, p, l, p0, l0
<1>8. EachMeets({q.L}, {cpu.L}) /\ EachMeets({}, {})
  BY <1>2 DEF EachMeets
<1>9. Virtual!Done({q.L}, {}, [q EXCEPT !.P = o, !.L = k], w)
  BY <1>5, <1>6, <1>7, <1>8, DoneRelative
<1>10. /\ (Virtual!read_word(w, q.L) + Virtual!GPRIME(q) + 2) % Virtual!Modulus = o
       /\ (Virtual!read_word(w, q.L + 2) + Virtual!GPRIME(q)) % Virtual!Modulus = k
  BY <1>3, VirtualWords DEF o, k
<1> QED  BY <1>1, <1>9, <1>10, Recording DEF Virtual!ReturnSection

\* ICL and DCL move L, which still meets the L of the relative machine.
LEMMA StepRegisterRelative ==
  ASSUME Slave, StepRegister, trap' = {}
  PROVE  Virtual!StepRegister
<1>1. PICK op \in {"ICL", "DCL", "ICX", "DCX"}, form \in ParameterForms,
           d \in Displacements :
        /\ Is(op, form, d)
        /\ LET r == Stepped(op, Fetched, Parameter(form, d))
           IN  Done(ParameterWords(form, d), {},
                    IF op \in {"ICX", "DCX"} THEN set_condition_codes_load(r, r.X) ELSE r,
                    mem)
  BY DEF StepRegister
<1> DEFINE n == Parameter(form, d)
           q == Relative(Fetched)
           r == Stepped(op, Fetched, n)
           s == IF op \in {"ICX", "DCX"} THEN set_condition_codes_load(r, r.X) ELSE r
<1>2. n \in Int /\ Virtual!Parameter(form, d) = n
  BY SlaveTypes, AddressType, WordsAndBytes, AddressesMeet
<1> HIDE DEF n
<1>3. Fetched \in Registers /\ Full(Fetched) /\ Fetched.G = cpu.G
  BY FetchedRelative
<1>4. r.G = cpu.G /\ Full(r) /\ "G" \in DOMAIN r
  BY <1>3 DEF Stepped, Registers, Full
<1>5. Stepped(op, q, n) = Relative(r)
  <2>1. CASE op \in {"ICL", "DCL"}
    <3> DEFINE t == IF op = "ICL" THEN n ELSE -n
               l == (Fetched.L + t) % Modulus
               k == (q.L + t) % Modulus
    <3>1. t \in Int
      BY <1>2
    <3> HIDE DEF t
    <3>2. Fetched.L = cpu.L /\ q.L = Relative(cpu).L
      BY SlaveTypes DEF Fetched, Relative, Registers
    <3>3. k = (l - cpu.G) % Modulus
      <4> DEFINE x == q.L + t
                 y == cpu.L + t
      <4>1. Meets(x, y)
        BY <3>1, <3>2, BasesMeet, MeetsMoved
      <4> HIDE DEF x, y
      <4>2. Meets(x % Modulus, y % Modulus)
        BY <4>1, MeetsReduced
      <4>3. (x % Modulus) % Modulus = ((y % Modulus) - cpu.G) % Modulus
        BY <4>2, MeetsReduced
      <4>4. (x % Modulus) % Modulus = x % Modulus
        <5> DEFINE j == x % Modulus
        <5>1. j \in 0..Modulus - 1
          BY <4>1, SlaveTypes DEF Meets
        <5> HIDE DEF j
        <5>2. j % Modulus = j
          BY <5>1, SlaveTypes
        <5> QED  BY <5>2 DEF j
      <4> QED  BY <3>2, <4>3, <4>4 DEF x, y
    <3>4. r = [Fetched EXCEPT !.L = l] /\ Stepped(op, q, n) = [q EXCEPT !.L = k]
      <4>1. \A c : op = "ICL" => Stepped(op, c, n) = [c EXCEPT !.L = (@ + n) % Modulus]
        BY DEF Stepped
      <4>2. \A c : op = "DCL" => Stepped(op, c, n) = [c EXCEPT !.L = (@ - n) % Modulus]
        BY DEF Stepped
      <4>3. q.L \in Int /\ Fetched.L \in Int
        BY <3>2, SlaveTypes, BasesMeet DEF Meets
      <4>4. op = "DCL" => q.L + t = q.L - n /\ Fetched.L + t = Fetched.L - n
        BY <1>2, <4>3 DEF t
      <4> HIDE DEF q
      <4> QED  BY <2>1, <4>1, <4>2, <4>4 DEF t
    <3> HIDE DEF l, k
    <3>5. Relative([Fetched EXCEPT !.L = l]) = [q EXCEPT !.L = k]
      BY <1>3, <3>3 DEF Relative, Registers
    <3> HIDE DEF q, r
    <3> QED  BY <3>4, <3>5
  <2>2. CASE op \in {"ICX", "DCX"}
    <3>1. \A c : /\ Stepped("ICX", c, n) = WithX(c, (c.X + n) % Modulus)
                 /\ Stepped("DCX", c, n) = WithX(c, (c.X - n) % Modulus)
      BY DEF Stepped, WithX
    <3>2. q.X = Fetched.X /\ \A x : WithX(q, x) = Relative(WithX(Fetched, x))
      BY <1>3, RelativeFields, RelativeAssigned
    <3> HIDE DEF q
    <3> QED  BY <2>2, <3>1, <3>2
  <2> QED  BY <2>1, <2>2
<1> HIDE DEF r
<1>6. Relative(r).X = r.X
  BY <1>4, RelativeFields
<1>7. (IF op \in {"ICX", "DCX"} THEN set_condition_codes_load(Relative(r), Relative(r).X)
       ELSE Relative(r)) = Relative(s)
  BY <1>4, <1>6, CodesRelative
<1>8. s.G = cpu.G
  <2>1. \A v : set_condition_codes_load(r, v).G = r.G
    BY <1>4 DEF set_condition_codes_load
  <2> QED  BY <1>4, <2>1
<1> HIDE DEF s
<1>9. Done(ParameterWords(form, d), {}, s, mem)
  BY <1>1 DEF s, r, n
<1>10. EachMeets(Virtual!ParameterWords(form, d), ParameterWords(form, d)) /\ EachMeets({}, {})
  BY WordsMeet
<1>11. Virtual!Done(Virtual!ParameterWords(form, d), {}, Relative(s), FromG(cpu, mem))
  BY <1>8, <1>9, <1>10, DoneRelative
<1>12. LET c == Virtual!Stepped(op, Virtual!Fetched, Virtual!Parameter(form, d))
       IN  (IF op \in {"ICX", "DCX"} THEN Virtual!set_condition_codes_load(c, c.X) ELSE c)
             = Relative(s)
  BY <1>2, <1>5, <1>7, FetchedRelative, VirtualOperations
<1> QED  BY <1>1, <1>11, <1>12, Recording, VirtualNames DEF Virtual!StepRegister

\* The end of an instruction of group 3 that computes registers from Fetched.
LEMMA RegistersDone ==
  ASSUME Slave, trap' = {}, NEW form, NEW d \in Displacements, NEW r \in Local,
         Done(ParameterWords(form, d), {}, r, mem)
  PROVE  Virtual!Done(Virtual!ParameterWords(form, d), {}, Relative(r), FromG(cpu, mem))
<1>1. EachMeets(Virtual!ParameterWords(form, d), ParameterWords(form, d)) /\ EachMeets({}, {})
  BY WordsMeet
<1>2. r.G = cpu.G
  BY DEF Local
<1> QED  BY <1>1, <1>2, DoneRelative

LEMMA ParameterShiftRelative ==
  ASSUME Slave, ParameterShift, trap' = {}
  PROVE  Virtual!ParameterShift
<1>1. PICK form \in ParameterForms, d \in Displacements :
        /\ Is("SHR", form, d)
        /\ LET p == Parameter(form, d)
           IN  Done(ParameterWords(form, d), {},
                    ShiftRegister(ShiftType(shr_types, p), p % CountSpan, Fetched), mem)
  BY DEF ParameterShift
<1> DEFINE p == Parameter(form, d)
           type == ShiftType(shr_types, p)
           n == p % CountSpan
           r == ShiftRegister(type, n, Fetched)
<1>2. p \in Int /\ Virtual!Parameter(form, d) = p
  BY SlaveTypes, AddressType, WordsAndBytes, AddressesMeet
<1> HIDE DEF p
<1>3. type \in Positions /\ n \in Nat /\ Virtual!ShiftType(Virtual!shr_types, p) = type
  BY <1>2, ShiftTables, VirtualNames DEF Positions, ShiftTypes
<1> HIDE DEF type, n
<1>4. r \in Local
  BY <1>3, KeptBases, ShiftRegisterType
<1>5. ShiftRegister(type, n, Relative(Fetched)) = Relative(r)
  BY <1>3, FetchedRelative, ShiftRegisterRelative
<1> HIDE DEF r
<1>6. Done(ParameterWords(form, d), {}, r, mem)
  BY <1>1 DEF r, type, n, p
<1>7. Virtual!Done(Virtual!ParameterWords(form, d), {}, Relative(r), FromG(cpu, mem))
  BY <1>4, <1>6, RegistersDone
<1>8. LET v == Virtual!Parameter(form, d)
      IN  Virtual!ShiftRegister(Virtual!ShiftType(Virtual!shr_types, v), v % CountSpan,
                                Virtual!Fetched) = Relative(r)
  BY <1>2, <1>3, <1>5, FetchedRelative, VirtualOperations DEF n
<1> QED  BY <1>1, <1>7, <1>8, Recording, VirtualNames DEF Virtual!ParameterShift

LEMMA AllowedRelative ==
  ASSUME Slave
  PROVE  \A op, form, d : Virtual!Allowed(op, form, d) <=> Allowed(op, form, d)
BY Relatives, VirtualNames DEF Virtual!Allowed, Allowed, Slave

LEMMA ParameterSpecialShiftRelative ==
  ASSUME Slave, ParameterSpecialShift, trap' = {}
  PROVE  Virtual!ParameterSpecialShift
<1>1. PICK form \in ParameterForms, d \in Displacements :
        /\ Is("SHC", form, d)
        /\ Allowed("SHC", form, d)
        /\ LET p == Parameter(form, d)
               type == ShiftType(shc_types, p)
               local == IF type = "DITR" THEN "unknown" ELSE type
           IN  /\ form # "DL" => type # "DITR"
               /\ Done(ParameterWords(form, d), {},
                       shift_instr(local, p % CountSpan, Fetched), mem)
  BY DEF ParameterSpecialShift
<1> DEFINE p == Parameter(form, d)
           type == ShiftType(shc_types, p)
           local == IF type = "DITR" THEN "unknown" ELSE type
           n == p % CountSpan
           r == shift_instr(local, n, Fetched)
<1>2. p \in Int /\ Virtual!Parameter(form, d) = p
  BY SlaveTypes, AddressType, WordsAndBytes, AddressesMeet
<1> HIDE DEF p
<1>3. /\ type \in SpecialTypes \cup {"DITR"} /\ n \in Nat
      /\ Virtual!ShiftType(Virtual!shc_types, p) = type
  BY <1>2, ShiftTables, VirtualNames
<1> HIDE DEF type, n
<1>4. local \in SpecialTypes
  BY <1>3 DEF SpecialTypes
<1> HIDE DEF local
<1>5. r \in Local
  BY <1>3, <1>4, KeptBases, ShiftInstrType
<1>6. shift_instr(local, n, Relative(Fetched)) = Relative(r)
  BY <1>3, <1>4, FetchedRelative, SpecialShiftRelative
<1> HIDE DEF r
<1>7. (form # "DL" => type # "DITR") /\ Done(ParameterWords(form, d), {}, r, mem)
  BY <1>1 DEF r, local, type, n, p
<1>8. Virtual!Done(Virtual!ParameterWords(form, d), {}, Relative(r), FromG(cpu, mem))
  BY <1>5, <1>7, RegistersDone
<1>9. LET v == Virtual!Parameter(form, d)
          t == Virtual!ShiftType(Virtual!shc_types, v)
          l == IF t = "DITR" THEN "unknown" ELSE t
      IN  /\ t = type
          /\ Virtual!shift_instr(l, v % CountSpan, Virtual!Fetched) = Relative(r)
  BY <1>2, <1>3, <1>6, FetchedRelative, VirtualOperations DEF n, local
<1> QED  BY <1>1, <1>7, <1>8, <1>9, Recording, AllowedRelative, VirtualNames
         DEF Virtual!ParameterSpecialShift

LEMMA ParameterRegisterRelative ==
  ASSUME Slave, ParameterRegister, trap' = {}
  PROVE  Virtual!ParameterRegister
<1>1. PICK form \in ParameterForms, d \in Displacements :
        /\ Is("SRG", form, d)
        /\ Allowed("SRG", form, d)
        /\ LET type == srg_types[1 + ((Parameter(form, d) \div 2) % 16)]
           IN  /\ form = "P" => type \in RegisterTypes
               /\ Done(ParameterWords(form, d), {},
                       IF type \in RegisterTypes THEN set_register(type, Fetched)
                                                 ELSE Fetched, mem)
  BY DEF ParameterRegister
<1> DEFINE type == srg_types[1 + ((Parameter(form, d) \div 2) % 16)]
           t == Virtual!srg_types[1 + ((Virtual!Parameter(form, d) \div 2) % 16)]
           r == IF type \in RegisterTypes THEN set_register(type, Fetched) ELSE Fetched
<1>2. t = type
  BY AddressesMeet, VirtualNames
<1> HIDE DEF type, t
<1>3. r \in Local
  BY KeptBases, SetRegisterType
<1>4. (IF t \in RegisterTypes THEN Virtual!set_register(t, Virtual!Fetched)
       ELSE Virtual!Fetched) = Relative(r)
  BY <1>2, FetchedRelative, SetRegisterRelative, VirtualOperations
<1> HIDE DEF r
<1>5. (form = "P" => type \in RegisterTypes) /\ Done(ParameterWords(form, d), {}, r, mem)
  BY <1>1 DEF r, type
<1>6. Virtual!Done(Virtual!ParameterWords(form, d), {}, Relative(r), FromG(cpu, mem))
  BY <1>3, <1>5, RegistersDone
<1> QED  BY <1>1, <1>2, <1>4, <1>5, <1>6, Recording, AllowedRelative, VirtualNames
         DEF Virtual!ParameterRegister, t

\* LDR of another register than the bases; STR of a slave does nothing.
LEMMA MoveRegisterRelative ==
  ASSUME Slave, MoveRegister, trap' = {}, ~Absolute(last')
  PROVE  Virtual!MoveRegister
<1>1. PICK op \in {"LDR", "STR"}, form \in ParameterForms, d \in Displacements :
        /\ Is(op, form, d)
        /\ Allowed(op, form, d)
        /\ LET n == Parameter(form, d) % 64
               r == IF op = "LDR" THEN [Fetched EXCEPT !.A = RegisterValue(Fetched, n)]
                    ELSE WithRegister(Fetched, n, Fetched.A)
           IN  Done(ParameterWords(form, d), {},
                    IF op = "STR" /\ cpu.MS = 0 THEN Fetched
                    ELSE set_condition_codes_load(r, r.A), mem)
  BY DEF MoveRegister
<1> DEFINE p == Parameter(form, d)
           n == p % 64
           a == RegisterValue(Fetched, n)
           s == WithA(Fetched, a)
           r == IF op = "STR" THEN Fetched ELSE set_condition_codes_load(s, s.A)
<1>2. p \in Int /\ Virtual!Parameter(form, d) = p
  BY SlaveTypes, AddressType, WordsAndBytes, AddressesMeet
<1>3. n \in 3..63
  <2>1. ~(n < 3)
    BY <1>1, Recorded DEF Absolute
  <2> HIDE DEF p
  <2>2. n \in 0..63
    BY <1>2
  <2> HIDE DEF n
  <2> QED  BY <2>1, <2>2
<1> HIDE DEF p, n
<1>4. Fetched \in Registers /\ Full(Fetched)
  BY FetchedRelative
<1>5. a \in Word
  <2>1. n \in 0..63
    BY <1>3
  <2>2. 0 \in Word
    BY WordsAndBytes, Sizes DEF Word
  <2> HIDE DEF n
  <2> QED  BY <1>4, <2>1, <2>2, NumberedRegister
<1>6. RegisterValue(Relative(Fetched), n) = a
  <2>1. CASE n \in {3, 4, 5}
    <3>1. \A c : /\ n = 3 => RegisterValue(c, n) = c.A
                 /\ n = 4 => RegisterValue(c, n) = c.E
                 /\ n = 5 => RegisterValue(c, n) = c.X
      BY <2>1 DEF RegisterValue, RegisterNames
    <3> QED  BY <1>4, <2>1, <3>1, RelativeFields
  <2>2. CASE n \in 6..63
    <3>1. \A c : RegisterValue(c, n) = c.block[n]
      BY <2>2 DEF RegisterValue, RegisterNames
    <3>2. Relative(Fetched).block = Fetched.block
      BY <1>4 DEF Relative, Registers
    <3> QED  BY <3>1, <3>2
  <2> QED  BY <1>3, <2>1, <2>2
<1> HIDE DEF a
<1>7. /\ s \in Local /\ Full(s) /\ s.A = a
      /\ WithA(Relative(Fetched), a) = Relative(s) /\ Relative(s).A = a
  <2>1. s \in Local
    BY <1>5, KeptBases, LocalAssigned DEF WithA
  <2>2. Full(s) /\ s.A = a /\ WithA(Relative(Fetched), a) = Relative(s)
    BY <1>4, AssignedFields, RelativeAssigned
  <2> HIDE DEF s
  <2> QED  BY <2>1, <2>2, RelativeFields
<1>8. r \in Local
  BY <1>7, KeptBases, LoadCodes
<1>9. set_condition_codes_load(Relative(s), a) = Relative(set_condition_codes_load(s, s.A))
  <2> HIDE DEF s
  <2> QED  BY <1>7, CodesRelative
<1>10. cpu.MS = 0 /\ Relative(cpu).MS = 0
  BY Relatives DEF Slave
<1>11. Done(ParameterWords(form, d), {}, r, mem)
  BY <1>1, <1>10 DEF r, s, a, n, p, WithA
<1> HIDE DEF r
<1>12. Virtual!Done(Virtual!ParameterWords(form, d), {}, Relative(r), FromG(cpu, mem))
  BY <1>8, <1>11, RegistersDone
<1>13. LET i == Virtual!Parameter(form, d) % 64
           c == IF op = "LDR"
                  THEN [Virtual!Fetched EXCEPT !.A = Virtual!RegisterValue(Virtual!Fetched, i)]
                  ELSE Virtual!WithRegister(Virtual!Fetched, i, Virtual!Fetched.A)
       IN  (IF op = "STR" /\ Relative(cpu).MS = 0 THEN Virtual!Fetched
            ELSE Virtual!set_condition_codes_load(c, c.A)) = Relative(r)
  <2>1. CASE op = "STR"
    BY <1>10, <2>1, FetchedRelative DEF r
  <2>2. CASE op = "LDR"
    <3>1. Virtual!Parameter(form, d) % 64 = n
      BY <1>2 DEF n
    <3>2. [Virtual!Fetched EXCEPT !.A = Virtual!RegisterValue(Virtual!Fetched, n)]
            = Relative(s)
      BY <1>6, <1>7, FetchedRelative, VirtualOperations DEF WithA
    <3>3. Virtual!set_condition_codes_load(Relative(s), Relative(s).A) = Relative(r)
      BY <1>7, <1>9, <2>2, VirtualOperations DEF r
    <3> QED  BY <2>2, <3>1, <3>2, <3>3
  <2> QED  BY <2>1, <2>2
<1> QED  BY <1>1, <1>12, <1>13, Recording, AllowedRelative, VirtualNames
         DEF Virtual!MoveRegister

\* The bytes that MVS moves, one after the other.
LEMMA MovedRelative ==
  ASSUME Slave, NEW z, NEW y, Meets(z, y)
  PROVE  Virtual!Moved(z) = FromG(cpu, Moved(y)) /\ Moved(y) \in Memory
<1> DEFINE q == Relative(cpu)
           N == q.E
           w == FromG(cpu, mem)
           from == Sources
           to == Destinations(y)
           vfrom == [n \in 1..N |-> q.G + q.A + q.E - n]
           vto == [n \in 1..N |-> z + q.E - n]
<1>1. /\ N \in Nat /\ cpu.E = N /\ Ready /\ y \in Int /\ z \in Int
      /\ q.A = cpu.A /\ cpu.A \in Int /\ cpu.G \in Int /\ q.G = 0
  BY SlaveTypes, Relatives DEF Meets
<1>2. PICK f : Copies(f, from, to) /\ Moves(from, to) = f[N]
  BY <1>1, StringPlaces, ByteByByte
<1>3. Moved(y) = f[N]
  BY <1>1, <1>2, StringPlaces
<1>4. \A n \in 1..N : Meets(vfrom[n], from[n]) /\ Meets(vto[n], to[n])
  <2> TAKE n \in 1..N
  <2> DEFINE i == cpu.A + N - n
             j == N - n
             from0 == cpu.G + cpu.A + cpu.E - n
             to0 == y + cpu.E - n
  <2>1. /\ i \in Int /\ j \in Int
        /\ vfrom[n] = i /\ from0 = cpu.G + i /\ vto[n] = z + j /\ to0 = y + j
    <3>1. vfrom[n] = q.G + q.A + N - n /\ vto[n] = z + N - n
      OBVIOUS
    <3> HIDE DEF vfrom, vto, q
    <3> QED  BY <1>1, <3>1
  <2>2. from[n] = from0 /\ to[n] = to0
    BY <1>1 DEF Sources, Destinations
  <2> HIDE DEF i, j, from0, to0, from, to, vfrom, vto
  <2>3. Meets(i, cpu.G + i) /\ Meets(z + j, y + j)
    BY <2>1, GeneralMeets, MeetsMoved
  <2> QED  BY <2>1, <2>2, <2>3
<1> DEFINE moved(m, n) == Virtual!write_byte(q, m, vto[n], Virtual!read_byte(m, vfrom[n]))
           IsAfter(g) == g = [n \in 0..N |-> IF n = 0 THEN w ELSE moved(g[n - 1], n)]
           after == CHOOSE g : IsAfter(g)
           image == [n \in 0..N |-> FromG(cpu, f[n])]
<1>5. 0..N = {0} \cup (1..N) /\ 0 \notin 1..N /\ N \in 0..N /\ \A n \in 1..N : n - 1 \in 0..N
  BY <1>1
<1>6. IsAfter(image)
  <2>1. image[0] = w /\ f[0] = mem
    BY <1>1, <1>2, <1>5 DEF Copies
  <2>2. ASSUME NEW n \in 1..N PROVE image[n] = moved(image[n - 1], n)
    <3>1. f[n] = write_byte(cpu, f[n - 1], to[n], read_byte(f[n - 1], from[n]))
      BY <1>1, <1>2 DEF Copies
    <3>2. f[n - 1] \in Memory
      BY <1>1, <1>2, <1>5 DEF Copies
    <3> DEFINE m == f[n - 1]
               b == read_byte(m, from[n])
    <3> HIDE DEF vfrom, vto
    <3>3. Meets(vfrom[n], from[n]) /\ Meets(vto[n], to[n])
      BY <1>4
    <3>4. read_byte(FromG(cpu, m), vfrom[n]) = b
      BY <3>2, <3>3, RelativeWords
    <3>5. write_byte(q, FromG(cpu, m), vto[n], b) = FromG(cpu, write_byte(cpu, m, to[n], b))
      BY <3>2, <3>3, RelativeWords
    <3>6. image[n] = FromG(cpu, f[n]) /\ image[n - 1] = FromG(cpu, m)
      BY <1>5
    <3> HIDE DEF image, q
    <3>7. moved(FromG(cpu, m), n)
            = write_byte(q, FromG(cpu, m), vto[n], read_byte(FromG(cpu, m), vfrom[n]))
      BY VirtualWords
    <3> QED  BY <3>1, <3>4, <3>5, <3>6, <3>7
  <2>3. image = [n \in 0..N |-> image[n]]
    OBVIOUS
  <2> HIDE DEF moved, image, w, N
  <2> QED  BY <1>5, <2>1, <2>2, <2>3
<1>7. IsAfter(after)
  <2> HIDE DEF IsAfter
  <2> QED  BY <1>6
<1>8. after[N] = image[N]
  <2>1. /\ \A n \in 1..N : after[n] = moved(after[n - 1], n) /\ image[n] = moved(image[n - 1], n)
        /\ after[0] = w /\ image[0] = w
    <3> HIDE DEF moved, image, w, N, after
    <3> QED  BY <1>5, <1>6, <1>7
  <2> HIDE DEF moved, image, w, N, after
  <2> DEFINE T == {n \in 0..N : after[n] = image[n]}
  <2>2. 0 \in T
    BY <1>1, <2>1
  <2>3. ASSUME NEW n \in 0..N - 1, n \in T PROVE n + 1 \in T
    <3>1. n + 1 \in 1..N /\ (n + 1) - 1 = n /\ n + 1 \in 0..N
      BY <1>1
    <3> QED  BY <2>1, <2>3, <3>1
  <2>4. 0..N \subseteq T
    <3> HIDE DEF T
    <3> QED  BY <1>1, <2>2, <2>3, RangeInduction
  <2> QED  BY <1>5, <2>4
<1>9. Virtual!Moved(z) = after[N]
  BY DEF Virtual!Moved, Virtual!Moves
<1> QED  BY <1>1, <1>2, <1>3, <1>5, <1>8, <1>9 DEF Copies

\* The bytes that TRS translates, by a table at addresses that meet.
LEMMA TranslatedRelative ==
  ASSUME Slave, NEW z, NEW y, Meets(z, y)
  PROVE  Virtual!Translated(z) = FromG(cpu, Translated(y)) /\ Translated(y) \in Memory
<1> DEFINE q == Relative(cpu)
           w == FromG(cpu, mem)
           N == q.E
           here(n) == cpu.A + cpu.G + n - 1
           vhere(n) == q.A + q.G + n - 1
<1>1. /\ N \in Nat /\ cpu.E = N /\ Ready /\ y \in Int /\ z \in Int
      /\ q.A = cpu.A /\ cpu.A \in Int /\ cpu.G \in Int /\ q.G = 0
  BY SlaveTypes, Relatives DEF Meets
<1>2. PICK f : Translates(f, y) /\ Translated(y) = f[N]
  BY <1>1, TranslationByByte
<1>3. /\ f \in [0..N -> Memory] /\ f[0] = mem
      /\ \A n \in 1..N : f[n] = write_byte(cpu, f[n - 1], here(n),
                                  read_byte(f[n - 1], y + read_byte(f[n - 1], here(n))))
  BY <1>1, <1>2 DEF Translates
<1>4. \A n \in 1..N : Meets(vhere(n), here(n))
  <2> TAKE n \in 1..N
  <2> DEFINE i == cpu.A + n - 1
             a == vhere(n)
             b == here(n)
  <2>1. i \in Int /\ a = i /\ b = cpu.G + i
    <3> HIDE DEF q
    <3> QED  BY <1>1
  <2> HIDE DEF i, a, b
  <2>2. Meets(a, b)
    BY <2>1, GeneralMeets
  <2> QED  BY <2>2 DEF a, b
<1> DEFINE moved(m, n) ==
             Virtual!write_byte(q, m, vhere(n),
               Virtual!read_byte(m, z + Virtual!read_byte(m, vhere(n))))
           IsAfter(g) == g = [n \in 0..N |-> IF n = 0 THEN w ELSE moved(g[n - 1], n)]
           after == CHOOSE g : IsAfter(g)
           image == [n \in 0..N |-> FromG(cpu, f[n])]
<1>5. 0..N = {0} \cup (1..N) /\ 0 \notin 1..N /\ N \in 0..N /\ \A n \in 1..N : n - 1 \in 0..N
  BY <1>1
<1> HIDE DEF here, vhere
<1>6. IsAfter(image)
  <2>1. image[0] = w /\ f[0] = mem
    BY <1>3, <1>5
  <2>2. ASSUME NEW n \in 1..N PROVE image[n] = moved(image[n - 1], n)
    <3> DEFINE m == f[n - 1]
               a == vhere(n)
               b == here(n)
               v == read_byte(m, b)
               x == read_byte(m, y + v)
    <3>1. f[n] = write_byte(cpu, m, b, x)
      BY <1>3
    <3>2. m \in Memory
      BY <1>3, <1>5
    <3>3. Meets(a, b)
      BY <1>4
    <3> HIDE DEF a, b, m
    <3>4. read_byte(FromG(cpu, m), a) = v /\ v \in Int
      <4>1. b \in Int
        BY <3>3 DEF Meets
      <4>2. v \in Byte
        BY <3>2, <4>1, ReadType
      <4> QED  BY <3>2, <3>3, <4>2, RelativeWords, WordsAndBytes
    <3> HIDE DEF v
    <3>5. Meets(z + v, y + v)
      BY <3>4, MeetsMoved
    <3>6. read_byte(FromG(cpu, m), z + v) = x
      BY <3>2, <3>5, RelativeWords
    <3> HIDE DEF x
    <3>7. write_byte(q, FromG(cpu, m), a, x) = FromG(cpu, write_byte(cpu, m, b, x))
      BY <3>2, <3>3, RelativeWords
    <3>8. moved(FromG(cpu, m), n) = write_byte(q, FromG(cpu, m), a, x)
      BY <3>4, <3>6, VirtualWords DEF a
    <3>9. image[n] = FromG(cpu, f[n]) /\ image[n - 1] = FromG(cpu, m)
      BY <1>5 DEF m
    <3> HIDE DEF image, q, moved
    <3> QED  BY <3>1, <3>7, <3>8, <3>9
  <2>3. image = [n \in 0..N |-> image[n]]
    OBVIOUS
  <2> HIDE DEF moved, image, w, N
  <2> QED  BY <1>5, <2>1, <2>2, <2>3
<1>7. IsAfter(after)
  <2> HIDE DEF IsAfter
  <2> QED  BY <1>6
<1>8. after[N] = image[N]
  <2>1. /\ \A n \in 1..N : after[n] = moved(after[n - 1], n) /\ image[n] = moved(image[n - 1], n)
        /\ after[0] = w /\ image[0] = w
    <3> HIDE DEF moved, image, w, N, after
    <3> QED  BY <1>5, <1>6, <1>7
  <2> HIDE DEF moved, image, w, N, after
  <2> DEFINE T == {n \in 0..N : after[n] = image[n]}
  <2>2. 0 \in T
    BY <1>1, <2>1
  <2>3. ASSUME NEW n \in 0..N - 1, n \in T PROVE n + 1 \in T
    <3>1. n + 1 \in 1..N /\ (n + 1) - 1 = n /\ n + 1 \in 0..N
      BY <1>1
    <3> QED  BY <2>1, <2>3, <3>1
  <2>4. 0..N \subseteq T
    <3> HIDE DEF T
    <3> QED  BY <1>1, <2>2, <2>3, RangeInduction
  <2> QED  BY <1>5, <2>4
<1>9. Virtual!Translated(z) = after[N]
  BY DEF Virtual!Translated, vhere
<1> QED  BY <1>1, <1>2, <1>3, <1>5, <1>8, <1>9

\* A string is at even addresses in both machines.
LEMMA StringsEven ==
  ASSUME Slave, NEW y \in Int, NEW z \in Int
  PROVE  ~HasOdd(StringBytes(y)) /\ ~HasOdd(Virtual!StringBytes(z))
<1>1. \A a \in Int : (2 * Cell(a)) % 2 = 0
  <2> TAKE a \in Int
  <2>1. Cell(a) \in Int
    BY Places
  <2> HIDE DEF Cell
  <2> QED  BY <2>1
<1>2. cpu.E \in Nat /\ Relative(cpu).E = cpu.E
  BY SlaveTypes, Relatives
<1>3. ~HasOdd(StringBytes(y))
  BY <1>1, <1>2 DEF StringBytes, HasOdd
<1>4. ~HasOdd(Virtual!StringBytes(z))
  <2>1. Virtual!StringBytes(z) = {2 * Cell(z + i) : i \in 0..cpu.E - 1}
    BY <1>2, VirtualWords DEF Virtual!StringBytes
  <2> QED  BY <1>1, <1>2, <2>1 DEF HasOdd
<1> QED  BY <1>3, <1>4

LEMMA MoveStringRelative ==
  ASSUME Slave, MoveString, trap' = {}
  PROVE  Virtual!MoveString
<1>1. PICK form \in MemoryForms, d \in Displacements :
        /\ Is("MVS", form, d)
        /\ LET y == TargetAddress(form, d)
           IN  Done(Pointers(form, d), StringBytes(y),
                    [Fetched EXCEPT !.E = Modulus - 1], Moved(y))
  BY DEF MoveString
<1> DEFINE y == TargetAddress(form, d)
           z == Virtual!TargetAddress(form, d)
           r == WithE(Fetched, Modulus - 1)
<1>2. Meets(z, y)
  BY AddressesMeet
<1> HIDE DEF y, z
<1>3. /\ r.G = cpu.G
      /\ [Virtual!Fetched EXCEPT !.E = Virtual!Modulus - 1] = Relative(r)
  <2>1. Fetched \in Registers /\ Full(Fetched) /\ Fetched.G = cpu.G
    BY FetchedRelative
  <2>2. r.G = cpu.G
    BY <2>1, AssignedBases
  <2>3. WithE(Relative(Fetched), Modulus - 1) = Relative(r)
    BY <2>1, RelativeAssigned
  <2> QED  BY <2>2, <2>3, FetchedRelative, VirtualWords DEF WithE
<1>4. Virtual!Moved(z) = FromG(cpu, Moved(y))
  BY <1>2, MovedRelative
<1>5. Done(Pointers(form, d), StringBytes(y), r, Moved(y))
  BY <1>1 DEF r, y, WithE
<1> HIDE DEF r
<1>6. /\ HasOdd(Virtual!Pointers(form, d)) <=> HasOdd(Pointers(form, d))
      /\ HasOdd(Virtual!StringBytes(z)) <=> HasOdd(StringBytes(y))
  BY <1>2, WordsMeet, EachMeetsOdd, StringsEven DEF Meets
<1>7. Virtual!Done(Virtual!Pointers(form, d), Virtual!StringBytes(z),
                   Relative(r), FromG(cpu, Moved(y)))
  BY <1>3, <1>5, <1>6, EndRelative
<1> QED  BY <1>1, <1>3, <1>4, <1>7, Recording, VirtualNames DEF Virtual!MoveString, z

LEMMA TranslateStringRelative ==
  ASSUME Slave, TranslateString, trap' = {}
  PROVE  Virtual!TranslateString
<1>1. PICK form \in MemoryForms, d \in Displacements :
        /\ Is("TRS", form, d)
        /\ LET y == TargetAddress(form, d)
           IN  Done(Pointers(form, d), StringBytes(cpu.A + cpu.G),
                    [Fetched EXCEPT !.E = 0], Translated(y))
  BY DEF TranslateString
<1> DEFINE y == TargetAddress(form, d)
           z == Virtual!TargetAddress(form, d)
           r == WithE(Fetched, 0)
           a == cpu.A + cpu.G
           b == Relative(cpu).A + Relative(cpu).G
<1>2. Meets(z, y) /\ a \in Int /\ b \in Int
  BY AddressesMeet, SlaveTypes, Relatives
<1> HIDE DEF y, z
<1>3. /\ r.G = cpu.G
      /\ [Virtual!Fetched EXCEPT !.E = 0] = Relative(r)
  <2>1. Fetched \in Registers /\ Full(Fetched) /\ Fetched.G = cpu.G
    BY FetchedRelative
  <2>2. r.G = cpu.G
    BY <2>1, AssignedBases
  <2>3. WithE(Relative(Fetched), 0) = Relative(r)
    BY <2>1, RelativeAssigned
  <2> QED  BY <2>2, <2>3, FetchedRelative DEF WithE
<1>4. Virtual!Translated(z) = FromG(cpu, Translated(y))
  BY <1>2, TranslatedRelative
<1>5. Done(Pointers(form, d), StringBytes(a), r, Translated(y))
  BY <1>1 DEF r, y, WithE
<1> HIDE DEF r, a, b
<1>6. /\ HasOdd(Virtual!Pointers(form, d)) <=> HasOdd(Pointers(form, d))
      /\ HasOdd(Virtual!StringBytes(b)) <=> HasOdd(StringBytes(a))
  BY <1>2, WordsMeet, EachMeetsOdd, StringsEven
<1>7. Virtual!Done(Virtual!Pointers(form, d), Virtual!StringBytes(b),
                   Relative(r), FromG(cpu, Translated(y)))
  BY <1>3, <1>5, <1>6, EndRelative
<1> QED  BY <1>1, <1>3, <1>4, <1>7, Recording, VirtualNames DEF Virtual!TranslateString, z, b

\* The instructions with an absolute address are not the step of a slave that
\* Relocatable is about.
LEMMA NoAbsolute ==
  ASSUME cpu.MS = 0, ~Absolute(last')
  PROVE  /\ ~CompareString /\ ~StoreProgramAddress /\ ~CallSupervisor
         /\ ~ReturnSupervisor /\ ~TestAndSet /\ ~LoadProtection /\ ~PrivilegedTrap
<1>1. \A op, form, d : Is(op, form, d) =>
        op \notin {"SPA", "CSV", "RSV", "CPS", "TES", "LDP"} /\ ~Privileged(op, form, d)
  BY DEF Is, Absolute
<1>2. ~CompareString /\ ~StoreProgramAddress /\ ~CallSupervisor
  BY <1>1 DEF CompareString, StoreProgramAddress, CallSupervisor
<1>3. ~ReturnSupervisor /\ ~TestAndSet /\ ~LoadProtection
  BY <1>1 DEF ReturnSupervisor, TestAndSet, LoadProtection
<1>4. ~PrivilegedTrap
  BY <1>1 DEF PrivilegedTrap
<1> QED  BY <1>2, <1>3, <1>4

\* Each instruction of a slave is the same one of the relative machine.
LEMMA EachRelative ==
  ASSUME TypeOK, Next, Running, cpu.MS = 0, cpu.MP = {}, cpu.G % 2 = 0,
         trap' = {}, ~Absolute(last')
  PROVE  Virtual!Next
<1>1. Slave
  BY DEF Slave
<1>2. ~Idle
  BY DEF Idle
<1>3. CASE \/ LoadWord \/ LoadAddress \/ DoubleLoad \/ StoreWord \/ DoubleStore
  BY <1>1, <1>3, LoadWordRelative, LoadAddressRelative, DoubleLoadRelative,
     StoreWordRelative, DoubleStoreRelative DEF Virtual!Next
<1>4. CASE MoveString \/ TranslateString
  BY <1>1, <1>4, MoveStringRelative, TranslateStringRelative DEF Virtual!Next
<1>5. CASE Branch \/ CallSection \/ ReturnSection
  BY <1>1, <1>5, BranchRelative, CallSectionRelative, ReturnSectionRelative
     DEF Virtual!Next
<1>6. CASE \/ StepRegister \/ ParameterShift \/ ParameterSpecialShift
           \/ ParameterRegister \/ MoveRegister
  BY <1>1, <1>6, StepRegisterRelative, ParameterShiftRelative,
     ParameterSpecialShiftRelative, ParameterRegisterRelative, MoveRegisterRelative
     DEF Virtual!Next
<1> QED  BY <1>2, <1>3, <1>4, <1>5, <1>6, NoAbsolute DEF Next

(* A slave program runs at every even G as it runs at 0: each step that the  *)
(* property is about, from every reachable state, is a step of the same      *)
(* program with the addresses relative to G.                                 *)
THEOREM SlavesRelocate == Spec => Relocatable
<1> DEFINE relocated == /\ cpu.MS = 0 /\ cpu.MP = {} /\ cpu.G % 2 = 0
                        /\ trap' = {} /\ ~Absolute(last')
                        => Virtual!Next
<1>1. TypeOK /\ [Next]_vars => [relocated]_vars
  <2> SUFFICES ASSUME TypeOK, Next, cpu.MS = 0, cpu.MP = {}, cpu.G % 2 = 0,
                      trap' = {}, ~Absolute(last'), ~UNCHANGED vars
               PROVE  Virtual!Next
    OBVIOUS
  <2>1. CASE Running
    BY <2>1, EachRelative
  <2>2. CASE ~Running
    <3>1. Idle
      BY <2>2 DEF Next, LoadWord, LoadAddress, CompareString, DoubleLoad, StoreWord,
         DoubleStore, StoreProgramAddress, MoveString, TranslateString, Branch,
         CallSection, ReturnSection, CallSupervisor, ReturnSupervisor, StepRegister,
         ParameterShift, ParameterSpecialShift, ParameterRegister, MoveRegister,
         TestAndSet, LoadProtection, PrivilegedTrap
    <3> QED  BY <3>1 DEF Idle
  <2> QED  BY <2>1, <2>2
<1> QED  BY <1>1, WordsStayWords, PTL DEF Spec, Relocatable

=============================================================================
