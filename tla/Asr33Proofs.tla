---------------------------- MODULE Asr33Proofs ----------------------------
(* Theorems about Asr33, for every size of byte, tape, lock and register.    *)
EXTENDS Asr33, TLAPS

----------------------------------------------------------------------------
(* Quotients and remainders by a constant that the prover does not know.     *)

LEMMA DivMod ==
  ASSUME NEW r \in Nat, NEW b \in Nat, b > 0
  PROVE  /\ r = b * (r \div b) + (r % b)
         /\ r % b \in 0..(b - 1)
         /\ r \div b \in Nat
OBVIOUS

LEMMA MultipleIsMonotonic ==
  ASSUME NEW b \in Nat, NEW p \in Nat, NEW q \in Nat, q <= p
  PROVE  b * q <= b * p
OBVIOUS

LEMMA QuotientOfWord ==
  ASSUME NEW b \in Nat, b >= 2, NEW r \in 0..(b * b - 1)
  PROVE  r \div b \in 0..(b - 1)
<1>1. /\ r = b * (r \div b) + (r % b)
      /\ r % b \in 0..(b - 1)
      /\ r \div b \in Nat
  BY DivMod
<1>2. CASE r \div b >= b
  <2>1. b * b <= b * (r \div b)
    BY <1>1, <1>2, MultipleIsMonotonic
  <2> QED  BY <1>1, <2>1
<1> QED  BY <1>1, <1>2

\* Replacing the low byte of a word gives a word.
LEMMA LowByteOfWord ==
  ASSUME NEW b \in Nat, b >= 2, NEW r \in 0..(b * b - 1), NEW c \in 0..(b - 1)
  PROVE  r - (r % b) + c \in 0..(b * b - 1)
<1> DEFINE x == b * (r \div b)
           y == b * b
<1>1. r = x + (r % b) /\ r % b \in 0..(b - 1)
  BY DivMod
<1>2. r \div b \in 0..(b - 1)
  BY QuotientOfWord
<1>3. x <= b * (b - 1)
  BY <1>2, MultipleIsMonotonic
<1>4. x <= y - b /\ x \in Nat /\ y \in Nat /\ r - (r % b) = x
  BY <1>1, <1>2, <1>3
<1> HIDE DEF x, y
<1> QED  BY <1>4 DEF y

\* Fewer than h consecutive numbers have different remainders by h.
LEMMA RemaindersDiffer ==
  ASSUME NEW h \in Nat, h > 0, NEW a \in Nat, NEW d \in 1..(h - 1)
  PROVE  a % h # (a + d) % h
<1> DEFINE p == a \div h
           q == (a + d) \div h
<1>1. SUFFICES ASSUME a % h = (a + d) % h PROVE FALSE
  OBVIOUS
<1>2. a = h * p + (a % h) /\ p \in Nat /\ a % h \in Nat
  BY DivMod
<1>3. a + d = h * q + ((a + d) % h) /\ q \in Nat
  BY DivMod
<1>4. d = h * q - h * p
  BY <1>1, <1>2, <1>3
<1> HIDE DEF p, q
<1>5. CASE q <= p
  <2>1. h * q <= h * p
    BY <1>2, <1>3, <1>5, MultipleIsMonotonic
  <2> QED  BY <1>2, <1>3, <1>4, <2>1
<1>6. CASE q >= p + 1
  <2>1. h * (p + 1) <= h * q
    BY <1>2, <1>3, <1>6, MultipleIsMonotonic
  <2>2. h * (p + 1) = h * p + h
    BY <1>2
  <2> QED  BY <1>2, <1>3, <1>4, <2>1, <2>2
<1> QED  BY <1>2, <1>3, <1>5, <1>6

----------------------------------------------------------------------------
(* The values the registers and the memory get. *)

LEMMA Sizes ==
  /\ Base \in Nat /\ Base >= 2
  /\ Half \in Nat /\ Half > 0
  /\ 2 * Half <= Base * Base
<1>1. Base \in Nat /\ Base >= 2 /\ Half \in Nat /\ Half > 0
  BY BaseAssumption
<1>2. Base * Base \in Nat
  BY <1>1
<1>3. 2 * Half <= Base * Base
  <2> DEFINE s == Base * Base
  <2>1. s \in Nat /\ Half = s \div 2
    BY <1>2 DEF Half
  <2> HIDE DEF s
  <2>2. 2 * Half <= s
    BY <2>1
  <2> QED  BY <2>2 DEF s
<1> QED  BY <1>1, <1>3

LEMMA ByteOfWord ==
  ASSUME NEW r \in Word
  PROVE  r \div Base \in Byte
BY Sizes, QuotientOfWord DEF Word, Byte

LEMMA LastCharIsWord ==
  ASSUME R11 \in Word, NEW c \in Byte
  PROVE  LastChar(c) \in Word
BY Sizes, LowByteOfWord DEF Word, Byte, LastChar

LEMMA CountIsWord ==
  ASSUME NEW n \in Int
  PROVE  (n % Half) + Half \in Word
<1>1. n % Half \in 0..(Half - 1)
  BY Sizes
<1> DEFINE s == Base * Base
<1>2. s \in Nat /\ 2 * Half <= s
  BY Sizes
<1> HIDE DEF s
<1>3. (n % Half) + Half \in 0..(s - 1)
  BY <1>1, <1>2, Sizes
<1> QED  BY <1>3 DEF s, Word

LEMMA ZeroIsWord == 0 \in Word /\ 0 \in Byte
<1>1. Base * Base \in Nat /\ Base * Base > 0
  BY Sizes
<1> QED  BY <1>1, Sizes DEF Word, Byte

LEMMA PhysicalAddress ==
  ASSUME NEW a \in Nat
  PROVE  VA_TO_PA(a) \in Address
BY Sizes DEF VA_TO_PA, Address

\* write_byte keeps the type of memory and reports with a trap.
LEMMA WrittenByte ==
  ASSUME TypeOK, NEW a \in Nat, NEW c \in Byte, write_byte(a, c)
  PROVE  /\ M' \in [Address -> Byte]
         /\ trp_req' \in BOOLEAN
BY PhysicalAddress DEF TypeOK, write_byte

----------------------------------------------------------------------------
(* The inductive invariant.  TypeOK alone is not inductive: that the count   *)
(* stays a natural number needs the count of the transfer in progress, and   *)
(* that a character is not overwritten by a later one of the same transfer   *)
(* needs that no transfer is longer than memory.                             *)

Counted ==
  /\ job.asked < Half
  /\ Len(job.chars) <= job.asked + 1
  /\ asr.active => /\ asr.bytes_left > 0
                   /\ Len(job.chars) + asr.bytes_left = job.asked + 1
                   /\ asr.mem_addr = job.start + Len(job.chars)

Placed ==
  \A i \in DOMAIN job.chars :
    LET a == VA_TO_PA(job.start + i - 1)
    IN  a \in Locked \/ M[a] = job.chars[i]

IInv == TypeOK /\ Counted /\ Placed /\ ServicedUntilDone

LEMMA InvariantPlaces == IInv => TransferInPlace
BY DEF IInv, Counted, Placed, TransferInPlace

LEMMA InitInvariant == Init => IInv
<1> SUFFICES ASSUME Init PROVE IInv
  OBVIOUS
<1>1. asr \in AsrState
  BY ZeroIsWord DEF Init, AsrState, Mode
<1>2. M \in [Address -> Byte]
  BY ZeroIsWord DEF Init
<1>3. pos \in 0..Len(Tape)
  BY InputsAssumption DEF Init
<1>4. NoJob \in [start : Nat, asked : Nat, chars : Seq(Byte)]
  BY DEF NoJob
<1>5. TypeOK
  <2>1. R9 \in Word /\ R10 \in Word /\ R11 \in Word
    BY ZeroIsWord DEF Init
  <2>2. job \in [start : Nat, asked : Nat, chars : Seq(Byte)]
    BY <1>4 DEF Init
  <2>3. /\ PR \in BOOLEAN /\ trp_req \in BOOLEAN /\ image \in BOOLEAN
        /\ queued \in BOOLEAN /\ intrpt_pending \in BOOLEAN
        /\ reason \in {"run", "stop"}
    BY Zenon DEF Init
  <2>4. epoch \in 0..1
    BY DEF Init
  <2> QED  BY <1>1, <1>2, <1>3, <2>1, <2>2, <2>3, <2>4 DEF TypeOK
<1> QED  BY <1>5, Sizes DEF Init, IInv, Counted, Placed, ServicedUntilDone, NoJob

\* The condition a command latches has the types of the coupler's state.
LEMMA LatchedType ==
  ASSUME TypeOK
  PROVE  /\ Latched \in AsrState
         /\ Latched = [asr EXCEPT !.stop_on_compare = Latched.stop_on_compare,
                                  !.compare_char = Latched.compare_char]
BY ByteOfWord DEF TypeOK, AsrState, Latched

\* What a character leaves of the transfer, whether or not it is the last.
LEMMA CharacterCounted ==
  ASSUME TypeOK, Counted, asr.active, NEW matched \in BOOLEAN, NEW w \in Word,
         EndOfCharacter(matched, w)
  PROVE  /\ asr' \in AsrState
         /\ R9' \in Word
         /\ queued' \in BOOLEAN
         /\ intrpt_pending' \in BOOLEAN
         /\ asr'.mem_addr = asr.mem_addr + 1
         /\ asr'.bytes_left = asr.bytes_left - 1
         /\ asr'.active => asr'.bytes_left > 0 /\ queued'
<1>1. /\ asr \in AsrState /\ asr.bytes_left \in Nat /\ asr.bytes_left > 0
      /\ asr.mem_addr \in Nat /\ R9 \in Word /\ intrpt_pending \in BOOLEAN
  BY DEF TypeOK, Counted, AsrState
<1>2. /\ Moved \in AsrState
      /\ Moved.bytes_left = asr.bytes_left - 1
      /\ Moved.mem_addr = asr.mem_addr + 1
  <2>1. asr.bytes_left - 1 \in Nat /\ asr.mem_addr + 1 \in Nat
    BY <1>1
  <2>2. Moved = [asr EXCEPT !.mem_addr = asr.mem_addr + 1,
                            !.bytes_left = asr.bytes_left - 1]
    BY DEF Moved
  <2> QED  BY <1>1, <2>1, <2>2 DEF AsrState
<1> DEFINE ended == matched \/ Moved.bytes_left = 0
<1>3. /\ asr' = [Moved EXCEPT !.active = ~ended,
                   !.status = IF ~ended THEN @
                              ELSE IF asr.mode = "write" THEN 2 ELSE 3]
      /\ R9' = IF matched THEN w ELSE IF ended THEN 0 ELSE R9
      /\ intrpt_pending' = (intrpt_pending \/ ended)
      /\ queued' = ~ended
  BY DEF EndOfCharacter
<1>4. ended \in BOOLEAN
  OBVIOUS
<1>5. Moved.bytes_left \in Nat /\ (~ended => Moved.bytes_left > 0)
  BY <1>1, <1>2 DEF AsrState
<1> HIDE DEF ended
<1>6. asr' \in AsrState /\ asr'.active = ~ended
      /\ asr'.mem_addr = Moved.mem_addr /\ asr'.bytes_left = Moved.bytes_left
  BY <1>2, <1>3, <1>4 DEF AsrState
<1>7. R9' \in Word
  BY <1>1, <1>3, ZeroIsWord
<1> QED  BY <1>1, <1>2, <1>3, <1>4, <1>5, <1>6, <1>7

\* The character joins those of the transfer, and the counts follow.
LEMMA CharacterRecorded ==
  ASSUME TypeOK, Counted, asr.active, NEW c \in Byte, Recorded(c),
         asr'.mem_addr = asr.mem_addr + 1,
         asr'.bytes_left = asr.bytes_left - 1,
         asr'.active => asr'.bytes_left > 0
  PROVE  /\ job' \in [start : Nat, asked : Nat, chars : Seq(Byte)]
         /\ Counted'
<1>1. /\ job \in [start : Nat, asked : Nat, chars : Seq(Byte)]
      /\ asr.bytes_left \in Nat
  BY DEF TypeOK, AsrState
<1>2. job' = [job EXCEPT !.chars = Append(job.chars, c)]
  BY DEF Recorded
<1>0. Append(job.chars, c) \in Seq(Byte)
  BY <1>1
<1>3. /\ job'.start = job.start /\ job'.asked = job.asked
      /\ job'.chars = Append(job.chars, c)
      /\ job' \in [start : Nat, asked : Nat, chars : Seq(Byte)]
  BY <1>0, <1>1, <1>2
<1>4. Len(job'.chars) = Len(job.chars) + 1 /\ Len(job.chars) \in Nat
  BY <1>1, <1>3
<1>5. asr.bytes_left > 0 /\ Len(job.chars) + asr.bytes_left = job.asked + 1
      /\ asr.mem_addr = job.start + Len(job.chars) /\ job.asked < Half
  BY DEF Counted
<1>6. job.asked \in Nat /\ job.start \in Nat
  BY <1>1
<1>7. Len(job'.chars) + asr'.bytes_left = job'.asked + 1
      /\ Len(job'.chars) <= job'.asked + 1
      /\ asr'.mem_addr = job'.start + Len(job'.chars)
  BY <1>1, <1>3, <1>4, <1>5, <1>6
<1>8. Counted'
  BY <1>3, <1>5, <1>7 DEF Counted
<1> QED  BY <1>3, <1>8

\* The character is at its place, and the others stay at theirs: a transfer is
\* not longer than memory, so that their addresses differ from its own.
LEMMA CharacterPlaced ==
  ASSUME TypeOK, Counted, Placed, asr.active, NEW c \in Byte, Recorded(c),
         \/ write_byte(asr.mem_addr, c)
         \/ UNCHANGED M /\ c = M[VA_TO_PA(asr.mem_addr)]
  PROVE  Placed'
<1> DEFINE n == Len(job.chars)
           here == VA_TO_PA(asr.mem_addr)
<1>1. /\ job \in [start : Nat, asked : Nat, chars : Seq(Byte)]
      /\ asr.mem_addr = job.start + n /\ asr.mem_addr \in Nat
      /\ n \in Nat /\ n < Half
  BY Sizes DEF TypeOK, Counted, AsrState
<1>2. job' = [job EXCEPT !.chars = Append(job.chars, c)]
  BY DEF Recorded
<1>3. /\ job'.start = job.start
      /\ DOMAIN job'.chars = 1..(n + 1)
      /\ job'.chars[n + 1] = c
      /\ \A i \in 1..n : job'.chars[i] = job.chars[i]
  BY <1>1, <1>2
<1>4. here \in Address /\ M \in [Address -> Byte]
  BY <1>1, PhysicalAddress DEF TypeOK
<1>5. /\ here \in Locked \/ M'[here] = c
      /\ \A a \in Address \ {here} : M'[a] = M[a]
  BY <1>4 DEF write_byte
<1> SUFFICES ASSUME NEW i \in 1..(n + 1)
             PROVE  \/ VA_TO_PA(job.start + i - 1) \in Locked
                    \/ M'[VA_TO_PA(job.start + i - 1)] = job'.chars[i]
  BY <1>3 DEF Placed
<1>6. CASE i = n + 1
  <2>1. job.start + i - 1 = asr.mem_addr
    BY <1>1, <1>6
  <2> QED  BY <1>3, <1>5, <1>6, <2>1
<1>7. CASE i \in 1..n
  <2> DEFINE a == job.start + i - 1
             d == n - (i - 1)
  <2>1. a \in Nat /\ d \in 1..(Half - 1) /\ a + d = asr.mem_addr
    BY <1>1, <1>7, Sizes
  <2>2. VA_TO_PA(a) # here
    <3> HIDE DEF a, d
    <3>1. a % Half # (a + d) % Half
      BY <2>1, RemaindersDiffer, Sizes
    <3> QED  BY <2>1, <3>1 DEF VA_TO_PA
  <2>3. VA_TO_PA(a) \in Address
    BY <2>1, PhysicalAddress
  <2>4. VA_TO_PA(a) \in Locked \/ M[VA_TO_PA(a)] = job.chars[i]
    BY <1>1, <1>7 DEF Placed
  <2> QED  BY <1>3, <1>5, <1>7, <2>2, <2>3, <2>4
<1> QED  BY <1>6, <1>7, <1>1

\* A step that leaves the transfer, its history and memory alone.
LEMMA TransferUntouched ==
  ASSUME IInv, UNCHANGED <<M, job>>, asr' \in AsrState,
         asr'.active => /\ asr.active
                        /\ asr'.mem_addr = asr.mem_addr
                        /\ asr'.bytes_left = asr.bytes_left
  PROVE  Counted' /\ Placed'
<1>1. Counted'
  BY DEF IInv, Counted
<1>2. Placed'
  BY DEF IInv, Placed
<1> QED  BY <1>1, <1>2

\* A command that starts a transfer; the other commands.
LEMMA StartInvariant ==
  ASSUME IInv, NEW m \in Mode \ {"idle"}, Start(m)
  PROVE  IInv'
<1> USE DEF IInv
<1>1. TypeOK /\ Latched \in AsrState
  BY LatchedType
<1>2. R9 % Half \in 0..(Half - 1) /\ R10 \in Nat
  <2>1. R9 \in Nat /\ R10 \in Nat
    <3>1. Base * Base \in Nat
      BY Sizes
    <3> QED  BY <1>1, <3>1 DEF TypeOK, Word
  <2> QED  BY <2>1, Sizes, DivMod
<1>3. /\ asr' = [Latched EXCEPT !.active = TRUE, !.mode = m,
                   !.status = IF m = "write" THEN 2 ELSE 3,
                   !.mem_addr = R10 + 1, !.bytes_left = (R9 % Half) + 1]
      /\ queued' = TRUE
      /\ job' = [start |-> R10 + 1, asked |-> R9 % Half, chars |-> <<>>]
      /\ epoch' = 1 - epoch
      /\ UNCHANGED <<registers, M, cpu, image, pos, intrpt_pending>>
  BY DEF Start, Command
<1>4. R10 + 1 \in Nat /\ (R9 % Half) + 1 \in Nat /\ R9 % Half \in Nat
      /\ R9 % Half < Half /\ (R9 % Half) + 1 > 0
  BY <1>2, Sizes
<1>5. asr' \in AsrState /\ asr'.mem_addr = R10 + 1
      /\ asr'.bytes_left = (R9 % Half) + 1
  BY <1>1, <1>3, <1>4 DEF AsrState
<1>6. /\ job' \in [start : Nat, asked : Nat, chars : Seq(Byte)]
      /\ job'.start = R10 + 1 /\ job'.asked = R9 % Half /\ job'.chars = <<>>
  BY <1>3, <1>4
<1>7. epoch' \in 0..1
  BY <1>3 DEF TypeOK
<1>8. TypeOK'
  BY <1>1, <1>3, <1>5, <1>6, <1>7 DEF TypeOK, registers, cpu
<1>9. Counted'
  BY <1>4, <1>5, <1>6 DEF Counted
<1>10. Placed'
  BY <1>6 DEF Placed
<1> QED  BY <1>3, <1>8, <1>9, <1>10 DEF ServicedUntilDone

LEMMA StoreInvariant == IInv /\ StoreRegister => IInv'
<1> SUFFICES ASSUME IInv, StoreRegister PROVE IInv'
  OBVIOUS
<1>1. R9' \in Word /\ R10' \in Word /\ R11' \in Word
  BY InputsAssumption DEF StoreRegister, IInv, TypeOK
<1>2. UNCHANGED <<asr, M, cpu, image, pos, queued, intrpt_pending, job, epoch>>
  BY DEF StoreRegister
<1>3. Counted' /\ Placed'
  BY <1>2, TransferUntouched DEF IInv, TypeOK
<1> QED  BY <1>1, <1>2, <1>3 DEF IInv, TypeOK, cpu, ServicedUntilDone

LEMMA CommandInvariant ==
  ASSUME IInv, Rest \/ Suppress \/ UnknownCommand
  PROVE  IInv'
<1>1. Latched \in AsrState /\ TypeOK
  BY LatchedType DEF IInv
<1>2. /\ asr' \in AsrState
      /\ asr'.active => /\ asr.active
                        /\ asr'.mem_addr = asr.mem_addr
                        /\ asr'.bytes_left = asr.bytes_left
  <2>1. CASE Rest
    BY <1>1, <2>1 DEF Rest, AsrState, Mode
  <2>2. CASE Suppress
    BY <1>1, <2>2 DEF Suppress, AsrState
  <2>3. CASE UnknownCommand
    BY <1>1, <2>3, LatchedType DEF UnknownCommand, TypeOK, AsrState
  <2> QED  BY <2>1, <2>2, <2>3
<1>3. /\ UNCHANGED <<registers, M, PR, trp_req, image, pos, queued,
                     intrpt_pending, job>>
      /\ reason' \in {"run", "stop"}
      /\ epoch' = 1 - epoch
  BY <1>1 DEF Rest, Suppress, UnknownCommand, Command, cpu, TypeOK
<1>4. Counted' /\ Placed'
  BY <1>2, <1>3, TransferUntouched
<1>5. epoch' \in 0..1
  BY <1>1, <1>3 DEF TypeOK
<1>6. TypeOK'
  BY <1>1, <1>2, <1>3, <1>5 DEF TypeOK, registers
<1> QED  BY <1>2, <1>3, <1>4, <1>6 DEF IInv, ServicedUntilDone

\* A character is moved.
LEMMA KeyboardInvariant == IInv /\ KeyboardCharacter => IInv'
<1> SUFFICES ASSUME IInv, KeyboardCharacter PROVE IInv'
  OBVIOUS
<1>1. PICK c \in Typed :
        /\ write_byte(asr.mem_addr, c)
        /\ R11' = LastChar(c)
        /\ EndOfCharacter(Matches(c), Unread)
        /\ Recorded(c)
  BY DEF KeyboardCharacter
<1>2. /\ TypeOK /\ Counted /\ Placed /\ asr.active /\ c \in Byte
      /\ asr \in AsrState /\ asr.mem_addr \in Nat
  BY InputsAssumption DEF IInv, KeyboardCharacter, Polled, TypeOK, AsrState
<1>3. UNCHANGED <<R10, PR, reason, image, pos, epoch>>
  BY DEF KeyboardCharacter
<1>4. Matches(c) \in BOOLEAN /\ Unread \in Word
  <2>1. Moved.bytes_left \in Int
    BY <1>2 DEF Moved, AsrState
  <2> QED  BY <1>2, <2>1, CountIsWord DEF Matches, AsrState, Unread
<1>5. /\ asr' \in AsrState /\ R9' \in Word
      /\ queued' \in BOOLEAN /\ intrpt_pending' \in BOOLEAN
      /\ asr'.mem_addr = asr.mem_addr + 1
      /\ asr'.bytes_left = asr.bytes_left - 1
      /\ asr'.active => asr'.bytes_left > 0 /\ queued'
  BY <1>1, <1>2, <1>4, CharacterCounted
<1>6. /\ job' \in [start : Nat, asked : Nat, chars : Seq(Byte)]
      /\ Counted'
  BY <1>1, <1>2, <1>5, CharacterRecorded
<1>7. Placed'
  BY <1>1, <1>2, CharacterPlaced
<1>8. M' \in [Address -> Byte] /\ trp_req' \in BOOLEAN
  BY <1>1, <1>2, WrittenByte
<1>9. R11' \in Word
  BY <1>1, <1>2, LastCharIsWord DEF TypeOK
<1>10. TypeOK'
  BY <1>2, <1>3, <1>5, <1>6, <1>8, <1>9 DEF TypeOK
<1> QED  BY <1>5, <1>6, <1>7, <1>10 DEF IInv, ServicedUntilDone

LEMMA TapeInvariant == IInv /\ TapeCharacter => IInv'
<1> SUFFICES ASSUME IInv, TapeCharacter PROVE IInv'
  OBVIOUS
<1> DEFINE c == Tape[pos + 1]
<1>1. /\ write_byte(asr.mem_addr, c)
      /\ R11' = IF Matches(c) THEN Unread ELSE LastChar(c)
      /\ EndOfCharacter(Matches(c), R9)
      /\ Recorded(c)
  BY DEF TapeCharacter
<1>2. /\ TypeOK /\ Counted /\ Placed /\ asr.active /\ R9 \in Word
      /\ asr \in AsrState /\ asr.mem_addr \in Nat
  BY DEF IInv, TapeCharacter, Polled, TypeOK, AsrState
<1>3. c \in Byte /\ pos + 1 \in 0..Len(Tape)
  <2>1. Tape \in Seq(Byte) /\ pos \in Nat /\ pos < Len(Tape)
    BY InputsAssumption DEF IInv, TypeOK, TapeCharacter
  <2> QED  BY <2>1
<1>4. /\ UNCHANGED <<R10, PR, reason, image, epoch>>
      /\ pos' = pos + 1
  BY DEF TapeCharacter
<1> HIDE DEF c
<1>5. Matches(c) \in BOOLEAN /\ Unread \in Word
  <2>1. Moved.bytes_left \in Int
    BY <1>2 DEF Moved, AsrState
  <2> QED  BY <1>2, <2>1, CountIsWord DEF Matches, AsrState, Unread
<1>6. /\ asr' \in AsrState /\ R9' \in Word
      /\ queued' \in BOOLEAN /\ intrpt_pending' \in BOOLEAN
      /\ asr'.mem_addr = asr.mem_addr + 1
      /\ asr'.bytes_left = asr.bytes_left - 1
      /\ asr'.active => asr'.bytes_left > 0 /\ queued'
  BY <1>1, <1>2, <1>5, CharacterCounted
<1>7. /\ job' \in [start : Nat, asked : Nat, chars : Seq(Byte)]
      /\ Counted'
  BY <1>1, <1>2, <1>3, <1>6, CharacterRecorded
<1>8. Placed'
  BY <1>1, <1>2, <1>3, CharacterPlaced
<1>9. M' \in [Address -> Byte] /\ trp_req' \in BOOLEAN
  BY <1>1, <1>2, <1>3, WrittenByte
<1>10. R11' \in Word
  BY <1>1, <1>2, <1>3, <1>5, LastCharIsWord DEF TypeOK
<1>11. TypeOK'
  BY <1>2, <1>3, <1>4, <1>6, <1>7, <1>9, <1>10 DEF TypeOK
<1> QED  BY <1>6, <1>7, <1>8, <1>11 DEF IInv, ServicedUntilDone

LEMMA PrintInvariant == IInv /\ PrintCharacter => IInv'
<1> SUFFICES ASSUME IInv, PrintCharacter PROVE IInv'
  OBVIOUS
<1> DEFINE c == M[VA_TO_PA(asr.mem_addr)]
<1>1. EndOfCharacter(FALSE, R9) /\ Recorded(c)
  BY DEF PrintCharacter
<1>2. /\ TypeOK /\ Counted /\ Placed /\ asr.active /\ R9 \in Word
      /\ asr.mem_addr \in Nat
  BY DEF IInv, PrintCharacter, Polled, TypeOK, AsrState
<1>3. c \in Byte
  BY <1>2, PhysicalAddress DEF TypeOK
<1>4. UNCHANGED <<R10, R11, M, cpu, image, pos, epoch>>
  BY DEF PrintCharacter
<1>5. /\ asr' \in AsrState /\ R9' \in Word
      /\ queued' \in BOOLEAN /\ intrpt_pending' \in BOOLEAN
      /\ asr'.mem_addr = asr.mem_addr + 1
      /\ asr'.bytes_left = asr.bytes_left - 1
      /\ asr'.active => asr'.bytes_left > 0 /\ queued'
  BY <1>1, <1>2, CharacterCounted
<1>6. /\ job' \in [start : Nat, asked : Nat, chars : Seq(Byte)]
      /\ Counted'
  <2> HIDE DEF c
  <2> QED  BY <1>1, <1>2, <1>3, <1>5, CharacterRecorded
<1>7. Placed'
  BY <1>1, <1>2, <1>3, <1>4, CharacterPlaced
<1>8. TypeOK'
  BY <1>2, <1>4, <1>5, <1>6 DEF TypeOK, cpu
<1> QED  BY <1>5, <1>6, <1>7, <1>8 DEF IInv, ServicedUntilDone

\* The other calls of asr_svc, the operator and the processor leave the
\* transfer alone or end it; none of them takes the event of a transfer away.
LEMMA ServiceInvariant ==
  ASSUME IInv, IdleService \/ NothingTyped \/ KeyboardStop \/ TapeError
  PROVE  IInv'
<1> USE DEF IInv
<1>1. CASE IdleService
  <2>1. Counted' /\ Placed'
    BY <1>1, TransferUntouched DEF IdleService, TypeOK
  <2> QED  BY <1>1, <2>1 DEF IdleService, TypeOK, registers, cpu,
                             ServicedUntilDone
<1>2. CASE NothingTyped
  BY <1>2 DEF NothingTyped, vars, registers, cpu, TypeOK, Counted, Placed,
              ServicedUntilDone
<1>3. CASE KeyboardStop
  <2>1. asr' \in AsrState /\ ~asr'.active
    BY <1>3 DEF KeyboardStop, TypeOK, AsrState
  <2>2. Counted' /\ Placed'
    BY <1>3, <2>1, TransferUntouched DEF KeyboardStop
  <2> QED  BY <1>3, <2>1, <2>2 DEF KeyboardStop, TypeOK, registers, cpu,
                                   ServicedUntilDone
<1>4. CASE TapeError
  <2>1. asr' \in AsrState /\ ~asr'.active
    BY <1>4 DEF TapeError, TypeOK, AsrState
  <2>2. Counted' /\ Placed'
    BY <1>4, <2>1, TransferUntouched DEF TapeError
  <2> QED  BY <1>4, <2>1, <2>2, ZeroIsWord DEF TapeError, TypeOK, cpu,
                                               ServicedUntilDone
<1> QED  BY <1>1, <1>2, <1>3, <1>4

LEMMA ClearedType ==
  ASSUME TypeOK
  PROVE  Cleared \in AsrState /\ ~Cleared.active
BY DEF TypeOK, AsrState, Mode, Cleared

LEMMA TapeChangeInvariant ==
  ASSUME IInv, Attach \/ Detach \/ Reset
  PROVE  IInv'
<1>1. TypeOK /\ Cleared \in AsrState /\ ~Cleared.active
  BY ClearedType DEF IInv
<1>2. asr' \in AsrState /\ ~asr'.active
  BY <1>1 DEF Attach, Detach, Reset, TypeOK, AsrState
<1>3. /\ UNCHANGED <<registers, M, cpu, queued, intrpt_pending, job>>
      /\ image' \in BOOLEAN
      /\ epoch' = 1 - epoch
  BY <1>1 DEF Attach, Detach, Reset, Command, TypeOK
<1>4. pos' \in 0..Len(Tape)
  BY <1>1, InputsAssumption DEF Attach, Detach, Reset, TypeOK
<1>5. Counted' /\ Placed'
  BY <1>2, <1>3, TransferUntouched
<1>6. epoch' \in 0..1
  BY <1>1, <1>3 DEF TypeOK
<1>7. TypeOK'
  BY <1>1, <1>2, <1>3, <1>4, <1>6 DEF TypeOK, registers, cpu
<1> QED  BY <1>2, <1>5, <1>7 DEF IInv, ServicedUntilDone

LEMMA BootInvariant == IInv /\ Boot => IInv'
<1> SUFFICES ASSUME IInv, Boot PROVE IInv'
  OBVIOUS
<1>1. TypeOK /\ Cleared \in AsrState /\ ~Cleared.active
  BY ClearedType DEF IInv
<1>2. /\ asr' = Cleared /\ PR' \in Keys /\ trp_req' = FALSE
      /\ intrpt_pending' \in BOOLEAN /\ reason' = "run" /\ job' = NoJob
      /\ epoch' = 1 - epoch /\ UNCHANGED <<registers, image, queued>>
  BY DEF Boot, Command
<1>3. PICK first \in AfterLeader :
        /\ pos' = IF first + BootMax - 1 < Len(Tape)
                    THEN first + BootMax - 1 ELSE Len(Tape)
        /\ M' = [a \in Address |->
                   IF first + a <= pos' /\ (PR \/ a \notin Locked)
                     THEN Tape[first + a] ELSE M[a]]
  BY DEF Boot
<1>4. /\ Tape \in Seq(Byte) /\ first \in 1..Len(Tape) /\ BootMax \in Nat
      /\ BootMax > 0 /\ Len(Tape) \in Nat
  BY InputsAssumption, <1>3, Sizes DEF AfterLeader
<1>5. pos' \in 0..Len(Tape)
  BY <1>3, <1>4
<1>6. M' \in [Address -> Byte]
  <2>1. ASSUME NEW a \in Address, first + a <= pos'
        PROVE  Tape[first + a] \in Byte
    <3>1. first + a \in 1..Len(Tape)
      BY <1>4, <1>5, <2>1, Sizes DEF Address
    <3> QED  BY <1>4, <3>1
  <2> QED  BY <1>1, <1>3, <2>1 DEF TypeOK
<1>7. job' \in [start : Nat, asked : Nat, chars : Seq(Byte)]
      /\ job'.asked = 0 /\ job'.chars = <<>>
  BY <1>2 DEF NoJob
<1>8. PR' \in BOOLEAN
  BY <1>2, InputsAssumption
<1>9. epoch' \in 0..1
  BY <1>1, <1>2 DEF TypeOK
<1>10. TypeOK'
  BY <1>1, <1>2, <1>5, <1>6, <1>7, <1>8, <1>9 DEF TypeOK, registers
<1>11. Counted' /\ Placed'
  BY <1>1, <1>2, <1>7, Sizes DEF Counted, Placed
<1> QED  BY <1>1, <1>2, <1>10, <1>11 DEF IInv, ServicedUntilDone

LEMMA EnvironmentInvariant ==
  ASSUME IInv, OperatorStop \/ Continue \/ BootBlankTape \/ Processor
  PROVE  IInv'
<1>1. /\ UNCHANGED <<asr, registers, M, queued, image, job, epoch>>
      /\ reason' \in {"run", "stop"} /\ pos' \in 0..Len(Tape)
      /\ PR' \in BOOLEAN /\ trp_req' \in BOOLEAN /\ intrpt_pending' \in BOOLEAN
  <2> USE DEF IInv, TypeOK
  <2>1. CASE OperatorStop
    BY <2>1 DEF OperatorStop
  <2>2. CASE Continue
    BY <2>2 DEF Continue
  <2>3. CASE BootBlankTape
    BY <2>3, InputsAssumption DEF BootBlankTape, cpu
  <2>4. CASE Processor
    BY <2>4, InputsAssumption DEF Processor
  <2> QED  BY <2>1, <2>2, <2>3, <2>4
<1>2. Counted' /\ Placed'
  BY <1>1, TransferUntouched DEF IInv, TypeOK
<1> QED  BY <1>1, <1>2 DEF IInv, TypeOK, registers, ServicedUntilDone

LEMMA StepInvariant == IInv /\ [Next]_vars => IInv'
<1> SUFFICES ASSUME IInv, [Next]_vars PROVE IInv'
  OBVIOUS
<1>1. CASE Program
  BY <1>1, StoreInvariant, StartInvariant, CommandInvariant DEF Program
<1>2. CASE asr_svc
  BY <1>2, ServiceInvariant, KeyboardInvariant, TapeInvariant, PrintInvariant
     DEF asr_svc
<1>3. CASE Operator
  BY <1>3, TapeChangeInvariant, BootInvariant, EnvironmentInvariant
     DEF Operator
<1>4. CASE Processor
  BY <1>4, EnvironmentInvariant
<1>5. CASE UNCHANGED vars
  BY <1>5 DEF vars, registers, cpu, IInv, TypeOK, Counted, Placed,
              ServicedUntilDone
<1> QED  BY <1>1, <1>2, <1>3, <1>4, <1>5 DEF Next

LEMMA Invariance == Spec => []IInv
BY InitInvariant, StepInvariant, PTL DEF Spec

----------------------------------------------------------------------------

\* Every variable keeps its type (asr33_wd, asr33_poll, asr33_boot).
THEOREM TypeCorrect == Spec => []TypeOK
<1>1. IInv => TypeOK
  BY DEF IInv
<1> QED  BY Invariance, <1>1, PTL

\* A transfer in progress has its event in the queue: whatever the order of
\* commands, resets and tape changes, asr_svc is called for it again.
THEOREM AlwaysServiced == Spec => []ServicedUntilDone
<1>1. IInv => ServicedUntilDone
  BY DEF IInv
<1> QED  BY Invariance, <1>1, PTL

\* Each character moved is at its place and counted once, for every start
\* address and count, also across the end of memory (write_byte).
THEOREM TransfersInPlace == Spec => []TransferInPlace
BY Invariance, InvariantPlaces, PTL

----------------------------------------------------------------------------

\* A character ends the transfer with a request, or leaves both alone.
LEMMA CharacterReported ==
  ASSUME TypeOK, NEW matched, NEW w, EndOfCharacter(matched, w)
  PROVE  /\ ~asr'.active => intrpt_pending'
         /\ ~intrpt_pending /\ intrpt_pending' => ~asr'.active
         /\ asr'.mode = asr.mode
<1>1. Moved.mode = asr.mode /\ DOMAIN Moved = DOMAIN asr
      /\ {"active", "mode", "status"} \subseteq DOMAIN Moved
  BY DEF TypeOK, AsrState, Moved
<1>2. asr'.active = ~(matched \/ Moved.bytes_left = 0) /\ asr'.mode = Moved.mode
  BY <1>1 DEF EndOfCharacter, TypeOK, AsrState, Moved
<1>3. intrpt_pending'
        = (intrpt_pending \/ (matched \/ Moved.bytes_left = 0))
  BY DEF EndOfCharacter
<1> QED  BY <1>1, <1>2, <1>3

LEMMA StepReported ==
  ASSUME IInv, Next, epoch' = epoch
  PROVE  /\ asr.active /\ ~asr'.active /\ ~KeyboardStop => intrpt_pending'
         /\ ~intrpt_pending /\ intrpt_pending' => asr.active /\ ~asr'.active
<1>1. TypeOK /\ 1 - epoch # epoch
  BY DEF IInv, TypeOK
<1>2. ~Command
  BY <1>1 DEF Command
<1>3. CASE Program
  <2>1. StoreRegister
    BY <1>2, <1>3 DEF Program, Start, Rest, Suppress, UnknownCommand
  <2> QED  BY <2>1 DEF StoreRegister
<1>4. CASE asr_svc
  <2>1. CASE IdleService \/ NothingTyped \/ KeyboardStop
    BY <2>1 DEF IdleService, NothingTyped, KeyboardStop, vars
  <2>2. CASE TapeError
    BY <1>1, <2>2 DEF TapeError, Polled, TypeOK, AsrState
  <2>3. CASE KeyboardCharacter \/ TapeCharacter \/ PrintCharacter
    <3>1. asr.active
      BY <2>3 DEF KeyboardCharacter, TapeCharacter, PrintCharacter, Polled
    <3>2. \E matched, w : EndOfCharacter(matched, w)
      BY <2>3 DEF KeyboardCharacter, TapeCharacter, PrintCharacter
    <3> QED  BY <1>1, <3>1, <3>2, CharacterReported
  <2> QED  BY <1>4, <2>1, <2>2, <2>3 DEF asr_svc
<1>5. CASE Operator
  <2>1. OperatorStop \/ Continue \/ BootBlankTape
    BY <1>2, <1>5 DEF Operator, Attach, Detach, Reset, Boot
  <2> QED  BY <2>1 DEF OperatorStop, Continue, BootBlankTape
<1>6. CASE Processor
  BY <1>6 DEF Processor
<1> QED  BY <1>3, <1>4, <1>5, <1>6 DEF Next

\* A transfer that ends without a command leaves a request, unless the operator
\* gives it up (asr33_poll): the waiting program is told.
THEOREM EndsAreReported == Spec => EndsReported
<1>1. IInv /\ [Next]_vars =>
        [epoch' = epoch =>
          /\ (asr.active /\ ~asr'.active /\ ~KeyboardStop => intrpt_pending')
          /\ (~intrpt_pending /\ intrpt_pending'
                => asr.active /\ ~asr'.active)]_vars
  BY StepReported
<1> QED  BY Invariance, <1>1, PTL DEF Spec, EndsReported

----------------------------------------------------------------------------
(* The order of the tape. *)

LEMMA EmptyPart ==
  ASSUME NEW p \in 0..Len(Tape)
  PROVE  <<>> = SubSeq(Tape, p + 1, p)
<1>1. Tape \in Seq(Byte)
  BY InputsAssumption
<1> QED  BY <1>1

\* A sequence is a part of the tape if it agrees with it.
LEMMA PartOfTape ==
  ASSUME NEW s \in Seq(Byte), NEW p \in 0..Len(Tape), Len(s) <= p,
         \A i \in 1..Len(s) : s[i] = Tape[p - Len(s) + i]
  PROVE  s = SubSeq(Tape, p - Len(s) + 1, p)
<1> DEFINE n == Len(s)
           part == SubSeq(Tape, p - n + 1, p)
<1>1. Tape \in Seq(Byte) /\ n \in Nat /\ p \in Nat
  BY InputsAssumption
<1>2. /\ part \in Seq(Byte) /\ Len(part) = n
      /\ \A i \in 1..n : part[i] = Tape[p - n + i]
  BY <1>1
<1> HIDE DEF part
<1>3. \A i \in 1..n : s[i] = part[i]
  BY <1>2
<1> QED  BY <1>1, <1>2, <1>3 DEF part

LEMMA InPart ==
  ASSUME NEW s \in Seq(Byte), NEW p \in 0..Len(Tape), Len(s) <= p,
         s = SubSeq(Tape, p - Len(s) + 1, p)
  PROVE  \A i \in 1..Len(s) : s[i] = Tape[p - Len(s) + i]
<1>1. Tape \in Seq(Byte)
  BY InputsAssumption
<1>2. Len(s) \in Nat /\ p \in Nat
  BY <1>1
<1> DEFINE n == Len(s)
<1> HIDE DEF n
<1>3. s = SubSeq(Tape, p - n + 1, p)
  BY DEF n
<1> QED  BY <1>1, <1>2, <1>3 DEF n

\* A character read from the tape prolongs the part that has been read.
LEMMA TapeCharacterInOrder ==
  ASSUME IInv, TapeInOrder, TapeCharacter
  PROVE  TapeInOrder'
<1> DEFINE n == Len(job.chars)
           c == Tape[pos + 1]
<1>1. /\ TypeOK /\ asr.active /\ asr.mode = "tape"
      /\ Tape \in Seq(Byte) /\ pos \in Nat /\ pos < Len(Tape)
      /\ pos' = pos + 1
      /\ job' = [job EXCEPT !.chars = Append(job.chars, c)]
  BY InputsAssumption DEF IInv, TapeCharacter, Polled, Recorded, TypeOK
<1>2. /\ job \in [start : Nat, asked : Nat, chars : Seq(Byte)]
      /\ n \in Nat /\ c \in Byte
  BY <1>1 DEF TypeOK
<1>3. n <= pos /\ job.chars = SubSeq(Tape, pos - n + 1, pos)
  BY <1>1 DEF TapeInOrder
<1>4. \A i \in 1..n : job.chars[i] = Tape[pos - n + i]
  <2> DEFINE s == job.chars
             p == pos
  <2>1. /\ s \in Seq(Byte) /\ p \in 0..Len(Tape) /\ Len(s) <= p
        /\ s = SubSeq(Tape, p - Len(s) + 1, p)
    BY <1>1, <1>2, <1>3
  <2> HIDE DEF s, p
  <2>2. \A i \in 1..Len(s) : s[i] = Tape[p - Len(s) + i]
    BY <2>1, InPart
  <2> QED  BY <2>2 DEF s, p
<1> HIDE DEF c
<1>5. /\ job'.chars = Append(job.chars, c) /\ job'.chars \in Seq(Byte)
      /\ Len(job'.chars) = n + 1
  BY <1>1, <1>2
<1>6. \A i \in 1..(n + 1) : job'.chars[i] = Tape[pos' - (n + 1) + i]
  <2> SUFFICES ASSUME NEW i \in 1..(n + 1)
               PROVE  job'.chars[i] = Tape[pos' - (n + 1) + i]
    OBVIOUS
  <2>1. pos' - (n + 1) + i = pos - n + i
    BY <1>1, <1>2
  <2>2. CASE i \in 1..n
    BY <1>2, <1>4, <1>5, <2>1, <2>2
  <2>3. CASE i = n + 1
    <3>1. pos - n + i = pos + 1
      BY <1>1, <1>2, <2>3
    <3> QED  BY <1>2, <1>5, <2>1, <2>3, <3>1 DEF c
  <2> QED  BY <1>2, <2>2, <2>3
<1>7. pos' \in 0..Len(Tape) /\ n + 1 <= pos'
  BY <1>1, <1>2, <1>3
<1>8. job'.chars = SubSeq(Tape, pos' - Len(job'.chars) + 1, pos')
  BY <1>5, <1>6, <1>7, PartOfTape, ZenonT(60)
<1> QED  BY <1>5, <1>7, <1>8 DEF TapeInOrder

\* A tape that is all leader looks the same everywhere.
LEMMA BlankTapeInOrder ==
  ASSUME IInv, TapeInOrder, BootBlankTape
  PROVE  TapeInOrder'
<1> SUFFICES ASSUME asr.active, asr.mode = "tape"
             PROVE  /\ Len(job.chars) <= pos'
                    /\ job.chars = SubSeq(Tape, pos' - Len(job.chars) + 1, pos')
  BY DEF BootBlankTape, TapeInOrder
<1> DEFINE n == Len(job.chars)
<1>1. /\ Tape \in Seq(Byte) /\ pos \in 0..Len(Tape) /\ pos' = Len(Tape)
      /\ job.chars \in Seq(Byte) /\ n \in Nat /\ Len(Tape) \in Nat
  BY InputsAssumption DEF IInv, TypeOK, BootBlankTape
<1>2. n <= pos /\ job.chars = SubSeq(Tape, pos - n + 1, pos)
  BY DEF TapeInOrder
<1>3. \A i \in 1..n : job.chars[i] = Tape[pos - n + i]
  <2> DEFINE s == job.chars
             p == pos
  <2>1. /\ s \in Seq(Byte) /\ p \in 0..Len(Tape) /\ Len(s) <= p
        /\ s = SubSeq(Tape, p - Len(s) + 1, p)
    BY <1>1, <1>2
  <2> HIDE DEF s, p
  <2>2. \A i \in 1..Len(s) : s[i] = Tape[p - Len(s) + i]
    BY <2>1, InPart
  <2> QED  BY <2>2 DEF s, p
<1>4. \A j \in 1..Len(Tape) : Tape[j] = 0
  BY DEF BootBlankTape, AfterLeader
<1>5. \A i \in 1..n : job.chars[i] = Tape[pos' - n + i]
  <2> SUFFICES ASSUME NEW i \in 1..n
               PROVE  job.chars[i] = Tape[pos' - n + i]
    OBVIOUS
  <2>1. pos - n + i \in 1..Len(Tape) /\ pos' - n + i \in 1..Len(Tape)
    BY <1>1, <1>2
  <2> QED  BY <1>3, <1>4, <2>1
<1>6. n <= pos' /\ pos' \in 0..Len(Tape)
  BY <1>1, <1>2
<1> QED  BY <1>1, <1>5, <1>6, PartOfTape

LEMMA StepTape == IInv /\ TapeInOrder /\ [Next]_vars => TapeInOrder'
<1> SUFFICES ASSUME IInv, TapeInOrder, [Next]_vars PROVE TapeInOrder'
  OBVIOUS
<1>1. TypeOK
  BY DEF IInv
<1>2. CASE Program
  <2>1. ASSUME NEW m \in Mode \ {"idle"}, Start(m) PROVE TapeInOrder'
    <3>1. job'.chars = <<>> /\ pos' = pos /\ pos \in 0..Len(Tape)
      BY <1>1, <2>1 DEF Start, TypeOK
    <3>2. pos \in Nat /\ Len(<<>>) = 0
      BY <3>1, InputsAssumption
    <3>3. <<>> = SubSeq(Tape, pos - 0 + 1, pos)
      BY <3>1, <3>2, EmptyPart
    <3> QED  BY <3>1, <3>2, <3>3 DEF TapeInOrder
  <2>2. CASE StoreRegister
    BY <2>2 DEF StoreRegister, TapeInOrder
  <2>3. CASE Rest \/ Suppress
    <3>1. ~asr'.active
      BY <1>1, <2>3, LatchedType DEF Rest, Suppress, AsrState
    <3> QED  BY <3>1 DEF TapeInOrder
  <2>4. CASE UnknownCommand
    <3>1. asr'.active = asr.active /\ asr'.mode = asr.mode
          /\ UNCHANGED <<pos, job>>
      BY <1>1, <2>4 DEF UnknownCommand, Latched, TypeOK, AsrState
    <3> QED  BY <3>1 DEF TapeInOrder
  <2> QED  BY <1>2, <2>1, <2>2, <2>3, <2>4 DEF Program
<1>3. CASE asr_svc
  <2>1. CASE IdleService \/ NothingTyped
    BY <2>1 DEF IdleService, NothingTyped, vars, TapeInOrder
  <2>2. CASE KeyboardStop \/ TapeError
    <3>1. ~asr'.active
      BY <1>1, <2>2 DEF KeyboardStop, TapeError, TypeOK, AsrState
    <3> QED  BY <3>1 DEF TapeInOrder
  <2>3. CASE KeyboardCharacter \/ PrintCharacter
    <3>1. asr.mode # "tape" /\ \E matched, w : EndOfCharacter(matched, w)
      BY <2>3 DEF KeyboardCharacter, PrintCharacter, Polled
    <3>2. asr'.mode = asr.mode
      BY <1>1, <3>1, CharacterReported
    <3> QED  BY <3>1, <3>2 DEF TapeInOrder
  <2>4. CASE TapeCharacter
    BY <2>4, TapeCharacterInOrder
  <2> QED  BY <1>3, <2>1, <2>2, <2>3, <2>4 DEF asr_svc
<1>4. CASE Operator
  <2>1. CASE OperatorStop \/ Continue
    BY <2>1 DEF OperatorStop, Continue, TapeInOrder
  <2>2. CASE Attach \/ Detach \/ Reset \/ Boot
    <3>1. ~asr'.active
      BY <1>1, <2>2, ClearedType
         DEF Attach, Detach, Reset, Boot, TypeOK, AsrState
    <3> QED  BY <3>1 DEF TapeInOrder
  <2>3. CASE BootBlankTape
    BY <2>3, BlankTapeInOrder
  <2> QED  BY <1>4, <2>1, <2>2, <2>3 DEF Operator
<1>5. CASE Processor
  BY <1>5 DEF Processor, TapeInOrder
<1>6. CASE UNCHANGED vars
  BY <1>6 DEF vars, TapeInOrder
<1> QED  BY <1>2, <1>3, <1>4, <1>5, <1>6 DEF Next

\* What a transfer has read is the tape before the reader, in order, whatever
\* stopped, changed or booted from the tape before (asr33_attach, asr33_poll).
THEOREM TapeReadInOrder == Spec => []TapeInOrder
<1>1. Init => TapeInOrder
  BY DEF Init, TapeInOrder
<1> QED  BY Invariance, <1>1, StepTape, PTL DEF Spec
=============================================================================
