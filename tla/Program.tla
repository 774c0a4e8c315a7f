------------------------------ MODULE Program ------------------------------
(***************************************************************************)
(* The instructions of the Mitra-15 that use an address: the address forms, *)
(* the loads and stores, the strings, the branches, the sections, the       *)
(* registers and the protection locks (mitra_instr.c and the rest of        *)
(* mitra_instr_utils.c).  The program is any sequence of instructions of    *)
(* Repertoire; it is not fetched from mem, which holds its data.            *)
(*                                                                          *)
(* cpu has the registers A, E, X, P, L and G, the indicators C, OV, MS, PR  *)
(* and MA, the indexes MP of the protection locks that are set, and the     *)
(* other registers that LDR and STR name, from V and W on, in block.  Words *)
(* are at even byte addresses and their first byte is the left one.  The    *)
(* highest bit of an address is ignored.                                    *)
(***************************************************************************)
EXTENDS Operations, Sequences

CONSTANTS
  Repertoire,  \* the instructions of the program: <<operation, form, displacement>>
  Start,       \* the registers and the memory the program starts with
  MaxSteps,    \* the instructions executed
  CountSpan    \* the counts of a shift, which precede its type (32 in the code)

VARIABLES
  cpu,    \* the registers
  mem,    \* the words of memory
  last,   \* the last instruction executed
  trap,   \* the causes of the trap the last instruction took, if any
  state,  \* "run", "stop" (back to the operator) or "exit" (simulator gone)
  steps   \* how many instructions were executed

vars == <<cpu, mem, last, trap, state, steps>>

Memory == [0..(Half \div 2) - 1 -> Word]
Registers ==
  [A : Word, E : Word, X : Word, P : Word, L : Word, G : Word,
   C : Flag, OV : Flag, MS : Flag, PR : Flag, MA : Flag,
   MP : SUBSET (0..Half - 1), block : [6..63 -> Word]]

ASSUME StartAssumption ==
  \A s \in Start : s.cpu \in Registers /\ s.mem \in Memory

ASSUME CountAssumption == CountSpan \in Nat \ {0}

\* A displacement, a byte in the code, is a word; the indicators are five bits.
ASSUME RepertoireAssumption == \A i \in Repertoire : i[3] \in Word
ASSUME BoundAssumption == MaxSteps \in Nat
ASSUME IndicatorsAssumption == Half >= 16

----------------------------------------------------------------------------
(* Memory. *)

VA_TO_PA(va) == va % Half
Cell(va) == VA_TO_PA(va) \div 2
read_word(m, va) == m[Cell(va)]
read_byte(m, va) ==
  IF va % 2 = 1 THEN Right(m[Cell(va)]) ELSE Left(m[Cell(va)])

\* A lock is looked up by the index of the word.
Refused(r, va) == r.PR = 0 /\ Cell(va) \in r.MP

write_word(r, m, va, v) == IF Refused(r, va) THEN m ELSE [m EXCEPT ![Cell(va)] = v]

write_byte(r, m, va, b) ==
  write_word(r, m, va, IF va % 2 = 1 THEN Join(Left(m[Cell(va)]), b)
                                     ELSE Join(b, Right(m[Cell(va)])))

\* Mutant: G' is G in either mode.
gprime_always(r) == r.G

\* G', by which the addresses of a slave program are relative to G.
GPRIME(r) == IF r.MS = 1 THEN 0 ELSE r.G

\* The indicators in the five top bits of a word.
set_indicators(r) ==
  (Half * r.PR + (Half \div 2) * r.MA + (Half \div 4) * r.MS
    + (Half \div 8) * r.OV + (Half \div 16) * r.C)

load_indicators_from_block(r, word) ==
  [r EXCEPT !.PR = word \div Half, !.MA = (word \div (Half \div 2)) % 2,
            !.MS = (word \div (Half \div 4)) % 2,
            !.OV = (word \div (Half \div 8)) % 2,
            !.C = (word \div (Half \div 16)) % 2]

----------------------------------------------------------------------------
(* Traps. *)

\* mitra_trap: the cause and the context go to words 1 to 4, each unless it is
\* locked, and section 0 of the supervisor is called, its P-base first.
mitra_trap(r, m, cause, pc) ==
  LET m1 == write_word(r, m, 2, BitOr(read_word(m, 2), Half \div 2^cause))
      m2 == write_word(r, m1, 4, VA_TO_PA(pc - GPRIME(r)))
      m3 == write_word(r, m2, 6, VA_TO_PA(r.L - GPRIME(r)))
      m4 == write_word(r, m3, 8, set_indicators(r))
      prts == read_word(m4, 12)
  IN  [mem |-> m4, ok |-> prts < Half, even |-> prts >= Half \/ prts % 2 = 0,
       cpu |-> IF prts >= Half THEN r
               ELSE [r EXCEPT !.MS = 1, !.PR = 1, !.MA = 1,
                              !.L = VA_TO_PA(read_word(m4, prts + 2) + r.G),
                              !.P = VA_TO_PA(read_word(m4, prts) + r.G)]]

TRAP_VM == 0
TRAP_PM == 1

Running == state = "run" /\ steps < MaxSteps

\* P after the instruction is fetched.
Fetched == [cpu EXCEPT !.P = (@ + 2) % Modulus]

Exit == state' = "exit" /\ trap' = {} /\ UNCHANGED <<cpu, mem>>

Trapped(r, m, cause, pc) ==
  LET t == mitra_trap(r, m, cause, pc)
  IN  IF ~t.even THEN Exit
      ELSE /\ mem' = t.mem
           /\ trap' = {cause}
           /\ cpu' = IF t.ok THEN t.cpu ELSE [r EXCEPT !.P = pc]
           /\ state' = IF t.ok THEN "run" ELSE "stop"

\* The end of one_inst after an instruction that accesses the words read and
\* written and leaves r and m: a word at an odd address ends the simulator, a
\* refused one is trapped.
Done(read, written, r, m) ==
  /\ steps' = steps + 1
  /\ IF \E va \in read \cup written \cup {cpu.P} : va % 2 = 1 THEN Exit
     ELSE IF \E va \in written : Refused(cpu, va)
            THEN Trapped(r, m, TRAP_PM, cpu.P)
     ELSE cpu' = r /\ mem' = m /\ trap' = {} /\ UNCHANGED state

----------------------------------------------------------------------------
(* The address forms. *)

\* The word that holds the pointer of an indirect form.
Pointers(form, d) ==
  CASE form \in {"IL", "ILX"} -> {cpu.L + d}
    [] form \in {"IGX", "IG"} -> {cpu.G + d}
    [] OTHER -> {}

\* Mutant: IL takes the pointer as it is, without G'.
target_general(form, d) ==
  LET local == read_word(mem, cpu.L + d)
      general == read_word(mem, cpu.G + d)
  IN  (CASE form = "DL" -> cpu.L + d
         [] form = "DG" -> cpu.G + d
         [] form = "P" -> cpu.P
         [] form = "IL" -> local
         [] form = "ILX" -> GPRIME(cpu) + local + cpu.X
         [] form = "IGX" -> cpu.G + general + cpu.X) % Modulus

TargetAddress(form, d) ==
  LET local == read_word(mem, cpu.L + d)
      general == read_word(mem, cpu.G + d)
  IN  (CASE form = "DL" -> cpu.L + d
         [] form = "DG" -> cpu.G + d
         [] form = "P" -> cpu.P
         [] form = "IL" -> GPRIME(cpu) + local
         [] form = "ILX" -> GPRIME(cpu) + local + cpu.X
         [] form = "IGX" -> cpu.G + general + cpu.X) % Modulus

MemoryForms == {"DL", "DG", "IL", "IGX", "ILX"}
ParameterForms == {"P", "PX", "DL"}

\* The value of the parameter of group 3: the displacement, indexed, or a word.
Parameter(form, d) ==
  CASE form = "P" -> d
    [] form = "PX" -> (d + cpu.X) % Modulus
    [] form = "DL" -> read_word(mem, cpu.L + d)

ParameterWords(form, d) == IF form = "DL" THEN {cpu.L + d} ELSE {}

Displacements == {i[3] : i \in Repertoire}

Is(op, form, d) ==
  <<op, form, d>> \in Repertoire /\ last' = [op |-> op, form |-> form, d |-> d]

\* The instructions one_inst refuses to a slave program, besides RSV: CNA has
\* the four low bits of RSV, and DITR is told by its word, even when X makes
\* another instruction of it.
Privileged(op, form, d) ==
  \/ op \in {"STR", "LDP", "TES", "CPS"} /\ form = "DL"
  \/ op = "STR" /\ form = "PX"
  \/ op = "SRG" /\ form = "P" /\ d % 16 = 12
  \/ op = "SHC" /\ form \in {"P", "PX"} /\ d = CountSpan
  \/ op = "F4"

Allowed(op, form, d) == cpu.MS = 1 \/ ~Privileged(op, form, d)

----------------------------------------------------------------------------
(* Groups 1 and 2: loads and stores. *)

LoadWord ==
  \E op \in LoadOperations, form \in MemoryForms \cup {"P"}, d \in Displacements :
    /\ Running
    /\ Is(op, form, d)
    /\ LET y == TargetAddress(form, d)
           m == IF form = "P" THEN d ELSE read_word(mem, y)
       IN  /\ ~(op = "DIV" /\ m # 0 /\ DivisionFaults(cpu, m))
           /\ IF op = "LDA" /\ form = "DL" /\ d = 0
                THEN Done({}, {}, Fetched, mem)  \* the word 0 is not executed
                ELSE Done(Pointers(form, d) \cup {y}, {},
                          Mem_OP_Reg_To_Reg(op, Fetched, m), mem)

\* LEA: the address relative to G.
LoadAddress ==
  \E form \in MemoryForms \cup {"P"}, d \in Displacements :
    /\ Running
    /\ Is("LEA", form, d)
    /\ LET y == TargetAddress(form, d)
           a == (y - cpu.G) % Modulus
       IN  Done(Pointers(form, d) \cup {y}, {},
                set_condition_codes_load([Fetched EXCEPT !.A = a], a), mem)

\* CPS: the first byte of the string of E bytes at A that is the byte at Y.
CompareString ==
  \E form \in MemoryForms \cup {"P"}, d \in Displacements :
    /\ Running
    /\ Is("CPS", form, d)
    /\ Allowed("CPS", form, d)
    /\ LET y == TargetAddress(form, d)
           Same(i) == read_byte(mem, cpu.G + cpu.A + i) = read_byte(mem, y)
           found == {i \in 0..cpu.E - 1 : Same(i)}
           at == IF found = {} THEN 0 ELSE Min(found)
       IN  Done(Pointers(form, d) \cup {y}, {},
                [Fetched EXCEPT !.A = (cpu.G + @ + at) % Modulus,
                                !.E = IF found = {} THEN 0 ELSE @ - at,
                                !.C = Test(found = {}), !.OV = 0], mem)

DoubleLoad ==
  \E form \in MemoryForms, d \in Displacements :
    /\ Running
    /\ Is("DLD", form, d)
    /\ LET y == TargetAddress(form, d)
           e == read_word(mem, y)
       IN  Done(Pointers(form, d) \cup {y, y + 2}, {},
                set_condition_codes_load(
                  [Fetched EXCEPT !.E = e, !.A = read_word(mem, y + 2)], e), mem)

StoreWord ==
  \E op \in StoreOperations, form \in MemoryForms, d \in Displacements :
    /\ Running
    /\ Is(op, form, d)
    /\ LET y == TargetAddress(form, d)
           m == read_word(mem, y)
       IN  Done(Pointers(form, d), {y}, AfterStore(op, Fetched, m),
                write_word(cpu, mem, y, StoredValue(op, cpu, m)))

DoubleStore ==
  \E form \in MemoryForms, d \in Displacements :
    /\ Running
    /\ Is("DST", form, d)
    /\ LET y == TargetAddress(form, d)
       IN  Done(Pointers(form, d), {y, y + 2}, Fetched,
                write_word(cpu, write_word(cpu, mem, y, cpu.E), y + 2, cpu.A))

\* SPA: the address after the branch that follows SPA, with G' added.
StoreProgramAddress ==
  \E form \in MemoryForms, d \in Displacements :
    /\ Running
    /\ Is("SPA", form, d)
    /\ LET y == TargetAddress(form, d)
       IN  Done(Pointers(form, d), {y}, Fetched,
                write_word(cpu, mem, y, (cpu.P + 4 + GPRIME(cpu)) % Modulus))

StringBytes(y) == {2 * Cell(y + i) : i \in 0..cpu.E - 1}

\* Memory after the byte at from[n] is moved to to[n], for n from 1 to E.
Moves(from, to) ==
  LET after[n \in 0..cpu.E] ==
        IF n = 0 THEN mem
        ELSE LET m == after[n - 1]
             IN  write_byte(cpu, m, to[n], read_byte(m, from[n]))
  IN  after[cpu.E]

\* Mutant: the bytes are moved from the first one on.
moved_upwards(y) ==
  Moves([n \in 1..cpu.E |-> cpu.G + cpu.A + n - 1], [n \in 1..cpu.E |-> y + n - 1])

\* string_proc: the bytes are moved from the last one to the first one.
Moved(y) ==
  Moves([n \in 1..cpu.E |-> cpu.G + cpu.A + cpu.E - n],
        [n \in 1..cpu.E |-> y + cpu.E - n])

MoveString ==
  \E form \in MemoryForms, d \in Displacements :
    /\ Running
    /\ Is("MVS", form, d)
    /\ LET y == TargetAddress(form, d)
       IN  Done(Pointers(form, d), StringBytes(y),
                [Fetched EXCEPT !.E = Modulus - 1], Moved(y))

\* TRS: each byte of the string becomes its entry of the table at Y.
Translated(table) ==
  LET after[n \in 0..cpu.E] ==
        IF n = 0 THEN mem
        ELSE LET m == after[n - 1]
                 here == cpu.A + cpu.G + n - 1
             IN  write_byte(cpu, m, here, read_byte(m, table + read_byte(m, here)))
  IN  after[cpu.E]

TranslateString ==
  \E form \in MemoryForms, d \in Displacements :
    /\ Running
    /\ Is("TRS", form, d)
    /\ LET y == TargetAddress(form, d)
       IN  Done(Pointers(form, d), StringBytes(cpu.A + cpu.G),
                [Fetched EXCEPT !.E = 0], Translated(y))

----------------------------------------------------------------------------
(* Groups 4 and 5: branches. *)

BranchOperations == {"BCT", "BRX", "BOT", "BCF", "BAN", "BAZ", "BOF", "BRU"}
BranchForms == {"RP", "RM", "IL", "IG"}

Taken(op) ==
  CASE op = "BCT" -> cpu.C = 1
    [] op = "BCF" -> cpu.C = 0
    [] op = "BOT" -> cpu.OV = 1
    [] op = "BOF" -> cpu.OV = 0
    [] op = "BAN" -> Negative(cpu.A)
    [] op = "BAZ" -> cpu.A = 0
    [] op \in {"BRU", "BRX"} -> TRUE

BranchAddress(form, d, x) ==
  (CASE form = "RP" -> cpu.P + 2 * d + 2 * x
     [] form = "RM" -> cpu.P - 2 * d - 2 * x
     [] form = "IL" -> GPRIME(cpu) + read_word(mem, cpu.L + x + d)
     [] form = "IG" -> GPRIME(cpu) + read_word(mem, cpu.G + x + d)) % Modulus

Branch ==
  \E op \in BranchOperations, form \in BranchForms, d \in Displacements :
    /\ Running
    /\ Is(op, form, d)
    /\ LET x == IF op = "BRX" THEN cpu.X ELSE 0
       IN  Done(Pointers(form, d) \cup {w + x : w \in Pointers(form, d)}, {},
                IF Taken(op) THEN [cpu EXCEPT !.P = BranchAddress(form, d, x)]
                             ELSE Fetched, mem)

----------------------------------------------------------------------------
(* Group 3: sections, registers, test and set, locks. *)

\* Mutant: the link of CLS holds the address after the call.
link_after(r) == (r.P + 2 - GPRIME(r)) % Modulus

\* Mutant: the link is not cut to a word.
link_uncut(r) == r.P - GPRIME(r)

\* The address of the call, relative for a slave.
Link(r) == (r.P - GPRIME(r)) % Modulus

\* The program reference table is below G, four bytes for each section.
Entry(base, section) == (base - 4 * section) % Modulus

CallSection ==
  \E form \in ParameterForms, d \in Displacements :
    /\ Running
    /\ Is("CLS", form, d)
    /\ LET entry == Entry(cpu.G, Parameter(form, d))
           lds == (read_word(mem, entry) + cpu.G) % Modulus
           linked == write_word(cpu, mem, lds, Link(cpu))
       IN  Done(ParameterWords(form, d) \cup {entry}, {lds, lds + 2},
                [cpu EXCEPT !.L = lds,
                            !.P = (read_word(mem, entry + 2) + cpu.G) % Modulus],
                write_word(cpu, linked, lds + 2, (cpu.L - GPRIME(cpu)) % Modulus))

ReturnSection ==
  /\ Running
  /\ Is("RTS", "P", 0)
  /\ Done({cpu.L}, {},
          [cpu EXCEPT !.P = (read_word(mem, cpu.L) + GPRIME(cpu) + 2) % Modulus,
                      !.L = (read_word(mem, cpu.L + 2) + GPRIME(cpu)) % Modulus],
          mem)

\* The trap of a section out of bounds.  CSV ignores what mitra_trap returns:
\* without a supervisor's table the program goes on after CSV, unless a locked
\* word of the frame has left a trap pending, which fails in its turn.
BoundTrap ==
  LET t == mitra_trap(Fetched, mem, TRAP_VM, Fetched.P)
      pending == \E va \in {2, 4, 6, 8} : Refused(cpu, va)
  IN  IF t.ok THEN Trapped(Fetched, mem, TRAP_VM, Fetched.P)
      ELSE IF pending THEN Trapped(Fetched, t.mem, TRAP_PM, cpu.P)
      ELSE cpu' = Fetched /\ mem' = t.mem /\ trap' = {TRAP_VM} /\ UNCHANGED state

\* CSV saves P, L and the indicators at G and enters the section through the
\* supervisor's table, L-base first; a section out of bounds is trapped.
CallSupervisor ==
  \E form \in ParameterForms, d \in Displacements :
    /\ Running
    /\ Is("CSV", form, d)
    /\ LET y == Parameter(form, d)
           m1 == write_word(cpu, mem, cpu.G, (cpu.P - cpu.G) % Modulus)
           m2 == write_word(cpu, m1, cpu.G + 2, (cpu.L - cpu.G) % Modulus)
           m3 == write_word(cpu, m2, cpu.G + 4, set_indicators(cpu))
           entry == Entry(read_word(m3, 12), y)
       IN  IF y >= read_word(mem, 14)
             THEN /\ steps' = steps + 1
                  /\ IF \E va \in ParameterWords(form, d) \cup {cpu.P} : va % 2 = 1
                       THEN Exit
                     ELSE BoundTrap
             ELSE Done(ParameterWords(form, d) \cup {entry},
                       {cpu.G, cpu.G + 2, cpu.G + 4},
                       [cpu EXCEPT !.MS = 1, !.PR = 1,
                                   !.L = read_word(m3, entry),
                                   !.P = read_word(m3, entry + 2)], m3)

ReturnSupervisor ==
  /\ Running
  /\ cpu.MS = 1
  /\ Is("RSV", "P", 0)
  /\ Done({cpu.G}, {},
          [load_indicators_from_block(cpu, read_word(mem, cpu.G + 4)) EXCEPT
             !.L = VA_TO_PA(cpu.G + read_word(mem, cpu.G + 2)),
             !.P = VA_TO_PA(cpu.G + 2 + read_word(mem, cpu.G))], mem)

Stepped(op, r, n) ==
  CASE op = "ICL" -> [r EXCEPT !.L = (@ + n) % Modulus]
    [] op = "DCL" -> [r EXCEPT !.L = (@ - n) % Modulus]
    [] op = "ICX" -> [r EXCEPT !.X = (@ + n) % Modulus]
    [] op = "DCX" -> [r EXCEPT !.X = (@ - n) % Modulus]

\* ICL and DCL; ICX and DCX also set the indicators.
StepRegister ==
  \E op \in {"ICL", "DCL", "ICX", "DCX"}, form \in ParameterForms,
     d \in Displacements :
    /\ Running
    /\ Is(op, form, d)
    /\ LET r == Stepped(op, Fetched, Parameter(form, d))
       IN  Done(ParameterWords(form, d), {},
                IF op \in {"ICX", "DCX"} THEN set_condition_codes_load(r, r.X)
                                         ELSE r, mem)

\* The operation of SHR, SHC and SRG is in the parameter, whatever the form.
shr_types == <<"SLLS", "SRCS", "SAD", "SLCD", "SLCS", "SAS", "SRLS", "SRCD">>
shc_types ==
  <<"SLLD", "DITR", "PTY", "unknown", "SRLD", "unknown", "NLZ", "unknown">>
srg_types ==
  <<"RTS", "XAE", "XAX", "XEX", "XAA", "CCE", "RSV", "ACE", "CCA", "AEE", "CNX",
    "AIE", "AAE", "LNE", "CNA", "CHX">>
ShiftType(types, p) == types[1 + ((p \div CountSpan) % 8)]

ParameterShift ==
  \E form \in ParameterForms, d \in Displacements :
    /\ Running
    /\ Is("SHR", form, d)
    /\ LET p == Parameter(form, d)
       IN  Done(ParameterWords(form, d), {},
                ShiftRegister(ShiftType(shr_types, p), p % CountSpan, Fetched), mem)

\* SHC; DITR, which the form DL does not have, is with the interrupts.
ParameterSpecialShift ==
  \E form \in ParameterForms, d \in Displacements :
    /\ Running
    /\ Is("SHC", form, d)
    /\ Allowed("SHC", form, d)
    /\ LET p == Parameter(form, d)
           type == ShiftType(shc_types, p)
           local == IF type = "DITR" THEN "unknown" ELSE type
       IN  /\ form # "DL" => type # "DITR"
           /\ Done(ParameterWords(form, d), {},
                   shift_instr(local, p % CountSpan, Fetched), mem)

\* SRG; RTS and RSV are above for the form P and nothing in the others.
ParameterRegister ==
  \E form \in ParameterForms, d \in Displacements :
    /\ Running
    /\ Is("SRG", form, d)
    /\ Allowed("SRG", form, d)
    /\ LET type == srg_types[1 + ((Parameter(form, d) \div 2) % 16)]
       IN  /\ form = "P" => type \in RegisterTypes
           /\ Done(ParameterWords(form, d), {},
                   IF type \in RegisterTypes THEN set_register(type, Fetched)
                                             ELSE Fetched, mem)

RegisterNames == <<"P", "L", "G", "A", "E", "X">>

RegisterValue(r, n) ==
  IF n < Len(RegisterNames) THEN r[RegisterNames[n + 1]] ELSE r.block[n]

WithRegister(r, n, v) ==
  IF n < Len(RegisterNames) THEN [r EXCEPT ![RegisterNames[n + 1]] = v]
  ELSE [r EXCEPT !.block[n] = v]

\* LDR and STR of one of the 64 registers; STR of a slave, where it is not
\* trapped, does nothing.
MoveRegister ==
  \E op \in {"LDR", "STR"}, form \in ParameterForms, d \in Displacements :
    /\ Running
    /\ Is(op, form, d)
    /\ Allowed(op, form, d)
    /\ LET n == Parameter(form, d) % 64
           r == IF op = "LDR" THEN [Fetched EXCEPT !.A = RegisterValue(Fetched, n)]
                ELSE WithRegister(Fetched, n, Fetched.A)
       IN  Done(ParameterWords(form, d), {},
                IF op = "STR" /\ cpu.MS = 0 THEN Fetched
                ELSE set_condition_codes_load(r, r.A), mem)

\* The address TES and LDP work on.
LockAddress(form, d) ==
  IF form = "DL" THEN (cpu.L + d) % Modulus ELSE Parameter(form, d)

\* TES: the indicators are those of the address.
TestAndSet ==
  \E form \in ParameterForms, d \in Displacements :
    /\ Running
    /\ Is("TES", form, d)
    /\ Allowed("TES", form, d)
    /\ LET y == LockAddress(form, d)
       IN  Done({}, {y},
                [Fetched EXCEPT !.A = read_word(mem, y), !.C = Test(y = 0),
                                !.OV = Test(y > 0), !.MP = @ \ {VA_TO_PA(y)}],
                write_word(cpu, mem, y, 0))

\* LDP: the lock at index y + 2i becomes the last bit of the i-th word at A.
\* A slave program that is not trapped does nothing.  An index beyond the
\* array of the locks is not modelled.
LoadProtection ==
  \E form \in ParameterForms, d \in Displacements :
    /\ Running
    /\ Is("LDP", form, d)
    /\ Allowed("LDP", form, d)
    /\ LET y == LockAddress(form, d)
           Set(i) == LowBit(read_word(mem, cpu.A + 2 * i)) = 1
           loaded == {i \in 0..cpu.E - 1 : Set(i)}
       IN  IF cpu.MS = 0 THEN Done({}, {}, Fetched, mem)
           ELSE /\ y + 2 * cpu.E <= Half
                /\ Done(IF cpu.E = 0 THEN {} ELSE {cpu.A}, {},
                        [Fetched EXCEPT
                           !.A = (@ + 2 * cpu.E) % Modulus,
                           !.E = Modulus - 1,
                           !.MP = (@ \ {y + 2 * i : i \in 0..cpu.E - 1})
                                    \cup {y + 2 * i : i \in loaded}], mem)

\* A privileged instruction of a slave program.
PrivilegedTrap ==
  \E op \in {"STR", "LDP", "TES", "CPS", "SRG", "SHC", "F4", "RSV"},
     form \in ParameterForms, d \in Displacements :
    /\ Running
    /\ Is(op, form, d)
    /\ cpu.MS = 0
    /\ Privileged(op, form, d) \/ (op = "RSV" /\ form = "P")
    /\ steps' = steps + 1
    /\ IF cpu.P % 2 = 1 THEN Exit ELSE Trapped(Fetched, mem, TRAP_VM, cpu.P)

Init ==
  /\ \E s \in Start : cpu = s.cpu /\ mem = s.mem
  /\ last = [op |-> "none", form |-> "none", d |-> 0]
  /\ trap = {}
  /\ state = "run"
  /\ steps = 0

\* The end of the run of the operator, of the simulator or of the bound.
Idle == ~Running /\ UNCHANGED vars

Next ==
  \/ LoadWord
  \/ LoadAddress
  \/ CompareString
  \/ DoubleLoad
  \/ StoreWord
  \/ DoubleStore
  \/ StoreProgramAddress
  \/ MoveString
  \/ TranslateString
  \/ Branch
  \/ CallSection
  \/ ReturnSection
  \/ CallSupervisor
  \/ ReturnSupervisor
  \/ StepRegister
  \/ ParameterShift
  \/ ParameterSpecialShift
  \/ ParameterRegister
  \/ MoveRegister
  \/ TestAndSet
  \/ LoadProtection
  \/ PrivilegedTrap
  \/ Idle

Spec == Init /\ [][Next]_vars

(* MVS leaves at its destination the bytes the source had, apart from it or *)
(* overlapping it from above.  It moves the last byte first: a destination  *)
(* that starts 1 to E - 1 bytes before the source is left out, since such a *)
(* copy overwrites bytes of the source before it reads them.                *)
StringCopied ==
  [][LET Source(i) == cpu.G + cpu.A + i
         To(i) == TargetAddress(last'.form, last'.d) + i
         Behind == VA_TO_PA(Source(0) - To(0)) \in 1..cpu.E - 1
     IN  /\ last'.op = "MVS" /\ steps' # steps /\ trap' = {} /\ state' = "run"
         /\ cpu.E <= Half /\ ~Behind
         => \A i \in 0..cpu.E - 1 :
              read_byte(mem', To(i)) = read_byte(mem, Source(i))]_vars

(* Type invariant: registers and memory keep the width of a word. *)
TypeOK ==
  /\ cpu \in Registers
  /\ mem \in Memory
  /\ state \in {"run", "stop", "exit"}
  /\ steps \in 0..MaxSteps

=============================================================================
