----------------------------- MODULE Assembler -----------------------------
(***************************************************************************)
(* Mitra-15_assembler_v15.py on a source program: two passes over its lines *)
(* with one address each, that of the first for the labels and that of the  *)
(* second for the code.  The text of a line is read already: its label, what *)
(* it is, and its operands, each a number or a name.                        *)
(***************************************************************************)
EXTENDS Codec

CONSTANTS
  Sources,   \* the programs
  HexNames   \* the names that read as hexadecimal numbers, and these numbers

NoName == "none"
Number(n) == [name |-> NoName, number |-> n, length |-> 0]
Name(a) == [name |-> a, number |-> 0, length |-> 0]
String(n) == [name |-> NoName, number |-> 0, length |-> n]

\* An operand is a number, a name or a string of DATA and TEXT.
Operand == [name : STRING, number : Nat, length : Nat]

Modes == {"DL", "P", "PX", "DG", "IL", "IG", "ILX", "IGX"}

Sections == {"CDS", "LDS", "IDS", "LPS"}
Data == {"DATA", "DATA,1", "RES", "RES,1", "TEXT", "BND"}
Directives == Sections \cup Data \cup {"FIN", "END", "ORG", "EQU", "none"}

\* The mnemonics of the instructions.
known_opcodes ==
  Names(group1_opnames) \cup Names(group2_opnames) \cup Names(group3_opnames)
    \cup Names(group4_opnames) \cup Names(shr_names) \cup Names(shc_names)
    \cup Names(srg_names) \cup {control_names[n] : n \in DOMAIN control_names}
    \cup {"BE", "BZ", "BL", "BLZ", "BNE", "BNZ", "BGE", "BPZ"}

SourceLine ==
  [label : STRING, op : known_opcodes \cup Directives, mode : Modes, args : Seq(Operand)]

ASSUME NamesAssumption ==
  /\ DOMAIN HexNames \subseteq STRING
  /\ \A a \in DOMAIN HexNames : HexNames[a] \in Nat

\* A program is a sequence of lines, and the directives that take an operand
\* have one.
ASSUME SourcesAssumption ==
  \A s \in Sources :
    /\ s \in Seq(SourceLine)
    /\ \A i \in DOMAIN s :
         s[i].op \in {"ORG", "EQU", "RES", "RES,1", "TEXT"} => s[i].args # <<>>

VARIABLES
  source,
  phase,     \* 1, 2, or 3 when all is done
  line,      \* the line the pass is at
  address,   \* current_address
  labels,    \* the value of each label
  emitted,   \* the bytes
  starts,    \* for each line, how many bytes came before it
  words      \* the word of each line that is an instruction, NONE if it failed

assemblerVars == <<source, phase, line, address, labels, emitted, starts, words>>

Even(a) == a + (a % 2)
Zeros(n) == [k \in 1..n |-> 0]
WordBytes(w) == <<w \div 256, w % 256>>

----------------------------------------------------------------------------
(* Operands. *)

\* A name that reads as a number is one, whether a label or not.
resolve_expression(v, known) ==
  IF v.name = NoName THEN v.number
  ELSE IF v.name \in DOMAIN HexNames THEN HexNames[v.name]
  ELSE IF v.name \in DOMAIN known THEN known[v.name]
  ELSE NONE

\* The name after an indirection is looked up as a label first, and only so
\* by LEA.
Resolved(op, mode, v, known) ==
  IF mode \notin {"IL", "IG", "ILX", "IGX"} THEN resolve_expression(v, known)
  ELSE IF v.name # NoName /\ v.name \in DOMAIN known THEN known[v.name]
  ELSE IF op = "LEA" THEN NONE ELSE resolve_expression(v, known)

\* Mutant: the displacement counts from the word after the branch.
Relative_next(here, there) ==
  IF there >= here + 2 THEN [mode |-> "RP", value |-> (there - here - 2) \div 2]
  ELSE [mode |-> "RM", value |-> (here + 2 - there) \div 2]

\* A relative branch from here to there, in words, however far.
Relative(here, there) ==
  IF there >= here THEN [mode |-> "RP", value |-> (there - here) \div 2]
  ELSE [mode |-> "RM", value |-> (here - there) \div 2]

\* The mode used when the instruction lacks the one written.
Fallback(mode, entry) ==
  IF mode \in DOMAIN entry THEN mode
  ELSE IF mode \in {"DG", "IL"} /\ "DL" \in DOMAIN entry THEN "DL"
  ELSE IF mode = "IG" /\ "IL" \in DOMAIN entry THEN "IL"
  ELSE "none"

\* Mutant: the operand loses a bit.
low_byte_short(v) == v % 128

low_byte(v) == v % 256

\* An instruction without operand: five that have a default, and those that
\* exist in one form.
WithoutOperand(op) ==
  CASE op = "ICX" -> 61952 [] op = "DCX" -> 62208
    [] op = "ICL" -> 62720 [] op = "DCL" -> 62976
    [] op \in {"RTS", "CLM", "DIT", "RD", "WD", "STM"} -> opcode_hex(op)["P"]
    [] OTHER -> NONE

\* An instruction with an operand, in a mode the instruction has.
Encoded(op, mode, v) ==
  LET entry == opcode_hex(op)
      used == Fallback(mode, entry)
  IN  IF used = "none" THEN NONE
      ELSE IF entry[used] > 255 THEN entry[used]
      ELSE IF v = NONE THEN NONE
      ELSE entry[used] * 256 + low_byte(v)

\* The mode of a register instruction may stand in the place of an operand.
SrgMode(l) ==
  IF l.args # <<>> /\ l.mode = "DL" /\ l.args[1].name \in DOMAIN SystemModes
    THEN l.args[1].name ELSE "P"

\* The word of an instruction at address here, NONE when it is refused.
assemble_instruction(l, known, here) ==
  LET v == Resolved(l.op, l.mode, l.args[1], known)
      to == Relative(here, v)
      shift(sub, code) ==
        IF l.mode \in {"P", "PX", "DL"} /\ v # NONE
          THEN (SystemModes[l.mode] + sub) * 256 + 32 * code + (v % 32) ELSE NONE
  IN  CASE l.op \in derived_srg ->
             (SystemModes[SrgMode(l)] + 1) * 256 + 2 * Index(srg_names, l.op)
        [] l.op \notin derived_srg /\ l.args = <<>> -> WithoutOperand(l.op)
        [] l.args # <<>> /\ l.op \in derived_shifts -> shift(0, Index(shr_names, l.op))
        [] l.args # <<>> /\ l.op \in derived_shc -> shift(12, Index(shc_names, l.op))
        [] l.args # <<>> /\ Alias(l.op) \in Names(group4_opnames) ->
             IF l.mode = "DL"
               THEN IF v = NONE THEN NONE ELSE Encoded(l.op, to.mode, to.value)
             ELSE IF l.mode \in {"IL", "IG"} THEN Encoded(l.op, l.mode, v)
             ELSE NONE
        [] OTHER -> Encoded(l.op, l.mode, v)

----------------------------------------------------------------------------
(* The first pass. *)

IsInstruction(l) == l.op \notin Directives

\* Mutant: reserved words are counted as bytes.
reserved_bytes(count, words_wanted) == count

reserved(count, words_wanted) == IF words_wanted THEN 2 * count ELSE count

\* What one argument of DATA adds to an address.
AfterArgument(bytes, at, v) ==
  LET items == IF v.length = 0 THEN 1 ELSE v.length
  IN  IF bytes THEN at + items ELSE Even(at) + 2 * items

\* What all of them add.
AfterArguments(bytes, at, args) ==
  LET after[n \in 0..Len(args)] ==
        IF n = 0 THEN at ELSE AfterArgument(bytes, after[n - 1], args[n])
  IN  after[Len(args)]

\* A count that is not known yet is 1.
CountOf(l, known) ==
  LET n == resolve_expression(l.args[1], known) IN IF n = NONE THEN 1 ELSE n

\* The address after a line in the first pass, where an instruction has a
\* word whether it will be refused or not.
Passed(l, at, known) ==
  CASE l.op \in Sections \cup {"FIN"} -> 0
    [] l.op = "ORG" -> IF resolve_expression(l.args[1], known) = NONE THEN at
                       ELSE resolve_expression(l.args[1], known)
    [] l.op = "DATA" -> AfterArguments(FALSE, at, l.args)
    [] l.op = "DATA,1" -> AfterArguments(TRUE, at, l.args)
    [] l.op = "RES" -> Even(at) + reserved(CountOf(l, known), TRUE)
    [] l.op = "RES,1" -> at + reserved(CountOf(l, known), FALSE)
    [] l.op = "TEXT" -> at + l.args[1].length
    [] l.op = "BND" -> Even(at)
    [] l.op \in {"EQU", "END", "none"} -> at
    [] OTHER -> at + 2

\* The labels known when a has the value v.
Bind(known, a, v) ==
  [b \in DOMAIN known \cup {a} |-> IF b = a THEN v ELSE known[b]]

\* A section's label is 0 and FIN's is the size of the section, both over any
\* earlier value; of other definitions the first one stands, EQU before all.
Defined(l, at, known) ==
  IF l.label = NoName \/ l.op \in {"ORG", "EQU"} THEN known
  ELSE IF l.op \in Sections THEN Bind(known, l.label, 0)
  ELSE IF l.op = "FIN" THEN Bind(known, l.label, at)
  ELSE IF l.label \in DOMAIN known THEN known
  ELSE Bind(known, l.label, at)

Equ(known, l) ==
  LET v == resolve_expression(l.args[1], known)
  IN  IF l.op # "EQU" \/ l.label = NoName \/ v = NONE THEN known
      ELSE Bind(known, l.label, v)

\* The definitions by EQU are collected before the rest.
EquLabels(lines) ==
  LET after[n \in 0..Len(lines)] ==
        IF n = 0 THEN <<>> ELSE Equ(after[n - 1], lines[n])
  IN  after[Len(lines)]

AssemblerInit ==
  /\ source \in Sources
  /\ labels = EquLabels(source)
  /\ phase = 1
  /\ line = 1
  /\ address = 0
  /\ emitted = <<>>
  /\ starts = <<>>
  /\ words = <<>>

first_pass ==
  /\ phase = 1 /\ line <= Len(source)
  /\ LET l == source[line]
     IN  IF l.op = "END"
           THEN line' = Len(source) + 1 /\ UNCHANGED <<address, labels>>
           ELSE /\ line' = line + 1
                /\ labels' = Defined(l, address, labels)
                /\ address' = Passed(l, address, labels)
  /\ UNCHANGED <<source, phase, emitted, starts, words>>

StartSecondPass ==
  /\ phase = 1 /\ line > Len(source)
  /\ phase' = 2
  /\ line' = 1
  /\ address' = 0
  /\ UNCHANGED <<source, labels, emitted, starts, words>>

----------------------------------------------------------------------------
(* The second pass. *)

\* The bytes of a line and current_address after assemble_instruction, which
\* the data directives have moved already.
Code(bytes, at) == [bytes |-> bytes, at |-> at]

Aligned(c) == IF c.at % 2 = 0 THEN c ELSE Code(Append(c.bytes, 0), c.at + 1)

Added(c, bytes) == Code(c.bytes \o bytes, c.at + Len(bytes))

\* One argument of DATA; a name nobody knows is 0.
DataArgument(bytes, c, v) ==
  LET n == resolve_expression(v, labels)
      value == IF n = NONE THEN 0 ELSE n
      chars == [k \in 1..v.length |-> 67]
  IN  CASE v.length = 0 /\ bytes -> Added(c, <<value % 256>>)
        [] v.length = 0 /\ ~bytes -> Added(Aligned(c), WordBytes(value % 65536))
        [] v.length > 0 /\ bytes -> Added(c, chars)
        [] v.length > 0 /\ ~bytes ->
             Added(Aligned(c), [k \in 1..2 * v.length |-> IF k % 2 = 1 THEN 67 ELSE 0])

DataArguments(bytes, c, args) ==
  LET after[n \in 0..Len(args)] ==
        IF n = 0 THEN c ELSE DataArgument(bytes, after[n - 1], args[n])
  IN  after[Len(args)]

assemble_data(l, at) ==
  LET none == Code(<<>>, at)
  IN  CASE l.op = "DATA" -> DataArguments(FALSE, none, l.args)
        [] l.op = "DATA,1" -> DataArguments(TRUE, none, l.args)
        [] l.op = "TEXT" -> Added(none, [k \in 1..l.args[1].length |-> 67])
        [] l.op = "RES" -> Added(Aligned(none), Zeros(2 * CountOf(l, labels)))
        [] l.op = "RES,1" -> Added(none, Zeros(CountOf(l, labels)))
        [] l.op = "BND" -> Code(<<0>>, Even(at))

\* A line of the second pass.  The length of what it gives is added to an
\* address that the data directives have moved already.
second_pass ==
  /\ phase = 2 /\ line <= Len(source)
  /\ LET l == source[line]
         w == IF IsInstruction(l) THEN assemble_instruction(l, labels, address)
              ELSE NONE
         c == CASE IsInstruction(l) ->
                     Code(IF w = NONE THEN <<>> ELSE WordBytes(w), address)
                [] l.op \in Data -> assemble_data(l, address)
                [] OTHER -> Code(<<>>, Passed(l, address, labels))
     IN  /\ emitted' = emitted \o c.bytes
         /\ address' = c.at + Len(c.bytes)
         /\ starts' = Append(starts, Len(emitted))
         /\ words' = Append(words, w)
  /\ line' = line + 1
  /\ UNCHANGED <<source, phase, labels>>

Finish ==
  /\ phase = 2 /\ line > Len(source)
  /\ phase' = 3
  /\ UNCHANGED <<source, line, address, labels, emitted, starts, words>>

Stopped == phase = 3 /\ UNCHANGED assemblerVars

AssemblerNext ==
  first_pass \/ StartSecondPass \/ second_pass \/ Finish \/ Stopped

AssemblerSpec == AssemblerInit /\ [][AssemblerNext]_assemblerVars

----------------------------------------------------------------------------
(* Properties. *)

Lines == DOMAIN source

\* The lines that name a, and the line that opens the section i is in.
Naming(a) == {j \in Lines : source[j].label = a}
Opening(i) ==
  LET before == {k \in 1..i : source[k].op \in Sections \cup {"FIN"}}
  IN  IF before = {} THEN 0 ELSE CHOOSE k \in before : \A n \in before : n <= k

\* Branch i is written to the label of line j of its section, the only line
\* with that label, and has a word.
BranchTo(i, j) ==
  LET l == source[i]
  IN  /\ IsInstruction(l) /\ Alias(l.op) \in Names(group4_opnames)
      /\ l.mode = "DL" /\ l.args # <<>>
      /\ l.args[1].name \notin DOMAIN HexNames \cup {NoName}
      /\ Naming(l.args[1].name) = {j}
      /\ source[j].op \notin {"EQU", "ORG", "FIN"} \cup Sections
      /\ Opening(i) = Opening(j)
      /\ words[i] # NONE

\* Where the word of branch i goes, as a place in the output.
Destination(i) ==
  starts[i] + (IF decode_insn(words[i]).mode = "RP" THEN 2 ELSE -2) * Disp(words[i])

Upto(i) == {k \in Lines : Opening(i) < k /\ k <= i}

\* In a section whose lines so far are instructions, all accepted, a branch to
\* a label goes to the line of the label, forward and backward, when that is
\* less than 256 words away (assemble_instruction with first_pass).
BranchesReachLabels ==
  phase = 3 => \A i, j \in Lines :
    /\ BranchTo(i, j)
    /\ \A k \in Upto(i) \cup Upto(j) :
         IF IsInstruction(source[k]) THEN words[k] # NONE ELSE source[k].op \in {"EQU", "none"}
    /\ starts[j] - starts[i] \in -510..510
    => Destination(i) = starts[j]

\* A line that takes a whole number of words, known when it is met.
WholeWords(k) ==
  LET l == source[k]
  IN  CASE IsInstruction(l) -> words[k] # NONE
        [] l.op \in {"EQU", "none", "DATA"} -> TRUE
        [] l.op = "RES" -> l.args[1].name = NoName
        [] l.op = "RES,1" -> l.args[1].name = NoName /\ l.args[1].number % 2 = 0
        [] l.op = "TEXT" -> l.args[1].length % 2 = 0
        [] l.op = "DATA,1" -> AfterArguments(TRUE, 0, l.args) % 2 = 0
        [] OTHER -> FALSE

\* Where every line takes whole words, a label is the place of its line in the
\* output of its section: the sizes the first pass counts are those of the
\* code the second gives, though its own address runs ahead of it
\* (first_pass, second_pass).
LabelsInStep ==
  phase = 3 => \A j \in Lines :
    /\ source[j].label # NoName /\ Naming(source[j].label) = {j}
    /\ source[j].op \notin {"EQU", "ORG", "FIN"} \cup Sections
    /\ source[j].label \in DOMAIN labels
    /\ \A k \in Upto(j) \ {j} : WholeWords(k)
    => LET first == IF Opening(j) = 0 THEN 0 ELSE starts[Opening(j)]
       IN  labels[source[j].label] = starts[j] - first

\* What the assembler gives for a mnemonic is that instruction to the
\* disassembler, with its operand if that fits, in the mode written or in the
\* one the assembler falls back to (opcode_hex against decode_insn).
AssembledAsWritten ==
  phase = 3 => \A i \in DOMAIN words :
    LET l == source[i]
        d == decode_insn(words[i])
        v == Resolved(l.op, l.mode, l.args[1], labels)
    IN  words[i] # NONE /\ l.op \notin {"SHR", "SRG", "SHC"} =>
          /\ d.op = Alias(l.op)
          /\ l.args # <<>> /\ d.class \in {"mem", "sys"} =>
               /\ d.mode \in {l.mode, Fallback(l.mode, opcode_hex(l.op))}
               /\ v \in 0..255 => d.number = v

\* Refuted: the passes give a label and the code the same addresses, so that
\* any branch to a label of its section goes there ("First pass: collect all
\* labels and their addresses.", Mitra-15_assembler_v15.py:840).
JumpsReachLabels ==
  phase = 3 => \A i, j \in Lines :
    BranchTo(i, j) /\ starts[j] - starts[i] \in -510..510 => Destination(i) = starts[j]

=============================================================================
