------------------------------ MODULE Listing ------------------------------
(***************************************************************************)
(* disassembler_v7.c: an image is searched for text and tables, traced from *)
(* its entries one word at a time, and listed with labels; then the listing *)
(* mode of the assembler turns the listing into words again.                *)
(*                                                                          *)
(* Words have indexes, addresses are bytes.  The options are the defaults,  *)
(* but for the value of G and for the absolute indirection; L is 0.  A name *)
(* is the index of the word it stands for.  The tables of the supervisor    *)
(* and the annotation file are left out.                                    *)
(***************************************************************************)
EXTENDS Codec, FiniteSets

CONSTANTS
  Images,    \* the images: functions from the indexes of loaded words to words
  Options,   \* the options: given, G and absolute
  MinText,   \* the words of the shortest text (2 in the code)
  TrustHops, \* the words that may follow a branch into a text (1 in the code)
  MaxPasses  \* the passes over the image (8 in the code)

ASSUME ImagesAssumption ==
  \A im \in Images :
    /\ IsFiniteSet(DOMAIN im)
    /\ \A i \in DOMAIN im : /\ i \in Nat /\ i < 32768
                             /\ im[i] \in Nat /\ im[i] < 65536

ASSUME BoundsAssumption ==
  /\ MaxPasses \in Nat \ {0}
  /\ MinText \in Nat /\ TrustHops \in Nat

VARIABLES
  image, opt,
  prt,       \* the sections found: number to their address
  entries,   \* the words tracing starts with, in order
  named,     \* the words with a name of their own
  marks,     \* the words that are text, return cells and structures
  cells,     \* how many return cells there were when the pass began
  visited, code, worklist, pass,
  stage,     \* "trace", "list", "assemble" or "done"
  listing,   \* the line of each word
  output     \* the word assembled from each line, and whether it was a surprise

vars == <<image, opt, prt, entries, named, marks, cells, visited, code, worklist,
          pass, stage, listing, output>>

Idx(a) == a \div 2
Loaded == DOMAIN image

----------------------------------------------------------------------------
(* Before the trace. *)

\* The bytes of EBCDIC that are letters, digits and punctuation.
TextByte ==
  (129..137) \cup (145..153) \cup (162..169) \cup (193..201) \cup (209..217)
    \cup (226..233) \cup (240..249) \cup (122..127)
    \cup {64, 75, 77, 78, 80, 90, 92, 93, 94, 96, 97, 107, 108, 109, 111}

TextWord(im) ==
  {i \in DOMAIN im : im[i] \div 256 \in TextByte /\ im[i] % 256 \in TextByte}

find_text_candidates(im) ==
  {i \in TextWord(im) :
     \E a, b \in TextWord(im) :
       a <= i /\ i <= b /\ b - a + 1 >= MinText /\ a..b \subseteq TextWord(im)}

\* The sections of the table below G, as long as they are in the image.
discover_prt(im, o) ==
  LET cell(n) == Idx(o.G - 4 * n)
      at(off) == (o.G + off) % 65536
      in_image(a) == a % 2 = 0 /\ Idx(a) \in DOMAIN im
      section(n) ==
        /\ {cell(n), cell(n) + 1} \subseteq DOMAIN im
        /\ im[cell(n)] = 0 \/ in_image(at(im[cell(n)]))
        /\ im[cell(n) + 1] # 0 /\ in_image(at(im[cell(n) + 1]))
      found == {n \in 1..255 : /\ o.given /\ 4 * n <= o.G
                               /\ \A k \in 1..n : section(k)}
  IN  [n \in found |-> [cell |-> cell(n), P |-> at(im[cell(n) + 1]),
                        lds |-> IF im[cell(n)] = 0 THEN NONE
                                ELSE Idx(at(im[cell(n)]))]]

PrtWords(p, im) ==
  UNION {{p[n].cell, p[n].cell + 1}
           \cup (IF p[n].lds = NONE THEN {} ELSE {p[n].lds, p[n].lds + 1})
         : n \in DOMAIN p} \cap DOMAIN im

PrtNames(p) ==
  UNION {{p[n].cell, Idx(p[n].P)} \cup ({p[n].lds} \ {NONE}) : n \in DOMAIN p}

\* SPA, BRU, RSV: the entry of a module of the supervisor.
find_module_entries(im, text) ==
  {i \in DOMAIN im :
     /\ {i + 1, i + 2} \subseteq DOMAIN im
     /\ {i, i + 1, i + 2} \cap text = {}
     /\ is_spa(im[i]) /\ IsUncond(im[i + 1]) /\ insn_op(im[i + 2]) = "RSV"}

\* The members of a set of numbers, in order.
Ascending(S) ==
  [k \in 1..Cardinality(S) |->
     CHOOSE x \in S : Cardinality({y \in S : y < x}) = k - 1]

\* add_entry for each word of a sequence: a known entry is not added again.
Entered(es, words) ==
  LET after[n \in 0..Len(words)] ==
        IF n = 0 THEN es
        ELSE IF words[n] \in {after[n - 1][k] : k \in 1..Len(after[n - 1])}
          THEN after[n - 1]
        ELSE Append(after[n - 1], words[n])
  IN  after[Len(words)]

InitialEntries(im, p, modules) ==
  LET sections == Entered(<<>>, [n \in 1..Cardinality(DOMAIN p) |-> Idx(p[n].P)])
      all == Entered(sections, Ascending(modules))
  IN  IF all = <<>> /\ 0 \in DOMAIN im THEN <<0>> ELSE all

----------------------------------------------------------------------------
(* Operands. *)

\* An SPA before word i makes the branch at i a call.
prev_is_spa(i, m) ==
  i - 1 \in Loaded \ (m.text \cup m.struct) /\ is_spa(image[i - 1])

\* The words of BRU that follow a BRX, 64 at most.
brx_table(i, m) ==
  LET entry(j) == j \in Loaded \ (m.text \cup m.struct) /\ IsUncond(image[j])
  IN  {j \in Loaded : i < j /\ j <= i + 64 /\ \A k \in i + 1..j : entry(k)}

\* The address written in a word, NONE when there is none or when it counts
\* from a G that is not known.
direct(insn, i, d) ==
  IF insn.class = "none" THEN NONE
  ELSE CASE insn.mode \in {"DL", "IL", "ILX"} -> d
         [] insn.mode = "RP" -> (2 * i + 2 * d) % 65536
         [] insn.mode = "RM" -> (2 * i - 2 * d) % 65536
         [] insn.mode \in {"DG", "IG", "IGX"} /\ opt.given -> (opt.G + d) % 65536
         [] OTHER -> NONE

\* The address the pointer at p leads to, NONE when it is not known.
pointed(p, m) ==
  LET known ==
        /\ Idx(p) \in Loaded \ (m.text \cup m.slots)
        /\ opt.given \/ opt.absolute
        /\ image[Idx(p)] # 0
      target == ((IF opt.absolute THEN 0 ELSE opt.G) + image[Idx(p)]) % 65536
  IN  IF known /\ target % 2 = 0 /\ Idx(target) \in Loaded THEN target ELSE NONE

\* The addresses an instruction names: where its operand is, its pointer, the
\* offset of either from a G that is not known, and the section it calls.
operand_of(insn, i, d, m) ==
  LET indirect == insn.mode \in {"IL", "ILX", "IG", "IGX"}
      a == direct(insn, i, d)
  IN  [ea |-> IF indirect THEN pointed(a, m) ELSE a,
       ptr |-> IF indirect THEN a ELSE NONE,
       goff |-> IF insn.class # "none" /\ insn.mode \in {"DG", "IG", "IGX"} /\ ~opt.given
                  THEN d ELSE NONE,
       callee |-> IF insn.mode = "P" /\ insn.op = "CLS" /\ d \in DOMAIN prt
                    THEN prt[d].P ELSE NONE]

compute_operand(i, m) == operand_of(decode_insn(image[i]), i, Disp(image[i]), m)

----------------------------------------------------------------------------
(* The trace. *)

Entry(i, how, hops) == [word |-> i, how |-> how, hops |-> hops]

\* Mutant: a call is not expected to return.
goes_on_unless_jump(i, m) == ~IsUncond(image[i])

goes_on(i, m) == ~IsUncond(image[i]) \/ prev_is_spa(i, m)

get_successors(i, hops, m) ==
  LET w == image[i]
      o == compute_operand(i, m)
      next == <<Entry(i + 1, "fall", hops + 1)>>
      to(a) == IF a = NONE THEN <<>> ELSE <<Entry(Idx(a), "branch", 0)>>
  IN  IF ~Valid(w) \/ insn_ret(w) THEN <<>>
      ELSE IF IsBranch(w)
        THEN (IF goes_on(i, m) THEN next ELSE <<>>)
               \o (IF IsBrx(w) THEN <<>> ELSE to(o.ea))
      ELSE IF IsCall(w) THEN next \o to(o.callee)
      ELSE next

\* The words of the jump table after a BRX.
TableEntries(i, m) ==
  LET length == IF IsBrx(image[i]) THEN Cardinality(brx_table(i, m)) ELSE 0
  IN  [k \in 1..length |-> Entry(i + k, "branch", 0)]

\* A word is marked when it is queued, before it is known whether the way it
\* was reached is trusted.
wl_push(q, e) ==
  IF e.word \notin Loaded \/ e.word \in q.visited THEN q
  ELSE [visited |-> q.visited \cup {e.word}, list |-> Append(q.list, e)]

\* The entries are pushed in order.
Queued(q, es) ==
  LET after[n \in 0..Len(es)] == IF n = 0 THEN q ELSE wl_push(after[n - 1], es[n])
  IN  after[Len(es)]

StartOfPass ==
  Queued([visited |-> {}, list |-> <<>>],
         [k \in 1..Len(entries) |-> Entry(entries[k], "entry", 0)])

\* An SPA that is traced makes its operand a return cell.
AfterSpa(i, m) ==
  LET o == compute_operand(i, m)
  IN  IF ~is_spa(image[i]) THEN m
      ELSE IF o.ea # NONE
        THEN [m EXCEPT !.slots = @ \cup {Idx(o.ea)}, !.text = @ \ {Idx(o.ea)}]
      ELSE IF o.goff # NONE /\ ModeName(image[i]) = "DG"
        THEN [m EXCEPT !.offsets = @ \cup {o.goff}]
      ELSE m

count_call_slots == Cardinality(marks.slots) + Cardinality(marks.offsets)

Init ==
  /\ image \in Images
  /\ opt \in Options
  /\ prt = discover_prt(image, opt)
  /\ LET text == find_text_candidates(image) \ PrtWords(prt, image)
         modules == find_module_entries(image, text)
     IN  /\ marks = [text |-> text, slots |-> {}, offsets |-> {},
                     struct |-> PrtWords(prt, image)]
         /\ entries = InitialEntries(image, prt, modules)
         /\ named = PrtNames(prt) \cup modules
  /\ code = {}
  /\ cells = 0
  /\ pass = 1
  /\ visited = StartOfPass.visited
  /\ worklist = StartOfPass.list
  /\ stage = "trace"
  /\ listing = <<>>
  /\ output = <<>>

\* One word of flow_trace_once.
Trace ==
  /\ stage = "trace" /\ worklist # <<>>
  /\ LET e == Head(worklist)
         i == e.word
         untrusted == i \in marks.text /\ e.how = "fall" /\ e.hops > TrustHops
         m == AfterSpa(i, [marks EXCEPT !.text = @ \ {i}])
         q == Queued([visited |-> visited, list |-> Tail(worklist)],
                     get_successors(i, e.hops, m) \o TableEntries(i, m))
     IN  IF i \in marks.slots \cup marks.struct
           THEN worklist' = Tail(worklist) /\ UNCHANGED <<visited, code, marks>>
         ELSE /\ code' = code \cup {i}
              /\ IF untrusted
                   THEN worklist' = Tail(worklist) /\ UNCHANGED <<visited, marks>>
                   ELSE worklist' = q.list /\ visited' = q.visited /\ marks' = m
  /\ UNCHANGED <<image, opt, prt, entries, named, cells, pass, stage, listing,
                 output>>

\* Mutant: the image is traced once.
EndPass_once ==
  /\ stage = "trace" /\ worklist = <<>>
  /\ stage' = "list"
  /\ UNCHANGED <<image, opt, prt, entries, named, marks, cells, visited, code,
                 worklist, pass, listing, output>>

\* flow_trace: another pass as long as the last one found return cells.
EndPass ==
  /\ stage = "trace" /\ worklist = <<>>
  /\ IF count_call_slots = cells \/ pass = MaxPasses
       THEN stage' = "list" /\ UNCHANGED <<visited, code, worklist, pass, cells>>
       ELSE /\ cells' = count_call_slots
            /\ pass' = pass + 1
            /\ code' = {}
            /\ visited' = StartOfPass.visited
            /\ worklist' = StartOfPass.list
            /\ UNCHANGED stage
  /\ UNCHANGED <<image, opt, prt, entries, named, marks, listing, output>>

----------------------------------------------------------------------------
(* The listing. *)

Ref(i, kind, strong) == [word |-> i, kind |-> kind, strong |-> strong]

note_operand_refs(i, m) ==
  LET w == image[i]
      insn == decode_insn(w)
      o == compute_operand(i, m)
      indexed == insn.mode \in {"IGX", "ILX"}
      kind == IF TakesAddress(w) \/ (indexed /\ insn.op \in {"TRS", "MVS"})
                THEN "other" ELSE "data"
      to(a, k) == IF a = NONE THEN {} ELSE {Ref(Idx(a), k, i \in code)}
  IN  IF IsBrx(w) THEN {Ref(j, "code", i \in code) : j \in brx_table(i, m)}
      ELSE IF IsBranch(w)
        THEN to(o.ptr, "data") \cup to(o.ea, "code")
               \cup (IF prev_is_spa(i, m) THEN to(2 * (i + 1), "code") ELSE {})
      ELSE to(o.callee, "code") \cup to(o.ptr, "data") \cup to(o.ea, kind)
             \cup (IF TwoWords(w) /\ o.ea # NONE
                     THEN to((o.ea + 2) % 65536, kind) ELSE {})

\* The references made by the words that may be instructions.
gather_refs(data, m) ==
  {Ref(entries[k], "code", TRUE) : k \in DOMAIN entries}
    \cup UNION {note_operand_refs(i, m) :
                  i \in {j \in Loaded \ (m.text \cup m.slots \cup m.struct \cup data) :
                           Valid(image[j])}}

\* The words below the Task Working Block of a program that calls the
\* supervisor.
TaskWorkingBlock(data, m) ==
  LET calls(i) == insn_op(image[i]) = "CSV"
                    /\ i \notin m.text \cup m.slots \cup m.struct \cup data
  IN  IF opt.given /\ \E i \in code : calls(i)
        THEN (Idx(opt.G)..Idx(opt.G) + 15) \cap (Loaded \ code) ELSE {}

\* The words listed as data, the marks and the labels.
collect_refs ==
  LET zero == {i \in Loaded \ (code \cup marks.text) : image[i] = 0}
      first == {r \in gather_refs(zero, marks) : r.strong}
      words(kind) == {r.word : r \in {s \in first : s.kind = kind}}
      data == zero \cup ((words("data") \ words("code"))
                           \cap (Loaded \ (code \cup marks.text)))
      twb == TaskWorkingBlock(zero, marks)
      m == [marks EXCEPT !.struct = @ \cup twb, !.text = @ \ twb]
  IN  [data |-> data, marks |-> m,
       labels |-> named \cup twb \cup {r.word : r \in gather_refs(data, m)}]

\* What is printed of an operand: nothing, a number, a label, the X of a
\* BRX, or a text that names no address the assembler knows.
operand_text(i, c) ==
  LET insn == decode_insn(image[i])
      o == compute_operand(i, c.marks)
      shown(form, value) == [form |-> form, value |-> value]
      lab(a) == IF Idx(a) \in c.labels THEN shown("label", Idx(a)) ELSE shown("text", 0)
  IN  CASE insn.class = "none" ->
             IF insn.number = 0 THEN shown("empty", 0) ELSE shown("number", insn.number)
        [] IsBrx(image[i]) -> shown("$+X", 0)
        [] insn.class \in {"mem", "sys"} /\ insn.mode = "P" -> shown("number", Disp(image[i]))
        [] OTHER ->
             IF o.goff # NONE
               THEN IF o.goff < 32 THEN shown("text", 0) ELSE shown("number", o.goff)
             ELSE IF o.ptr # NONE THEN lab(o.ptr)
             ELSE IF o.ea # NONE THEN lab(o.ea)
             ELSE shown("text", 0)

\* The line of a word: an instruction, or the word as it is.
Line(i, c) ==
  IF i \in c.marks.text \cup c.marks.struct \cup c.marks.slots \cup c.data
       \/ ~Valid(image[i])
    THEN [op |-> "word", mode |-> "none", operand |-> [form |-> "empty", value |-> 0]]
    ELSE [op |-> insn_op(image[i]), mode |-> ModeName(image[i]),
          operand |-> operand_text(i, c)]

Render ==
  /\ stage = "list"
  /\ stage' = "assemble"
  /\ LET c == collect_refs
     IN  /\ listing' = [i \in Loaded |-> Line(i, c)]
         /\ marks' = c.marks
         /\ named' = c.labels
  /\ UNCHANGED <<image, opt, prt, entries, cells, visited, code, worklist, pass,
                 output>>

----------------------------------------------------------------------------
(* The assembler on a listing. *)

\* The address a text stands for, NONE when the assembler knows none.
eval_listing_expr(t) ==
  CASE t.form = "number" -> t.value
    [] t.form = "label" -> 2 * t.value
    [] OTHER -> NONE

\* The value of the text of an operand.
Value(t) == IF t.form = "empty" THEN 0 ELSE eval_listing_expr(t)

\* The word of an instruction without address: its mode and the class of its
\* table, its place in the table.
Family(l, names, first) ==
  (SystemModes[l.mode] + first) * 256 + 32 * Index(names, l.op)

\* The count of a shift.
Count(l, w) == IF Value(l.operand) \in 0..31 THEN Value(l.operand) ELSE w % 256

\* The displacement of a line, NONE when the text does not give it.
Displaced(l) == IF l.operand.form = "empty" THEN NONE ELSE Value(l.operand)

\* The displacement of a branch of word i to the address of the text.
BranchDisplaced(i, l) ==
  LET v == Value(l.operand)
      diff == IF l.mode = "RP" THEN v - 2 * i ELSE 2 * i - v
  IN  IF l.operand.form = "$+X" \/ v = NONE \/ diff % 2 = 1 THEN NONE
      ELSE IF diff < 0 THEN NONE ELSE diff \div 2

\* A displacement that is no byte is the one of the column.
WithByte(high, w, n) == high * 256 + (IF n \in 0..255 THEN n ELSE w % 256)

\* The word of a line l of word i with w in its hexadecimal column: what the
\* text says, completed by the column where the text says too little.
encode_listing_insn(i, w, l) ==
  LET high == opcode_hex(l.op)[l.mode]
  IN  CASE l.op \in derived_shifts -> Family(l, shr_names, 0) + Count(l, w)
        [] l.op \in derived_shc -> Family(l, shc_names, 12) + Count(l, w)
        [] l.op \in derived_srg ->
             (SystemModes[l.mode] + 1) * 256 + 2 * Index(srg_names, l.op)
        [] l.op = "RTS" -> IF l.mode = "P" THEN 61696 ELSE w
        [] l.op = "DITR" -> IF w - (w % 32) = high THEN w ELSE high
        [] l.op \in {"CLM", "DIT", "RD", "WD", "STM"} -> high
        [] l.mode \in {"RP", "RM"} -> WithByte(high, w, BranchDisplaced(i, l))
        [] OTHER -> WithByte(high, w, Displaced(l))

\* The words differ only in the bit that selects a byte.
SameButByte(v, w) == v # w /\ v \div 2 = w \div 2

\* Mutant: the bit that selects a byte is not taken from the column.
completed_aligned(v, w) == v

completed(v, w) == IF SameButByte(v, w) THEN w ELSE v

Assembled(i, w, l) ==
  LET v == IF l.op = "word" THEN w ELSE encode_listing_insn(i, w, l)
  IN  [word |-> completed(v, w),
       mismatch |-> v # w /\ ~SameButByte(v, w)]

assemble_listing ==
  /\ stage = "assemble"
  /\ stage' = "done"
  /\ output' = [i \in Loaded |-> Assembled(i, image[i], listing[i])]
  /\ UNCHANGED <<image, opt, prt, entries, named, marks, cells, visited, code,
                 worklist, pass, listing>>

Done == stage = "done" /\ UNCHANGED vars

Next == Trace \/ EndPass \/ Render \/ assemble_listing \/ Done

Spec == Init /\ [][Next]_vars

----------------------------------------------------------------------------
(* Properties. *)

\* The simulator's listing and the disassembler's read every word of the
\* image the same way.
NamesAgree ==
  \A i \in Loaded :
    LET d == decode_insn(image[i])
        s == fprint_sym(image[i])
    IN  IF d.op = "none" THEN s.op \in {"none", "???"}
        ELSE s = [op |-> d.op, mode |-> d.mode, number |-> d.number]

\* A word listed as an instruction is the one the CPU executes, except where
\* the CPU reads the operation of SHR, SHC or SRG from the operand (forms DL
\* and PX), and for the word 0, with which sim_instr does not call one_inst.
\* No other word that the CPU ignores is listed as an instruction.
DecodesAsExecuted ==
  \A i \in Loaded :
    Valid(image[i]) =>
      \/ decode_insn(image[i]).op = Executed(image[i])
      \/ Executed(image[i]) = "operand"
      \/ image[i] = 0

\* When the trace is over before its passes run out, no word that holds a return
\* address was traced as an instruction: a cell found late starts the trace again.
SlotsAreData ==
  stage # "trace" /\ pass < MaxPasses => code \cap marks.slots = {}

\* The branch at i follows an SPA that did not look like text at first.
IsCalled(i, m) == prev_is_spa(i, m) /\ i - 1 \notin find_text_candidates(image)

\* The words that follow i when the CPU executes it: the next one, or after a
\* call the one it returns to, and the target of a relative branch.
CpuNext(i, m) ==
  LET w == image[i]
      d == Disp(w)
      ends == Executed(w) \in {"RTS", "RSV", "DIT", "DITR"} \/ ~Valid(w)
      jumps == IsUncond(w) /\ ~IsCalled(i, m)
      target == IF decode_insn(w).mode = "RP" THEN i + d ELSE i - d
  IN  (IF ends \/ jumps THEN {} ELSE {i + 1})
        \cup (IF HexCode(w) = 12 /\ ~IsBrx(w) THEN {target} ELSE {})

\* The DL and PX forms take their operation from another word, and are listed
\* as the return their own displacement would name.
NamedReturn(w) == insn_ret(w) /\ HexCode(w) # 15

\* The trace misses nothing that the CPU can reach by the words alone: the
\* words after a traced one are traced, unless they are known to be data or
\* the traced one is itself a text nobody trusts or a return cell.
TraceIsClosed ==
  stage # "trace" =>
    \A i \in code \ (marks.text \cup marks.slots) :
      ~NamedReturn(image[i]) =>
        CpuNext(i, marks) \cap Loaded \subseteq code \cup marks.slots \cup marks.struct

\* Where addresses are as the assembler counts them, the listing assembles to
\* the image it was made from, and the text never disagrees with the column.
RoundTrip ==
  stage = "done" /\ (opt.given => opt.G = 0) =>
    \A i \in Loaded : output[i] = [word |-> image[i], mismatch |-> FALSE]

\* The comment of flow_trace_once: a word a branch leads to is code, not text.
BranchTargetsAreCode ==
  stage # "trace" =>
    \A i \in code \ marks.text :
      IsBranch(image[i]) /\ ~IsBrx(image[i])
        => Idx(compute_operand(i, marks).ea) \notin marks.text

\* The comment of get_successors: "a branch that follows an SPA is a call: its
\* fall-through is the return point".
CallsReturn ==
  stage # "trace" =>
    \A i \in code \ (marks.text \cup marks.slots) :
      IsUncond(image[i]) /\ prev_is_spa(i, marks) /\ i + 1 \in Loaded
        => i + 1 \in code \cup marks.slots \cup marks.struct

=============================================================================
