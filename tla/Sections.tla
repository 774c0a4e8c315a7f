------------------------------ MODULE Sections ------------------------------
(***************************************************************************)
(* The calls of a program: CLS and RTS between its sections, CSV and RSV to *)
(* the supervisor, SPA and an indirect branch inside a section.  The links  *)
(* are words of memory, relative to G' or to G; the stack and the return    *)
(* address below are what they stand for, and no instruction reads them.    *)
(***************************************************************************)
EXTENDS Program

CONSTANTS
  Bases,  \* the local bases of the sections of the program
  Free,   \* the words the program stores in, apart from the links
  Locks   \* the locks the supervisor loads

VARIABLES
  stack,  \* the calls that have not returned
  call    \* the last SPA whose word is as SPA left it, as a set

sectionVars == <<vars, stack, call>>

\* The words a section keeps its links in, and those the supervisor saves in.
Links(l) == {Cell(l), Cell(l + 2)}
SaveArea(g) == {Cell(g), Cell(g + 2), Cell(g + 4)}

\* The words of the program are apart from its links, and the links from each
\* other and from what CSV saves.
ASSUME LayoutAssumption ==
  /\ \A l, k \in Bases : l # k => Links(l) \cap Links(k) = {}
  /\ \A l \in Bases, s \in Start : Links(l) \cap SaveArea(s.cpu.G) = {}
  /\ \A l \in Bases : \A c \in Links(l) : 2 * c \notin Free
  /\ \A s \in Start : \A c \in SaveArea(s.cpu.G) : 2 * c \notin Free

Top == stack[Len(stack)]
Last(op) == last'.op = op

\* CLS does not check the section it calls.  It is one of the program that is
\* not active: its links are in use otherwise.
Enters(l) == l \in Bases /\ \A i \in 1..Len(stack) : stack[i].entered # l

\* How the program uses the instructions: it returns from what was called
\* last, it does not call the supervisor from the supervisor, it does not call
\* a section that is active, it leaves L and G to the calls, and it stores in
\* its own words only.
Disciplined ==
  /\ Last("RTS") => stack # <<>> /\ Top.by = "CLS"
  /\ Last("RSV") => stack # <<>> /\ Top.by = "CSV"
  /\ Last("CSV") => \A i \in 1..Len(stack) : stack[i].by = "CLS"
  /\ Last("CLS") /\ trap' = {} /\ state' = "run" => Enters(cpu'.L)
  /\ last'.op \in {"STR", "ICL", "DCL"} /\ trap' = {} =>
       cpu'.L = cpu.L /\ cpu'.G = cpu.G
  /\ last'.op \notin {"CLS", "CSV"} /\ trap' = {} =>
       \A i \in DOMAIN mem : mem'[i] # mem[i] => 2 * i \in Free
  /\ cpu'.MP \subseteq Locks

Frame == [by |-> last'.op, P |-> cpu.P, L |-> cpu.L, entered |-> cpu'.L,
          ind |-> [MS |-> cpu.MS, PR |-> cpu.PR]]

\* A trap is a call that no instruction returns from.
Follow ==
  stack' = IF state' # "run" THEN stack
           ELSE IF trap' # {} THEN Append(stack, [Frame EXCEPT !.by = "trap"])
           ELSE IF last'.op \in {"CLS", "CSV"} THEN Append(stack, Frame)
           ELSE IF last'.op \in {"RTS", "RSV"} THEN SubSeq(stack, 1, Len(stack) - 1)
           ELSE stack

\* The word of SPA is its target when it is the word that changed.
FollowCall ==
  call' = IF Last("SPA") /\ trap' = {} /\ state' = "run"
            THEN {[cell |-> Cell(TargetAddress(last'.form, last'.d)),
                   P |-> (cpu.P + 4) % Modulus, MS |-> cpu.MS]}
            ELSE {c \in call : mem'[c.cell] = mem[c.cell]}

SectionsInit == Init /\ stack = <<>> /\ call = {}

SectionsNext ==
  \/ Next /\ ~Idle /\ Disciplined /\ Follow /\ FollowCall
  \/ Idle /\ UNCHANGED <<stack, call>>

SectionsSpec == SectionsInit /\ [][SectionsNext]_sectionVars

----------------------------------------------------------------------------
Returned(op) ==
  Last(op) /\ steps' # steps /\ state' = "run" /\ trap' = {}

(* A section returns to the instruction after the one that called it, with  *)
(* the local base of its caller, through any nesting of sections and of one *)
(* supervisor call, in either mode; the supervisor returns with the mode    *)
(* and the key of its caller.                                               *)
ReturnsToCaller ==
  [][/\ Returned("RTS") \/ Returned("RSV") =>
          /\ VA_TO_PA(cpu'.P) = VA_TO_PA(Top.P + 2)
          /\ VA_TO_PA(cpu'.L) = VA_TO_PA(Top.L)
     /\ Returned("RSV") =>
          cpu'.MS = Top.ind.MS /\ cpu'.PR = Top.ind.PR]_sectionVars

ReturnThrough(c) ==
  /\ Returned("BRU")
  /\ last'.form \in {"IL", "IG"}
  /\ \E va \in Pointers(last'.form, last'.d) : Cell(va) = c.cell

(* A master subroutine that branches through the word SPA stored returns to *)
(* the instruction after the branch that followed SPA.                      *)
MasterSubroutineReturns ==
  [][\A c \in call : c.MS = 1 /\ cpu.MS = 1 /\ ReturnThrough(c) =>
       cpu'.P = c.P]_sectionVars

(* The comment of SPA and the disassembler: the word SPA stores is the       *)
(* address the subroutine returns to, whatever the mode.                     *)
SubroutineReturns ==
  [][\A c \in call : ReturnThrough(c) => cpu'.P = c.P]_sectionVars

=============================================================================
