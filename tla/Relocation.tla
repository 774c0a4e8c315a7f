----------------------------- MODULE Relocation -----------------------------
(***************************************************************************)
(* A slave program is loaded anywhere: G' makes its addresses relative.     *)
(* The abstract machine is the same one with G = 0: P and L are seen        *)
(* relative to G, and memory from G on, around its end.                     *)
(***************************************************************************)
EXTENDS Program

Relative(r) ==
  [r EXCEPT !.P = (@ - r.G) % Modulus, !.L = (@ - r.G) % Modulus, !.G = 0]

FromG(r, m) ==
  [i \in DOMAIN m |-> m[(i + Cell(r.G)) % (Half \div 2)]]

Virtual ==
  INSTANCE Program
    WITH cpu <- Relative(cpu),
         mem <- FromG(cpu, mem),
         Start <- {[cpu |-> Relative(s.cpu), mem |-> FromG(s.cpu, s.mem)] :
                     s \in Start}

\* The instructions that read or leave an absolute address by design: those of
\* the links and the tables of the supervisor, CPS, whose A is one, the locks,
\* LDR and STR of P, L and G, and those a slave is refused, as it finds a
\* supervisor by the absolute table.
Absolute(i) ==
  \/ i.op \in {"SPA", "CSV", "RSV", "CPS", "TES", "LDP"}
  \/ i.op \in {"LDR", "STR"} /\ Parameter(i.form, i.d) % 64 < 3
  \/ Privileged(i.op, i.form, i.d)

(* Every other instruction does to a slave program loaded at G what it does *)
(* to the same program loaded at 0: the address forms, the links of CLS,    *)
(* the strings and the indirect branches use G and G' consistently.  A trap *)
(* leaves the program, and a lock is on a place and not on a program.  STR   *)
(* of a master can make G odd; a word is then at odd addresses from there.   *)
Relocatable ==
  [][/\ cpu.MS = 0 /\ cpu.MP = {} /\ cpu.G % 2 = 0
     /\ trap' = {} /\ ~Absolute(last')
     => Virtual!Next]_vars

=============================================================================
