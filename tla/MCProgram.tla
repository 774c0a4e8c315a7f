----------------------------- MODULE MCProgram -----------------------------
(* Words of 6 bits, 16 words of memory.  The supervisor's table is at 28     *)
(* with sections 0 and 1; a master and a slave with a locked trap frame have *)
(* none, its address being out of range.  The programs are at 8, but for a   *)
(* slave at 52, whose memory goes around the end: the table of its sections  *)
(* is before G, its common section at G and its local one at G + 8.          *)
EXTENDS Relocation

Contents == <<12, 6, 4, 3, 10, 2, 28, 2, 33, 0, 5, 20, 18, 4, 16, 2>>
Table == <<12, 6, 4, 3, 10, 2, 14, 57, 33, 0, 5, 20, 18, 4, 16, 2>>

Registers0(g, master, locks) ==
  [A |-> 6, E |-> 3, X |-> 2, P |-> (g + 20) % 64, L |-> (g + 8) % 64, G |-> g,
   C |-> 0, OV |-> 0, MS |-> master, PR |-> 0, MA |-> 0, MP |-> locks,
   block |-> [n \in 6..63 |-> n]]

MCStart ==
  {[cpu |-> r, mem |-> [i \in 0..15 |-> Contents[i + 1]]] :
     r \in {Registers0(8, 1, {}), Registers0(8, 0, {2, 8})}}
  \cup {[cpu |-> r, mem |-> [i \in 0..15 |-> IF i = 6 THEN 40 ELSE Contents[i + 1]]] :
           r \in {Registers0(8, 1, {}), Registers0(8, 0, {2, 8})}}
  \cup {[cpu |-> Registers0(52, 0, {}),
         mem |-> [i \in 0..15 |-> Table[((i - 26) % 16) + 1]]]}

MCRepertoire ==
  ({"LDA", "DIV", "STS", "STA", "SPA", "CPS", "MVS", "TRS", "DST", "DLD", "LEA"}
     \X (MemoryForms \cup {"P"}) \X {0, 2, 5})
  \cup ({"BRU", "BRX", "BAZ"} \X BranchForms \X {0, 2, 5})
  \cup ({"TES", "LDP", "STR", "LDR", "CLS", "CSV", "SRG", "SHC", "SHR", "DCX"}
          \X ParameterForms \X {0, 1, 4})
  \cup {<<"ADM", "IL", 4>>, <<"LDX", "P", 1>>, <<"ICX", "PX", 1>>,
        <<"ICL", "DL", 2>>, <<"STR", "P", 9>>, <<"LDR", "P", 9>>,
        <<"SHR", "P", 5>>, <<"SRG", "P", 12>>, <<"RSV", "P", 0>>,
        <<"RTS", "P", 0>>, <<"F4", "P", 0>>}
=============================================================================
