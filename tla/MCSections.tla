----------------------------- MODULE MCSections -----------------------------
(* Words of 8 bits, 64 words of memory.  The supervisor's table is at 32     *)
(* with sections 0 to 2, G is 64 with sections 1 to 3 below it, and the      *)
(* local segments start with the two words of their links.                   *)
EXTENDS Sections

Contents ==
  [a \in {12, 14, 24, 26, 28, 30, 32, 34, 44, 52, 54, 56, 58, 60, 62, 76, 84,
          92, 100, 108} |->
     CASE a = 12 -> 32 [] a = 14 -> 3
       [] a = 24 -> 104 [] a = 26 -> 110
       [] a = 28 -> 40 [] a = 30 -> 200
       [] a = 32 -> 112 [] a = 34 -> 120
       [] a = 52 -> 32 [] a = 54 -> 70
       [] a = 56 -> 24 [] a = 58 -> 60
       [] a = 60 -> 16 [] a = 62 -> 50
       [] a = 44 -> 1 [] a = 76 -> 1 [] a = 84 -> 2 [] a = 92 -> 3
       [] a = 100 -> 2 [] a = 108 -> 3]

Image ==
  [i \in 0..63 |-> IF 2 * i \in DOMAIN Contents THEN Contents[2 * i] ELSE 0]

Registers0(slave) ==
  [A |-> 130, E |-> 1, X |-> 1, P |-> 150, L |-> 72, G |-> 64, C |-> 0, OV |-> 1,
   MS |-> IF slave THEN 0 ELSE 1, PR |-> 0, MA |-> 0, MP |-> {},
   block |-> [n \in 6..63 |-> 0]]

MCStart == {[cpu |-> Registers0(b), mem |-> Image] : b \in BOOLEAN}

\* The instructions of the program: a section calls another one by number, by
\* an indexed number or by a number in its local segment, and the supervisor's
\* section 1 or one out of bounds; SPA and the branch through its word.
MCRepertoire ==
  {<<"CLS", "P", 1>>, <<"CLS", "DL", 4>>, <<"RTS", "P", 0>>, <<"CSV", "P", 1>>,
   <<"CSV", "P", 4>>, <<"RSV", "P", 0>>, <<"SPA", "DL", 6>>, <<"BRU", "IL", 6>>,
   <<"TES", "DL", 4>>, <<"LDP", "P", 4>>, <<"CPS", "DL", 4>>}
MCBases == {80, 88, 96}
MCFree == {46, 78, 86, 94, 102, 110, 44, 76, 84, 92, 100, 108}
MCLocks == {1, 4, 38}
=============================================================================
