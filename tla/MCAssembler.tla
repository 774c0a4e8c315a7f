---------------------------- MODULE MCAssembler ----------------------------
(* Instances of Assembler: every mnemonic in every mode alone, all programs  *)
(* of three or four lines of a small vocabulary, and the first lines of      *)
(* src/Assembler/boot_asr33.asm.                                             *)
EXTENDS Assembler, TLC

Names2 == "BAD" :> 2989

Line(label, op, mode, args) ==
  [label |-> label, op |-> op, mode |-> mode, args |-> args]

Operands == {<<>>, <<Number(18)>>, <<Number(255)>>, <<Number(3000)>>, <<Name("L")>>,
   <<Name("PX")>>}

Singles ==
  {<<Line("L", op, mode, args)>> :
     op \in known_opcodes, args \in Operands, mode \in Modes}

Words ==
  {Line("L", "LDA", "DL", <<Name("M")>>),
   Line("none", "BRU", "DL", <<Name("L")>>),
   Line("M", "BAZ", "DL", <<Name("M")>>),
   Line("none", "BCT", "DL", <<Name("BAD")>>),
   Line("L", "DATA", "DL", <<Number(5), Name("M")>>),
   Line("M", "DATA,1", "DL", <<Number(7), Number(8)>>),
   Line("none", "RES", "DL", <<Number(2)>>),
   Line("L", "FIN", "DL", <<>>)}

Others ==
  {Line("none", "STA", "P", <<Number(64)>>),
   Line("M", "DATA,1", "DL", <<Number(7), String(2)>>),
   Line("L", "DATA", "DL", <<String(2)>>),
   Line("none", "RES", "DL", <<Name("M")>>),
   Line("L", "RES,1", "DL", <<Number(2)>>),
   Line("none", "TEXT", "DL", <<String(3)>>),
   Line("M", "BND", "DL", <<>>),
   Line("none", "ORG", "DL", <<Number(16)>>),
   Line("M", "EQU", "DL", <<Number(4)>>),
   Line("M", "LPS", "DL", <<>>),
   Line("none", "END", "DL", <<>>)}

Programs == [1..3 -> Words \cup Others] \cup [1..4 -> Words]

\* A reservation, then a branch over two instructions.
Boots ==
  {<<r, Line("none", "BAZ", "DL", <<Name("L")>>), x, Line("L", "RTS", "P", <<>>)>> :
     r \in {Line("none", "RES", "DL", <<Number(4)>>), Line("none", "DATA", "DL", <<Number(1)>>),
            Line("none", "ORG", "DL", <<Number(16)>>)},
     x \in {Line("none", "STA", "P", <<Number(64)>>), Line("none", "XAE", "P", <<>>)}}

Everything == Singles \cup Programs

=============================================================================
