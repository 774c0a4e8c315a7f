------------------------------- MODULE Codec -------------------------------
(***************************************************************************)
(* The words of the Mitra-15 as each program of the repository reads them:  *)
(* decode_insn of the disassembler, fprint_sym of the simulator, the CPU    *)
(* itself (one_inst and what it calls), and the opcode tables of the        *)
(* assembler, which go the other way.  A word is a number below 2^16.       *)
(***************************************************************************)
EXTENDS Integers, Sequences

\* No number: what cannot be resolved, pointed to or encoded.
NONE == -1

HexCode(w) == w \div 4096
Sub(w) == (w \div 256) % 16
Disp(w) == w % 256

group1_opnames ==
  <<"LDA", "LDE", "LDX", "EOR", "LEA", "ADD", "SUB", "IOR",
    "DIV", "AND", "CPS", "CMP", "MUL", "LBL", "LBR", "LBX">>
group2_opnames ==
  <<"DLD", "STA", "STE", "STX", "SBL", "SBR", "DST", "ADM",
    "SPA", "STS", "FAD", "FSU", "FMU", "FDV", "TRS", "MVS">>
group3_opnames ==
  <<"SHR", "SRG", "ICX", "DCX", "none", "ICL", "DCL", "CSV",
    "CLS", "LDR", "STR", "LDP", "SHC", "TES", "none", "none">>
group4_opnames == <<"BCT", "BRX", "BOT", "BCF", "BAN", "BAZ", "BOF", "BRU">>
shr_names ==
  <<"SLLS", "SRCS", "SAD", "SLCD", "SLCS", "SAS", "SRLS", "SRCD">>
shc_names ==
  <<"SLLD", "DITR", "PTY", "none", "SRLD", "none", "NLZ", "none">>
srg_names ==
  <<"RTS", "XAE", "XAX", "XEX", "XAA", "CCE", "RSV", "ACE",
    "CCA", "AEE", "CNX", "AIE", "AAE", "LNE", "CNA", "CHX">>
control_names ==
  [n \in {0, 1, 2, 3, 8} |-> CASE n = 0 -> "CLM" [] n = 1 -> "DIT" [] n = 2 -> "RD"
                                [] n = 3 -> "WD" [] n = 8 -> "STM"]

control_name(n) == IF n \in DOMAIN control_names THEN control_names[n] ELSE "none"

Group1(w) == HexCode(w) \in {0, 2, 4, 6, 8, 10}
Group2(w) == HexCode(w) \in {1, 5, 7, 9, 11}
System(w) == HexCode(w) \in {3, 14, 15}
Branch(w) == HexCode(w) \in {12, 13}

ModeName(w) ==
  CASE System(w) -> IF HexCode(w) = 3 THEN "DL"
                    ELSE IF HexCode(w) = 14 THEN "PX" ELSE "P"
    [] HexCode(w) = 12 -> IF Sub(w) >= 8 THEN "RM" ELSE "RP"
    [] HexCode(w) = 13 -> IF Sub(w) >= 8 THEN "IG" ELSE "IL"
    [] OTHER -> <<"DL", "P", "DG", "IL", "IGX", "ILX">>[1 + w \div 8192]

----------------------------------------------------------------------------
(* The disassembler. *)

insn_op(w) ==
  LET kind == Disp(w) \div 32
  IN  CASE Group1(w) -> group1_opnames[1 + Sub(w)]
        [] Group2(w) -> group2_opnames[1 + Sub(w)]
        [] Branch(w) -> group4_opnames[1 + (Sub(w) % 8)]
        [] System(w) /\ Sub(w) = 0 -> shr_names[1 + kind]
        [] System(w) /\ Sub(w) = 12 -> shc_names[1 + kind]
        [] System(w) /\ Sub(w) = 1 ->
             IF kind = 0 THEN srg_names[1 + Disp(w) \div 2] ELSE "none"
        [] System(w) /\ Sub(w) = 4 ->
             IF HexCode(w) = 15 THEN control_name(Disp(w)) ELSE "none"
        [] OTHER -> group3_opnames[1 + Sub(w)]

\* How the operand is read.
insn_class(w) ==
  IF System(w) THEN IF Sub(w) \in {0, 1, 4, 12} THEN "none" ELSE "sys"
  ELSE IF Branch(w) THEN "branch" ELSE "mem"

\* The number printed when there is no address.
insn_number(w) ==
  IF ~System(w) \/ Sub(w) \notin {0, 1, 4, 12} THEN Disp(w)
  ELSE IF Sub(w) \in {1, 4} \/ (Sub(w) = 12 /\ Disp(w) \div 32 = 1) THEN 0
  ELSE Disp(w) % 32

\* The instruction ends the flow of control.
insn_ret(w) ==
  /\ System(w)
  /\ \/ Sub(w) = 12 /\ Disp(w) \div 32 = 1
     \/ Sub(w) = 1 /\ Disp(w) \div 2 \in {0, 6}
     \/ Sub(w) = 4 /\ HexCode(w) = 15 /\ Disp(w) = 1

\* op is "none" for a word that is no instruction.
decode_insn(w) ==
  [op |-> insn_op(w), mode |-> ModeName(w), class |-> insn_class(w),
   number |-> insn_number(w), ret |-> insn_ret(w)]

Valid(w) == insn_op(w) # "none"

IsBranch(w) == Branch(w)
IsUncond(w) == Branch(w) /\ Sub(w) % 8 = 7
IsBrx(w) == Branch(w) /\ Sub(w) % 8 = 1
is_spa(w) == Group2(w) /\ Sub(w) = 8
IsCall(w) == System(w) /\ Sub(w) \in {7, 8}

\* What an access to the operand makes of the word it names: data, or only an
\* address that was taken.
TakesAddress(w) == Group1(w) /\ Sub(w) = 4
TwoWords(w) == Group2(w) /\ Sub(w) \in {0, 6, 10, 11, 12, 13}

----------------------------------------------------------------------------
(* The simulator's own listing, a second transcription of the same table:   *)
(* the name, the mode and the number printed unless it is 0.                *)

\* Mutant: the control instructions are looked up in every form.
printed_control_any(w) == control_name(Disp(w))

printed_control(w) == IF HexCode(w) = 15 THEN control_name(Disp(w)) ELSE "none"

fprint_sym(w) ==
  LET d == Disp(w)
      text(op, number) == [op |-> op, mode |-> ModeName(w), number |-> number]
      suboffset == Sub(w)
      unassigned == d \div 32 \in {3, 5, 7}
  IN  IF ~System(w)
        THEN text(IF Branch(w) THEN group4_opnames[1 + (suboffset % 8)]
                  ELSE IF Group2(w) THEN group2_opnames[1 + suboffset]
                  ELSE group1_opnames[1 + suboffset], d)
      ELSE CASE suboffset = 0 -> text(shr_names[1 + d \div 32], d % 32)
             [] suboffset = 12 ->
                  text(shc_names[1 + d \div 32],
                       IF unassigned THEN d ELSE IF d \div 32 = 1 THEN 0 ELSE d % 32)
             [] suboffset = 1 -> text(IF d \div 2 < 16 THEN srg_names[1 + d \div 2]
                                      ELSE "none", 0)
             [] suboffset = 4 -> text(printed_control(w), 0)
             [] suboffset \in {14, 15} -> text("???", d)
             [] OTHER -> text(group3_opnames[1 + suboffset], d)

----------------------------------------------------------------------------
(* The CPU. *)

\* Mutant: the type is read with one bit less.
register_name_short(d) == srg_names[1 + (d % 16) \div 2]

register_name(d) == srg_names[1 + (d % 32) \div 2]

\* The instruction one_inst executes, "none" for a word that leaves everything
\* but the indicators as it was, and "operand" for one whose instruction is
\* read from its operand.
Executed(w) ==
  LET d == Disp(w)
  IN  IF w = 0 THEN "none"
      ELSE CASE Group1(w) -> group1_opnames[1 + Sub(w)]
             [] Group2(w) -> group2_opnames[1 + Sub(w)]
             [] Branch(w) -> group4_opnames[1 + (Sub(w) % 8)]
             [] HexCode(w) = 15 /\ Sub(w) = 0 -> shr_names[1 + d \div 32]
             [] HexCode(w) = 15 /\ Sub(w) = 1 -> register_name(d)
             [] HexCode(w) = 15 /\ Sub(w) = 4 -> control_name(d % 16)
             [] HexCode(w) = 15 /\ Sub(w) = 12 -> shc_names[1 + d \div 32]
             [] HexCode(w) \in {3, 14} /\ Sub(w) \in {0, 1, 12} -> "operand"
             [] HexCode(w) \in {3, 14} /\ Sub(w) = 4 -> "none"
             [] OTHER -> group3_opnames[1 + Sub(w)]

----------------------------------------------------------------------------
(* The assembler: the first byte, or the whole word for an instruction      *)
(* without operand, of a mnemonic in each of its modes.                     *)

Index(names, op) == CHOOSE i \in 0..Len(names) - 1 : names[i + 1] = op
Names(names) == {names[i] : i \in DOMAIN names} \ {"none"}

LoadModes == [DL |-> 0, P |-> 32, DG |-> 64, IL |-> 96, IGX |-> 128, ILX |-> 160]
StoreModes == [DL |-> 0, DG |-> 64, IL |-> 96, IGX |-> 128, ILX |-> 160]
SystemModes == [DL |-> 48, PX |-> 224, P |-> 240]
BranchModes == [RP |-> 192, RM |-> 200, IL |-> 208, IG |-> 216]

derived_shifts == Names(shr_names)
derived_shc == Names(shc_names) \ {"DITR"}
derived_srg == Names(srg_names) \ {"RTS"}

Alias(op) ==
  CASE op \in {"BE", "BZ"} -> "BCT"
    [] op \in {"BL", "BLZ"} -> "BOT"
    [] op \in {"BNE", "BNZ"} -> "BCF"
    [] op \in {"BGE", "BPZ"} -> "BOF"
    [] OTHER -> op

Offset(table, names, op) == [m \in DOMAIN table |-> table[m] + Index(names, op)]

control_number(op) == CHOOSE n \in DOMAIN control_names : control_names[n] = op

opcode_hex(name) ==
  LET op == Alias(name)
  IN  CASE op \in Names(group1_opnames) -> Offset(LoadModes, group1_opnames, op)
        [] op \in Names(group2_opnames) ->
             [m \in DOMAIN StoreModes |-> StoreModes[m] + 16 + Index(group2_opnames, op)]
        [] op \in Names(group3_opnames) -> Offset(SystemModes, group3_opnames, op)
        [] op \in Names(group4_opnames) -> Offset(BranchModes, group4_opnames, op)
        [] op = "RTS" -> [P |-> 61696]
        [] op = "RSV" -> [P |-> 61708]
        [] op = "DITR" -> [DL |-> 15392, PX |-> 60448, P |-> 64544]
        [] op \in {control_names[n] : n \in DOMAIN control_names} ->
             [P |-> 62464 + control_number(op)]

=============================================================================
