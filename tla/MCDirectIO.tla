----------------------------- MODULE MCDirectIO -----------------------------
(* Values of the constants for the runs of DirectIO. *)
EXTENDS DirectIOClaims

Handler(name, dio) == [name |-> name, uses_dio |-> TRUE, dio |-> dio]

CPU == Handler("CPU", 0)
PANEL == Handler("PANEL", 21)
RTC == [name |-> "RTC", uses_dio |-> FALSE, dio |-> 0]
DRI == Handler("DRI", 21)
ASR33 == Handler("ASR33", 1)

\* sim_devices as far as io_init reads it: the fourth device, DRI, claims the
\* mode of the second one, and io_init gives up before the rest.
AsBuilt == {<<CPU, PANEL, RTC, DRI, ASR33>>}

\* The same without the panel; without the punched tape, the printer and the
\* card reader, too, whose ctxt is not a dib_t.
WithoutPanel == {<<CPU, RTC, DRI, ASR33>>}

\* Every list of up to three devices, each with any of four modes, one of
\* them illegal.
Modes == {0, 1, 21, 256}
Slots == {Handler(n, m) : n \in {"PANEL", "DRI", "ASR33"}, m \in Modes}
           \cup {RTC}
Names3(s) == \A i, j \in DOMAIN s : i # j => s[i].name # s[j].name
AllLists ==
  {s \in UNION {[1..n -> Slots] : n \in 0..3} : Names3(s)}

\* What each handler checks E against.
AcceptedE ==
  [CPU |-> [RD |-> 0..65535, WD |-> 0..65535],
   PANEL |-> [RD |-> {32}, WD |-> {0, 1, 16, 32}],
   RTC |-> [RD |-> {}, WD |-> {}],
   DRI |-> [RD |-> {21}, WD |-> {3, 5, 21}],
   ASR33 |-> [RD |-> {16}, WD |-> {1}]]

\* The documented values of E, and two that name the modes 21 and 255.
DocumentedEs == {0, 1, 3, 5, 16, 21, 32, 517, 65535}
FewEs == {1, 517, 65535}
=============================================================================
