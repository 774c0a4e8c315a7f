----------------------------- MODULE MCDeroute -----------------------------
(* Instances of Deroute for TLC. *)
EXTENDS DerouteClaims

User   == [PR |-> FALSE, MA |-> FALSE, MS |-> FALSE]
Keyed  == [PR |-> TRUE, MA |-> FALSE, MS |-> TRUE]
Masked == [PR |-> FALSE, MA |-> TRUE, MS |-> FALSE]

\* Level 0 runs a user program; level 1 a master program, level 2 one that
\* also holds the key.
SomeImage == [l \in Level |-> CASE l = 0 -> User [] l = 1 -> Master [] OTHER -> Keyed]

\* Pointers below 8192 read as no indicator at all; those from 16384 as MA.
LowPointers == [l \in Connected |-> User]
HighPointers == [l \in Connected |-> IF l = 2 THEN Masked ELSE User]

AllLevels == Level
AllButOne == Level \ {1}
Requested == Level \ {0}

SaveArea(l) == {l} \X Part
UserWords == SaveArea(0) \cup {LowMemory}
OneRegs == {<<0, "regs">>, Data}
OnlyData == {Data}
=============================================================================
