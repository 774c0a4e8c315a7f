----------------------------- MODULE MCListing -----------------------------
(* Instances of Listing: every kind of word alone in an image, programs of   *)
(* a few words that call, jump and hold text, and an image with a section    *)
(* table below G.                                                            *)
EXTENDS Listing, TLC

Lows == {0, 1, 2, 3, 4, 5, 8, 12, 18, 30, 31, 32, 37, 64, 69, 96, 128, 133, 192, 255}

Singles ==
  {0 :> (256 * high + low) : high \in 0..255, low \in Lows}
    \cup {16 :> (256 * high + low) : high \in 0..255, low \in {12, 18, 32, 33}}

\* BRU RP 2, BCT RP 4, SPA DL 8, BRU IL 8, BRX RP 194 (as text: AB), RSV, and
\* a word that is an address.
Vocabulary == {50946, 49156, 6152, 55048, 49602, 61708, 6}

Programs == {p \in [0..4 -> Vocabulary] : p[4] \in {6, 49602, 61708}}

\* One section, its table at words 2 and 3 below G = 8, its data at word 9.
Sections ==
  {[i \in 0..10 |-> CASE i = 0 -> a [] i = 1 -> 18184 [] i = 2 -> 10
                      [] i = 3 -> 4 [] i = 4 -> b [] i = 6 -> c
                      [] OTHER -> 63233]
   : a \in {63489, 50948, 6}, b \in {0, 50946}, c \in Vocabulary \cup {63489}}

\* BCT RP 1 into a text.
Texts == [0..4 -> {49153, 49602, 50946, 6}]

\* An SPA IGX that looks like text, before a BRU that looks like text and is
\* reached first: BCT RP 3, BRU RP 1, SPA, BRU RP 193, LDA DL 1.
TextCalls ==
  {[i \in 0..4 |-> <<49155, 50945, 39105, 51137, 1>>[i + 1]]}

\* RTS DL, DITR DL and DITR PX, which are not those instructions.
NamedReturns == {[i \in 0..1 |-> <<w, 61708>>[i + 1]] : w \in {12544, 15392, 60448}}

Everything ==
  Singles \cup Programs \cup Sections \cup TextCalls \cup NamedReturns

TheOptions ==
  {[given |-> FALSE, G |-> 0, absolute |-> a] : a \in BOOLEAN}
    \cup {[given |-> TRUE, G |-> g, absolute |-> FALSE] : g \in {0, 8}}

=============================================================================
