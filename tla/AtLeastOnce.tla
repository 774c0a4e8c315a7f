---------------------------- MODULE AtLeastOnce ----------------------------
(***************************************************************************)
(* What the interrupt levels of the Mitra-15 promise to the programs        *)
(* connected to them, without contexts, indicators, traps or locks: a       *)
(* request is never forgotten before its program has been given the         *)
(* processor, a program is only preempted by one of a higher level, and the *)
(* program given the processor is the one of the level.  A program that     *)
(* gives its level up may be succeeded by a request that is delivered but   *)
(* not withdrawn, so a request may be delivered more than once.             *)
(***************************************************************************)
EXTENDS Integers

CONSTANTS
  Levels,     \* a set of integers that holds 0
  Served      \* the levels that have a program

VARIABLES
  level,      \* the active level
  waiting,    \* the levels that wait for the processor
  running     \* the program that has the processor

vars == <<level, waiting, running>>

Highest(S) == {l \in S : \A m \in S : m <= l}

Init == level = 0 /\ waiting = {} /\ running = 0

\* The program of the level is given the processor.
Give(l) ==
  /\ level' = l
  /\ running' = IF l \in Served THEN l ELSE running

Request(l) == waiting' = waiting \cup {l} /\ UNCHANGED <<level, running>>

\* A level above the active one takes the processor.
Preempt ==
  \E l \in Highest(waiting) :
    /\ l > level
    /\ Give(l)
    /\ waiting' = waiting \ {l}

\* The active level ends; the highest request is served and stays.
Resume == \E l \in Highest(waiting) : Give(l) /\ UNCHANGED waiting

\* The active level ends, leaving its program's registers to level 0.
Idle == level' = 0 /\ UNCHANGED <<waiting, running>>

\* The machine is reset: what waits goes on waiting.
Restart == level' = 0 /\ running' = 0 /\ UNCHANGED waiting

\* The machine starts again on the highest request.
Boot(l) ==
  \E h \in Highest(waiting \cup {l}) :
    \/ /\ h \in Served
       /\ Give(h)
       /\ waiting' = (waiting \cup {l}) \ {h}
    \/ /\ h \notin Served
       /\ level' = 0
       /\ running' = 0
       /\ waiting' = waiting \cup {l}

Next ==
  \/ \E l \in Levels \ {0} : Request(l) \/ Boot(l)
  \/ Preempt \/ Resume \/ Idle \/ Restart

Spec == Init /\ [][Next]_vars

=============================================================================
