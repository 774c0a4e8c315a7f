------------------------------ MODULE MCAsr33 ------------------------------
(* Values of the constants for the runs of Asr33. *)
EXTENDS Asr33Claims

\* A byte of leader, which is also the stop character of a program that leaves
\* register 11 at 0, and two more.
ThreeChars == <<0, 1, 2>>

OneChar == <<0, 1>>

\* A tape that is all leader.
Blank == <<0, 0>>
=============================================================================
