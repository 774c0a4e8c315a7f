---------------------------- MODULE Asr33Claims ----------------------------
(***************************************************************************)
(* What the comments of IO_asr33.c say of the teletype and the code does    *)
(* not do.                                                                  *)
(***************************************************************************)
EXTENDS Asr33

\* "R9 gets number of unread bytes" (asr33_poll, tape, stop character).
TapeStopReportsCount ==
  [][TapeCharacter /\ ~asr'.active /\ asr'.bytes_left > 0 =>
       R9' % Half = asr'.bytes_left]_vars

\* "Ctrl-E -> stop simulator" (asr33_poll, keyboard).
CtrlEStops == [][KeyboardStop => reason' = "stop"]_vars

=============================================================================
