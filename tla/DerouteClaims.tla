--------------------------- MODULE DerouteClaims ---------------------------
(* What the comments of the code say of the mechanism of Deroute, where the  *)
(* code does otherwise.                                                      *)
EXTENDS Deroute

\* DIT or DITR ends an interrupt level that has a context.
Deactivated ==
  /\ curr_int_lvl # 0
  /\ cpt_lookup(curr_int_lvl)
  /\ \E inst \in {"DIT", "DITR"} : Deactivate(inst)

\* The registers after DIT are those of the level it has made current
\* (mitra_deroute.c:399, "Context elements corresponding to the new level are
\* loaded in the registers").
DeactivationLoads ==
  [][Deactivated /\ curr_int_lvl' \in Connected => task' = curr_int_lvl']_vars

\* The request of the level that DIT has made current is withdrawn
\* (mitra_cpu.c:456, "cleared when the interrupt is taken").
RequestTakenIsCleared ==
  [][Deactivated => curr_int_lvl' \notin intrpt_pending']_vars

\* No request is left by a reset (IO_asr33.c:586, "cpu_reset() P=0, MS=1, MA=0,
\* level=0, intrpt_pending=0").
ResetClearsRequests == [][Reset => intrpt_pending' = {}]_vars

\* Low memory holds the context of the instruction that caused the last trap
\* (mitra_deroute.c:134, "protects bytes 4 to 9 of the memory which contain L-
\* and P-register values and the indicators status of the context of the
\* instruction which initiated the trap").
FrameHoldsFaulter == faulter # Nobody => frame = faulter

=============================================================================
