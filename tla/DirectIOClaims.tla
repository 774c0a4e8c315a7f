--------------------------- MODULE DirectIOClaims ---------------------------
(***************************************************************************)
(* What the comments and the headers of the code say of direct I/O and the  *)
(* code does not do.                                                        *)
(***************************************************************************)
EXTENDS DirectIO

\* "build dio_disp[] so devices are usable" (cpu_reset): after a reset of the
\* machine as built, the teletype answers the WD its header documents.
TeletypeUsable ==
  [][reset_status # Nothing => (io_rwd(1, "WD") => last'.handler = "ASR33")]_vars

\* "WD E=&15: start transfer (A=ADS)": the disk is reached with the E its
\* header documents, once it is installed.
DiskReached ==
  [][("DRI" \in Names /\ reset_status = "SCPE_OK" /\ io_rwd(21, "WD")) =>
       last'.handler = "DRI" /\ last'.result = "SCPE_OK"]_vars

\* "8-bit I/O address space" (DIO_N_MOD of mitra_RD_WD.c, which the smaller one
\* of mitra_defs.h hides): every mode that RD and WD cut out of E has its place
\* in the table.
ModesInTable == last.mode < DIO_N_MOD

=============================================================================
