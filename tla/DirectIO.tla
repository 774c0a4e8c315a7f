------------------------------ MODULE DirectIO ------------------------------
(***************************************************************************)
(* Direct I/O: how RD and WD find the coupler they talk to.  cpu_reset      *)
(* calls io_init, which fills the table dio_disp from the device list of    *)
(* the simulator; RD and WD take an 8-bit mode out of register E, index the *)
(* table with it, and hand E to the handler they find, which checks it      *)
(* again.                                                                   *)
(***************************************************************************)
EXTENDS Integers, Sequences

CONSTANTS
  Configurations, \* the device lists
  DIO_N_MOD,      \* the size of the table (128 in mitra_defs.h)
  Accepts,        \* per handler and direction, the E it accepts
  Es              \* the values of E that programs use

Nothing == "nothing"
Unknown == "what the memory behind the table holds"

Device == [name : DOMAIN Accepts, uses_dio : BOOLEAN, dio : Nat]

ASSUME ConfigurationsAssumption ==
  \A devices \in Configurations : devices \in Seq(Device)

ASSUME ModesAssumption == DIO_N_MOD \in Nat \ {0}

ASSUME ProgramsAssumption == \A e \in Es : e \in Nat /\ e <= 65535

ASSUME HandlersAssumption ==
  /\ {Nothing, Unknown} \cap DOMAIN Accepts = {}
  /\ \A h \in DOMAIN Accepts : Accepts[h] \in [{"RD", "WD"} -> SUBSET Nat]

VARIABLES
  sim_devices,  \* the device list, fixed when the simulator is built
  dio_disp,     \* the table: a handler for each mode that is not NULL
  reset_status, \* what the last cpu_reset returned
  last          \* the mode, the handler and the result of the last RD or WD

vars == <<sim_devices, dio_disp, reset_status, last>>

Names == {sim_devices[i].name : i \in DOMAIN sim_devices}

----------------------------------------------------------------------------

\* dio_disp[mode] = handler.
Entry(mode, handler, disp) ==
  [m \in DOMAIN disp \cup {mode} |-> IF m = mode THEN handler ELSE disp[m]]

\* Mutant: the last device to claim a mode wins.
install_over(built, d) ==
  IF ~d.uses_dio \/ built.error THEN built
  ELSE IF d.dio >= DIO_N_MOD THEN [built EXCEPT !.error = TRUE]
  ELSE [built EXCEPT !.disp = Entry(d.dio, d.name, @)]

\* Mutant: the mode is not compared with DIO_N_MOD.
install_anywhere(built, d) ==
  IF ~d.uses_dio \/ built.error THEN built
  ELSE IF d.dio \in DOMAIN built.disp THEN [built EXCEPT !.error = TRUE]
  ELSE [built EXCEPT !.disp = Entry(d.dio, d.name, @)]

\* One device of the loop: nothing more is installed after an error.
install(built, d) ==
  IF ~d.uses_dio \/ built.error THEN built
  ELSE IF d.dio >= DIO_N_MOD \/ d.dio \in DOMAIN built.disp
    THEN [built EXCEPT !.error = TRUE]
  ELSE [built EXCEPT !.disp = Entry(d.dio, d.name, @)]

\* io_init gives up at the first device whose mode is illegal or taken; the
\* table keeps what it has installed before.
io_init(devices) ==
  LET table[i \in 0..Len(devices)] ==
        IF i = 0 THEN [disp |-> <<>>, error |-> FALSE]
        ELSE install(table[i - 1], devices[i])
  IN  table[Len(devices)]

\* Bits 9 to 12 of E, then bits 0 to 3.
DIO_GET_ADDR(e) == ((e \div 512) % 16) * 16 + (e % 16)

\* cpu_reset: the table is rebuilt from every device of the list, enabled or
\* not.
Reset ==
  LET built == io_init(sim_devices)
  IN  /\ dio_disp' = built.disp
      /\ reset_status' = IF built.error THEN "SCPE_IERR" ELSE "SCPE_OK"
      /\ UNCHANGED <<sim_devices, last>>

\* The handlers RD and WD may find: modes have 8 bits, and a mode that is not
\* below DIO_N_MOD indexes the memory behind the table.
Found(mode) ==
  IF mode \in DOMAIN dio_disp THEN {dio_disp[mode]}
  ELSE IF mode < DIO_N_MOD THEN {Nothing}
  ELSE {Nothing, Unknown}

\* io_rwd: a mode without a handler is a trap; a handler that does not know E
\* stops the simulator.
io_rwd(e, inst) ==
  \E handler \in Found(DIO_GET_ADDR(e)) :
    /\ last' = [mode |-> DIO_GET_ADDR(e), handler |-> handler,
                result |-> CASE handler = Nothing -> "TRAP_ES"
                             [] handler = Unknown -> "undefined"
                             [] OTHER -> IF e \in Accepts[handler][inst]
                                           THEN "SCPE_OK" ELSE "SCPE_IOERR"]
    /\ UNCHANGED <<sim_devices, dio_disp, reset_status>>

\* The static table is empty until the first reset.
Init ==
  /\ sim_devices \in Configurations
  /\ dio_disp = <<>>
  /\ reset_status = Nothing
  /\ last = [mode |-> 0, handler |-> Nothing, result |-> Nothing]

Next ==
  \/ Reset
  \/ \E e \in Es, inst \in {"RD", "WD"} : io_rwd(e, inst)

Spec == Init /\ [][Next]_vars

----------------------------------------------------------------------------

\* The type of every variable: a mode has 8 bits, and what is found outside the
\* table is never one of its entries.
TypeOK ==
  /\ sim_devices \in Configurations
  /\ DOMAIN dio_disp \subseteq 0..(DIO_N_MOD - 1)
  /\ \A m \in DOMAIN dio_disp : dio_disp[m] \in Names
  /\ reset_status \in {Nothing, "SCPE_OK", "SCPE_IERR"}
  /\ last.mode \in 0..255
  /\ last.handler \in Names \cup {Nothing, Unknown}
  /\ last.handler = Unknown => last.mode >= DIO_N_MOD
  /\ last.result \in {Nothing, "TRAP_ES", "undefined", "SCPE_OK", "SCPE_IOERR"}

Claims(i) == sim_devices[i].uses_dio

Clash(i) ==
  /\ Claims(i)
  /\ \/ sim_devices[i].dio >= DIO_N_MOD
     \/ \E j \in 1..(i - 1) :
          Claims(j) /\ sim_devices[j].dio = sim_devices[i].dio

\* io_init refuses exactly the lists in which a mode is illegal or claimed
\* twice, and never routes a mode to a device that does not claim it: the table
\* holds the claims that come before the first clash, and no other.
TableIsConfiguration ==
  reset_status # Nothing =>
    /\ reset_status = "SCPE_IERR" <=> \E i \in DOMAIN sim_devices : Clash(i)
    /\ \A i \in DOMAIN sim_devices :
         Claims(i) /\ (\A j \in 1..i : ~Clash(j)) =>
           /\ sim_devices[i].dio \in DOMAIN dio_disp
           /\ dio_disp[sim_devices[i].dio] = sim_devices[i].name
    /\ \A m \in DOMAIN dio_disp :
         \E i \in DOMAIN sim_devices :
           /\ Claims(i)
           /\ sim_devices[i].dio = m
           /\ \A j \in 1..i : ~Clash(j)

=============================================================================
