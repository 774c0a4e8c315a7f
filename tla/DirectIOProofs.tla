---------------------------- MODULE DirectIOProofs ----------------------------
(***************************************************************************)
(* The table of DirectIO is the configuration, for every device list: by    *)
(* induction along the loop of io_init.                                     *)
(***************************************************************************)
EXTENDS DirectIO, Induction

\* A table under construction.
Tables == UNION {[M -> Names] : M \in SUBSET (0..DIO_N_MOD - 1)}
Built == [disp : Tables, error : BOOLEAN]

\* The table has a size.
LEMMA TableSize == DIO_N_MOD \in Nat
BY ModesAssumption

\* The device list and the places in it.
LEMMA Devices ==
  ASSUME sim_devices \in Configurations
  PROVE  /\ Len(sim_devices) \in Nat
         /\ DOMAIN sim_devices = 1..Len(sim_devices)
         /\ \A i \in 1..Len(sim_devices) :
              /\ sim_devices[i] \in Device
              /\ sim_devices[i].uses_dio \in BOOLEAN
              /\ sim_devices[i].dio \in Nat
              /\ sim_devices[i].name \in Names
         /\ Nothing \notin Names /\ Unknown \notin Names
<1>1. sim_devices \in Seq(Device)
  BY ConfigurationsAssumption
<1>2. /\ Len(sim_devices) \in Nat
      /\ DOMAIN sim_devices = 1..Len(sim_devices)
      /\ \A i \in 1..Len(sim_devices) : sim_devices[i] \in Device
  BY <1>1
<1>3. \A i \in 1..Len(sim_devices) : sim_devices[i].name \in Names
  BY <1>2 DEF Names
<1>4. Nothing \notin Names /\ Unknown \notin Names
  <2>1. Names \subseteq DOMAIN Accepts
    BY <1>2 DEF Names, Device
  <2> QED  BY <2>1, HandlersAssumption
<1> QED  BY <1>2, <1>3, <1>4 DEF Device

\* A table is a function from modes to names of devices.
LEMMA TableType ==
  ASSUME NEW t
  PROVE  t \in Tables <=> /\ t = [m \in DOMAIN t |-> t[m]]
                          /\ DOMAIN t \subseteq 0..DIO_N_MOD - 1
                          /\ \A m \in DOMAIN t : t[m] \in Names
  BY DEF Tables

\* The table with one more claim.
LEMMA Extended ==
  ASSUME NEW t \in Tables, NEW n \in Names, NEW mode \in 0..DIO_N_MOD - 1
  PROVE  Entry(mode, n, t) \in Tables
<1> DEFINE u == Entry(mode, n, t)
<1>1. /\ DOMAIN u = DOMAIN t \cup {mode}
      /\ u = [m \in DOMAIN u |-> u[m]]
      /\ \A m \in DOMAIN u : u[m] = IF m = mode THEN n ELSE t[m]
  BY DEF Entry
<1>2. u \in Tables
  <2>1. DOMAIN u \subseteq 0..DIO_N_MOD - 1 /\ \A m \in DOMAIN u : u[m] \in Names
    <3> HIDE DEF u
    <3> QED  BY <1>1, TableType
  <2> HIDE DEF u
  <2> QED  BY <1>1, <2>1, TableType
<1> QED  BY <1>1, <1>2

\* One device of the loop.
LEMMA Install ==
  ASSUME sim_devices \in Configurations,
         NEW b \in Built, NEW i \in 1..Len(sim_devices)
  PROVE  /\ install(b, sim_devices[i]) \in Built
         /\ ~Claims(i) \/ b.error => install(b, sim_devices[i]) = b
         /\ Claims(i) /\ ~b.error =>
              IF sim_devices[i].dio \in 0..DIO_N_MOD - 1 \ DOMAIN b.disp
                THEN install(b, sim_devices[i])
                       = [disp |-> Entry(sim_devices[i].dio, sim_devices[i].name, b.disp),
                          error |-> FALSE]
                ELSE install(b, sim_devices[i]) = [disp |-> b.disp, error |-> TRUE]
<1> DEFINE d == sim_devices[i]
<1>1. /\ d.uses_dio \in BOOLEAN
      /\ d.dio \in Nat
      /\ d.name \in Names
      /\ DIO_N_MOD \in Nat
  BY Devices, TableSize
<1>b. /\ b.error \in BOOLEAN
      /\ b.disp \in Tables
      /\ b = [disp |-> b.disp, error |-> b.error]
  BY DEF Built
<1>2. CASE ~d.uses_dio \/ b.error
  BY <1>1, <1>2 DEF install, Claims
<1>3. CASE d.uses_dio /\ ~b.error /\ d.dio \in 0..DIO_N_MOD - 1 \ DOMAIN b.disp
  <2>1. Entry(d.dio, d.name, b.disp) \in Tables
    <3>1. d.dio \in 0..DIO_N_MOD - 1
      BY <1>3
    <3>2. d.name \in Names
      BY <1>1
    <3>3. b.disp \in Tables
      BY <1>b
    <3> HIDE DEF d
    <3> QED  BY <3>1, <3>2, <3>3, Extended, Zenon
  <2>2. install(b, d) = [disp |-> Entry(d.dio, d.name, b.disp), error |-> FALSE]
    <3>1. ~(d.dio >= DIO_N_MOD \/ d.dio \in DOMAIN b.disp)
      BY <1>1, <1>3
    <3> HIDE DEF d
    <3> QED  BY <1>b, <1>3, <3>1 DEF install
  <2> QED  BY <2>1, <2>2, <1>3 DEF Built, Claims
<1>4. CASE d.uses_dio /\ ~b.error /\ d.dio \notin 0..DIO_N_MOD - 1 \ DOMAIN b.disp
  <2>1. install(b, d) = [disp |-> b.disp, error |-> TRUE]
    <3>1. d.dio >= DIO_N_MOD \/ d.dio \in DOMAIN b.disp
      BY <1>1, <1>4
    <3> HIDE DEF d
    <3> QED  BY <1>b, <1>4, <3>1 DEF install
  <2> QED  BY <2>1, <1>1, <1>b, <1>4 DEF Built, Claims
<1> QED  BY <1>1, <1>2, <1>3, <1>4

\* What the loop has built after the first i devices.
Installed(k) == Claims(k) /\ \A j \in 1..k : ~Clash(j)

BuiltFrom(b, i) ==
  /\ b \in Built
  /\ b.error <=> \E k \in 1..i : Clash(k)
  /\ \A k \in 1..i : Installed(k) =>
       /\ sim_devices[k].dio \in DOMAIN b.disp
       /\ b.disp[sim_devices[k].dio] = sim_devices[k].name
  /\ \A m \in DOMAIN b.disp :
       \E k \in 1..i : Installed(k) /\ sim_devices[k].dio = m

\* One more device.
LEMMA BuiltFurther ==
  ASSUME sim_devices \in Configurations,
         NEW i \in 0..Len(sim_devices) - 1, NEW b, BuiltFrom(b, i)
  PROVE  BuiltFrom(install(b, sim_devices[i + 1]), i + 1)
<1> DEFINE d == sim_devices[i + 1]
           c == install(b, d)
<1>a. /\ Len(sim_devices) \in Nat /\ i \in Nat /\ i + 1 \in 1..Len(sim_devices)
      /\ 1..i + 1 = (1..i) \cup {i + 1}
      /\ DIO_N_MOD \in Nat
      /\ \A k \in 1..i + 1 : sim_devices[k].dio \in Nat
  BY Devices, TableSize
<1>b. /\ b \in Built
      /\ b.error <=> \E k \in 1..i : Clash(k)
      /\ \A k \in 1..i : Installed(k) =>
           /\ sim_devices[k].dio \in DOMAIN b.disp
           /\ b.disp[sim_devices[k].dio] = sim_devices[k].name
      /\ \A m \in DOMAIN b.disp :
           \E k \in 1..i : Installed(k) /\ sim_devices[k].dio = m
  BY DEF BuiltFrom
<1>c. c \in Built
  BY <1>a, <1>b, Install
<1> SUFFICES /\ c.error <=> \E k \in 1..i + 1 : Clash(k)
             /\ \A k \in 1..i + 1 : Installed(k) =>
                  /\ sim_devices[k].dio \in DOMAIN c.disp
                  /\ c.disp[sim_devices[k].dio] = sim_devices[k].name
             /\ \A m \in DOMAIN c.disp :
                  \E k \in 1..i + 1 : Installed(k) /\ sim_devices[k].dio = m
  BY <1>c DEF BuiltFrom
<1>1. CASE ~Claims(i + 1) \/ b.error
  <2>1. c = b
    BY <1>a, <1>b, <1>1, Install
  <2>2. ~Installed(i + 1)
    <3>1. CASE ~Claims(i + 1)
      BY <3>1 DEF Installed
    <3>2. CASE b.error
      BY <3>2, <1>a, <1>b DEF Installed
    <3> QED  BY <3>1, <3>2, <1>1
  <2>3. Clash(i + 1) => b.error
    BY <1>1 DEF Clash
  <2> HIDE DEF c
  <2> QED  BY <2>1, <2>2, <2>3, <1>a, <1>b
<1>2. CASE Claims(i + 1) /\ ~b.error
  <2>1. \A k \in 1..i : ~Clash(k) /\ (Claims(k) <=> Installed(k))
    BY <1>a, <1>b, <1>2 DEF Installed
  <2>2. Clash(i + 1) <=> d.dio \notin 0..DIO_N_MOD - 1 \ DOMAIN b.disp
    <3>1. d.dio \in DOMAIN b.disp
            <=> \E j \in 1..i : Claims(j) /\ sim_devices[j].dio = d.dio
      BY <1>b, <2>1
    <3>2. Clash(i + 1) <=> (d.dio >= DIO_N_MOD \/ d.dio \in DOMAIN b.disp)
      BY <1>a, <1>2, <3>1 DEF Clash
    <3>3. d.dio \in Nat
      BY <1>a
    <3> HIDE DEF d
    <3> QED  BY <1>a, <3>2, <3>3
  <2>3. CASE Clash(i + 1)
    <3>1. c = [disp |-> b.disp, error |-> TRUE]
      BY <1>a, <1>b, <1>2, <2>2, <2>3, Install
    <3>2. ~Installed(i + 1)
      BY <2>3, <1>a DEF Installed
    <3> HIDE DEF c
    <3> QED  BY <3>1, <3>2, <2>3, <1>a, <1>b
  <2>4. CASE ~Clash(i + 1)
    <3>1. c = [disp |-> Entry(d.dio, d.name, b.disp), error |-> FALSE]
          /\ d.dio \in 0..DIO_N_MOD - 1 \ DOMAIN b.disp
      BY <1>a, <1>b, <1>2, <2>2, <2>4, Install
    <3>2. Installed(i + 1)
      BY <2>1, <2>4, <1>a, <1>2 DEF Installed
    <3>3. /\ DOMAIN c.disp = DOMAIN b.disp \cup {d.dio}
          /\ \A m \in DOMAIN c.disp :
               c.disp[m] = IF m = d.dio THEN d.name ELSE b.disp[m]
          /\ c.error = FALSE
      <4>1. c.error = FALSE /\ c.disp = Entry(d.dio, d.name, b.disp)
        BY <3>1
      <4> HIDE DEF c, d
      <4>2. /\ DOMAIN Entry(d.dio, d.name, b.disp) = DOMAIN b.disp \cup {d.dio}
            /\ \A m \in DOMAIN b.disp \cup {d.dio} :
                 Entry(d.dio, d.name, b.disp)[m]
                   = IF m = d.dio THEN d.name ELSE b.disp[m]
        BY DEF Entry
      <4> QED  BY <4>1, <4>2
    <3> HIDE DEF c
    <3>4. c.error <=> \E k \in 1..i + 1 : Clash(k)
      BY <3>3, <2>1, <2>4, <1>a
    <3>5. ASSUME NEW k \in 1..i + 1, Installed(k)
          PROVE  /\ sim_devices[k].dio \in DOMAIN c.disp
                 /\ c.disp[sim_devices[k].dio] = sim_devices[k].name
      <4>1. CASE k \in 1..i
        <5>1. /\ sim_devices[k].dio \in DOMAIN b.disp
              /\ b.disp[sim_devices[k].dio] = sim_devices[k].name
          BY <3>5, <4>1, <1>b
        <5> HIDE DEF d
        <5> QED  BY <5>1, <3>1, <3>3
      <4>2. CASE k = i + 1
        BY <4>2, <3>3
      <4> QED  BY <4>1, <4>2, <1>a
    <3>6. ASSUME NEW m \in DOMAIN c.disp
          PROVE  \E k \in 1..i + 1 : Installed(k) /\ sim_devices[k].dio = m
      BY <3>2, <3>3, <1>a, <1>b
    <3> QED  BY <3>4, <3>5, <3>6
  <2> QED  BY <2>3, <2>4
<1> QED  BY <1>1, <1>2

\* The whole loop.
LEMMA Loop ==
  ASSUME sim_devices \in Configurations
  PROVE  BuiltFrom(io_init(sim_devices), Len(sim_devices))
<1> DEFINE N == Len(sim_devices)
           nothing == [disp |-> <<>>, error |-> FALSE]
           step == [p \in Built \X (1..N) |-> install(p[1], sim_devices[p[2]])]
           IsTable(f) == f = [i \in 0..N |-> IF i = 0 THEN nothing
                                ELSE install(f[i - 1], sim_devices[i])]
           table == CHOOSE f : IsTable(f)
<1>0. N \in Nat
  BY Devices
<1>1. nothing \in Built /\ DOMAIN nothing.disp = {}
  <2>1. DOMAIN <<>> = {}
    OBVIOUS
  <2>2. <<>> = [m \in DOMAIN <<>> |-> <<>>[m]]
    OBVIOUS
  <2>3. <<>> \in Tables
    BY <2>1, <2>2, TableType
  <2> QED  BY <2>1, <2>3 DEF Built
<1>2. step \in [Built \X (1..N) -> Built]
  BY Install
<1>3. \E f : IsTable(f)
  <2>0. PICK f : Follows(f, Built, nothing, step, N)
    <3>1. nothing \in Built /\ step \in Steps(Built, N)
      BY <1>1, <1>2 DEF Steps
    <3> HIDE DEF nothing, step, N
    <3> QED  BY <1>0, <3>1, Recursion
  <2>1. /\ f \in [0..N -> Built]
        /\ f[0] = nothing
        /\ \A i \in 1..N : f[i] = step[<<f[i - 1], i>>]
    <3> HIDE DEF nothing, step, N
    <3> QED  BY <2>0 DEF Follows
  <2>2. \A i \in 1..N : f[i] = install(f[i - 1], sim_devices[i])
    <3> TAKE i \in 1..N
    <3>1. f[i - 1] \in Built
      <4> HIDE DEF N
      <4> QED  BY <1>0, <2>1
    <3>2. step[<<f[i - 1], i>>] = install(f[i - 1], sim_devices[i])
      BY <3>1
    <3> HIDE DEF step, N
    <3> QED  BY <2>1, <3>2
  <2>3. IsTable(f)
    <3> HIDE DEF nothing, N
    <3> QED  BY <1>0, <2>1, <2>2
  <2> QED  BY <2>3
<1>4. /\ table[0] = nothing
      /\ \A i \in 0..N - 1 : table[i + 1] = install(table[i], sim_devices[i + 1])
  <2>1. table = [i \in 0..N |-> IF i = 0 THEN nothing
                                ELSE install(table[i - 1], sim_devices[i])]
    <3> HIDE DEF nothing
    <3> QED  BY <1>3
  <2> HIDE DEF nothing, table, N
  <2> QED  BY <2>1, <1>0
<1>5. io_init(sim_devices) = table[N]
  BY DEF io_init
<1> DEFINE Good == {i \in 0..N : BuiltFrom(table[i], i)}
<1> HIDE DEF table, N
<1>6. 0 \in Good
  BY <1>0, <1>1, <1>4 DEF BuiltFrom
<1>7. ASSUME NEW i \in 0..N - 1, i \in Good PROVE i + 1 \in Good
  BY <1>0, <1>4, <1>7, BuiltFurther DEF N
<1>8. N \in Good
  <2> HIDE DEF Good
  <2> QED  BY <1>0, <1>6, <1>7, RangeInduction
<1> QED  BY <1>5, <1>8 DEF N
----------------------------------------------------------------------------
(* The specification. *)

\* A mode has 8 bits.
LEMMA Modes == \A e \in Es : DIO_GET_ADDR(e) \in 0..255
<1> TAKE e \in Es
<1>1. e \in Nat
  BY ProgramsAssumption
<1>2. (e \div 512) % 16 \in 0..15 /\ e % 16 \in 0..15
  BY <1>1
<1> QED  BY <1>2 DEF DIO_GET_ADDR

\* What a reset leaves.
LEMMA AfterReset ==
  ASSUME sim_devices \in Configurations, Reset
  PROVE  /\ sim_devices' = sim_devices
         /\ last' = last
         /\ reset_status' \in {"SCPE_OK", "SCPE_IERR"}
         /\ BuiltFrom([disp |-> dio_disp', error |-> reset_status' = "SCPE_IERR"],
                      Len(sim_devices))
<1> DEFINE b == io_init(sim_devices)
<1>1. BuiltFrom(b, Len(sim_devices))
  BY Loop
<1>2. b.error \in BOOLEAN /\ b = [disp |-> b.disp, error |-> b.error]
  <2> HIDE DEF b
  <2> QED  BY <1>1 DEF BuiltFrom, Built
<1>3. /\ dio_disp' = b.disp
      /\ reset_status' = IF b.error THEN "SCPE_IERR" ELSE "SCPE_OK"
      /\ sim_devices' = sim_devices
      /\ last' = last
  BY DEF Reset
<1> HIDE DEF b
<1>4. b = [disp |-> dio_disp', error |-> reset_status' = "SCPE_IERR"]
  <2>1. b.error <=> reset_status' = "SCPE_IERR"
    BY <1>3
  <2> QED  BY <1>2, <1>3, <2>1
<1> QED  BY <1>1, <1>3, <1>4

\* The table names only devices of the list, and only a mode that it has no
\* place for finds something else (io_init, io_rwd, DIO_GET_ADDR).
THEOREM TypeCorrect == Spec => []TypeOK
<1>1. Init => TypeOK
  BY DEF Init, TypeOK, Nothing, Unknown
<1>2. TypeOK /\ [Next]_vars => TypeOK'
  <2> SUFFICES ASSUME TypeOK, [Next]_vars PROVE TypeOK'
    OBVIOUS
  <2>1. ASSUME Reset PROVE TypeOK'
    <3>1. dio_disp' \in Tables /\ Names' = Names
      BY <2>1, AfterReset DEF TypeOK, BuiltFrom, Built, Names
    <3>2. /\ DOMAIN dio_disp' \subseteq 0..DIO_N_MOD - 1
          /\ \A m \in DOMAIN dio_disp' : dio_disp'[m] \in Names
      BY <3>1, TableType
    <3> QED  BY <2>1, <3>1, <3>2, AfterReset DEF TypeOK
  <2>2. ASSUME NEW e \in Es, NEW inst \in {"RD", "WD"}, io_rwd(e, inst)
        PROVE  TypeOK'
    <3> DEFINE mode == DIO_GET_ADDR(e)
    <3>1. mode \in 0..255
      BY Modes
    <3>2. Names' = Names /\ UNCHANGED <<sim_devices, dio_disp, reset_status>>
      BY <2>2 DEF io_rwd, Names
    <3>3. /\ last'.mode = mode
          /\ last'.handler \in Found(mode)
          /\ last'.result \in {"TRAP_ES", "undefined", "SCPE_OK", "SCPE_IOERR"}
      <4> HIDE DEF mode
      <4> QED  BY <2>2 DEF io_rwd, mode
    <3>4. /\ last'.handler \in Names \cup {Nothing, Unknown}
          /\ last'.handler = Unknown => mode >= DIO_N_MOD
      <4> HIDE DEF mode
      <4>1. CASE mode \in DOMAIN dio_disp
        <5>1. last'.handler = dio_disp[mode] /\ dio_disp[mode] \in Names
          BY <3>3, <4>1 DEF Found, TypeOK
        <5>2. dio_disp[mode] # Unknown
          BY <5>1, Devices DEF TypeOK
        <5> QED  BY <5>1, <5>2
      <4>2. CASE mode \notin DOMAIN dio_disp
        <5>1. /\ last'.handler \in {Nothing, Unknown}
              /\ mode < DIO_N_MOD => last'.handler = Nothing
          BY <3>3, <4>2 DEF Found
        <5>2. ~(mode < DIO_N_MOD) => mode >= DIO_N_MOD
          BY <3>1, ModesAssumption
        <5>3. Nothing # Unknown
          BY DEF Nothing, Unknown
        <5> QED  BY <5>1, <5>2, <5>3
      <4> QED  BY <4>1, <4>2
    <3> HIDE DEF mode
    <3> QED  BY <3>1, <3>2, <3>3, <3>4 DEF TypeOK
  <2>3. CASE UNCHANGED vars
    BY <2>3 DEF vars, TypeOK, Names
  <2> QED  BY <2>1, <2>2, <2>3 DEF Next
<1> QED  BY <1>1, <1>2, PTL DEF Spec

\* After every reset the table is the configuration up to its first clash,
\* whatever the devices and however many (io_init).
THEOREM TableFollowsConfiguration == Spec => []TableIsConfiguration
<1>1. Init => TableIsConfiguration
  BY DEF Init, TableIsConfiguration
<1>2. TypeOK /\ TableIsConfiguration /\ [Next]_vars => TableIsConfiguration'
  <2> SUFFICES ASSUME TypeOK, TableIsConfiguration, [Next]_vars
               PROVE  TableIsConfiguration'
    OBVIOUS
  <2>1. ASSUME sim_devices' = sim_devices
        PROVE  \A i : Claims(i)' = Claims(i) /\ Clash(i)' = Clash(i)
    BY <2>1 DEF Claims, Clash
  <2>2. ASSUME Reset PROVE TableIsConfiguration'
    <3>1. DOMAIN sim_devices = 1..Len(sim_devices)
      BY Devices DEF TypeOK
    <3> DEFINE b == [disp |-> dio_disp', error |-> reset_status' = "SCPE_IERR"]
    <3>2. sim_devices' = sim_devices /\ BuiltFrom(b, Len(sim_devices))
      BY <2>2, AfterReset DEF TypeOK
    <3>3. /\ reset_status' = "SCPE_IERR"
               <=> \E i \in DOMAIN sim_devices : Clash(i)
          /\ \A i \in DOMAIN sim_devices :
               Claims(i) /\ (\A j \in 1..i : ~Clash(j)) =>
                 /\ sim_devices[i].dio \in DOMAIN dio_disp'
                 /\ dio_disp'[sim_devices[i].dio] = sim_devices[i].name
          /\ \A m \in DOMAIN dio_disp' :
               \E i \in DOMAIN sim_devices :
                 /\ Claims(i)
                 /\ sim_devices[i].dio = m
                 /\ \A j \in 1..i : ~Clash(j)
      BY <3>1, <3>2 DEF BuiltFrom, Installed
    <3> QED  BY <2>1, <3>2, <3>3 DEF TableIsConfiguration
  <2>3. ASSUME UNCHANGED <<sim_devices, dio_disp, reset_status>>
        PROVE  TableIsConfiguration'
    BY <2>1, <2>3 DEF TableIsConfiguration
  <2> QED  BY <2>2, <2>3 DEF Next, io_rwd, vars
<1> QED  BY <1>1, <1>2, TypeCorrect, PTL DEF Spec

=============================================================================
