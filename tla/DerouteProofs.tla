--------------------------- MODULE DerouteProofs ---------------------------
(* Theorems about Deroute, for every set of levels, contexts and locks.      *)
EXTENDS Deroute, TLAPS

\* The level get_highest_interrupt returns has a request.
LEMMA HighestIsRequested ==
  ASSUME NEW MA, NEW requests, NEW l \in get_highest_interrupt(MA, requests)
  PROVE  l \in requests
BY DEF get_highest_interrupt

\* A trap leaves indicators, a frame and a culprit of the right types.
LEMMA TrapType ==
  ASSUME TypeOK, NEW by \in Level \cup {Nobody}, NEW raised \in BOOLEAN,
         mitra_trap(by, raised)
  PROVE  /\ ind' \in Indicators
         /\ frame' \in Level \cup {Nobody}
         /\ faulter' \in Level \cup {Nobody}
         /\ trp_req' \in BOOLEAN
BY DEF TypeOK, mitra_trap, Supervisor, Indicators

\* The save areas keep their type, and the two parts a locked word keeps come
\* from the area itself.
LEMMA SavedContext ==
  ASSUME TypeOK, NEW l \in Level
  PROVE  /\ SaveContext(l) \in [Level -> Context]
         /\ \A m \in Level \ {l} : SaveContext(l)[m] = ctx[m]
         /\ SaveContext(l)[l].ind \in {ctx[l].ind, ind}
         /\ SaveContext(l)[l].task \in {ctx[l].task, task}
<1> DEFINE kept == Dropped({l} \X Part)
           saved == [ind  |-> IF <<l, "ind">> \in kept THEN ctx[l].ind ELSE ind,
                     task |-> IF <<l, "regs">> \in kept
                                THEN ctx[l].task ELSE task]
<1>1. SaveContext(l) = [ctx EXCEPT ![l] = saved]
  BY DEF SaveContext
<1>2. ctx[l] \in Context /\ ind \in Indicators /\ task \in Level
  BY DEF TypeOK
<1>3. saved \in Context /\ saved.ind \in {ctx[l].ind, ind}
                        /\ saved.task \in {ctx[l].task, task}
  <2> HIDE DEF kept
  <2> QED  BY <1>2 DEF Context
<1> HIDE DEF saved
<1> QED  BY <1>1, <1>3 DEF TypeOK

LEMMA ZeroIsLevel == 0 \in Level
BY LevelsAssumption DEF Level

LEMMA MasterIsIndicators == Master \in Indicators
BY DEF Master, Indicators

LEMMA InitType == Init => TypeOK
<1> SUFFICES ASSUME Init PROVE TypeOK
  OBVIOUS
<1>1. 0 \in Level
  BY ZeroIsLevel
<1>2. reg_8 \in {2 * l : l \in Level}
  BY <1>1 DEF Init
<1>3. ctx \in [Level -> Context]
  BY ImageAssumption DEF Init, Context
<1> QED  BY <1>1, <1>2, <1>3, MasterIsIndicators, ImageAssumption
            DEF Init, TypeOK

LEMMA StepType == TypeOK /\ [Next]_vars => TypeOK'
<1> SUFFICES ASSUME TypeOK, [Next]_vars PROVE TypeOK'
  OBVIOUS
<1> USE DEF TypeOK
<1>1. CASE PendingTrap
  <2>1. mitra_trap(Nobody, TRUE)
    BY <1>1 DEF PendingTrap
  <2> QED  BY <1>1, <2>1, TrapType DEF PendingTrap, StopUnless
<1>2. CASE AcceptInterrupt
  <2>1. PICK h \in Level : Acceptable(h) /\
            (IF Dispatchable(h)
               THEN /\ ctx' = SaveContext(curr_int_lvl)
                    /\ trp_req' = (Dropped({curr_int_lvl} \X Part) # {})
                    /\ curr_int_lvl' = h
                    /\ LoadContext(ctx[h])
                    /\ intrpt_pending' = intrpt_pending \ {h}
                    /\ UNCHANGED reason
               ELSE /\ reason' = "stop"
                    /\ UNCHANGED <<curr_int_lvl, intrpt_pending, ind, task,
                                   ctx, trp_req>>)
    BY <1>2 DEF AcceptInterrupt
  <2>2. UNCHANGED <<cds, MP, frame, faulter, reg_8>>
    BY <1>2 DEF AcceptInterrupt
  <2>3. CASE Dispatchable(h)
    <3>1. ctx' \in [Level -> Context]
      BY <2>1, <2>3, SavedContext
    <3>2. ctx[h] \in Context
      OBVIOUS
    <3>3. ind' \in Indicators /\ task' \in Level
      BY <2>1, <2>3, <3>2 DEF LoadContext, Context
    <3>4. trp_req' \in BOOLEAN /\ curr_int_lvl' \in Level
          /\ intrpt_pending' \subseteq DeviceLevels /\ UNCHANGED reason
      BY <2>1, <2>3
    <3> QED  BY <2>2, <3>1, <3>3, <3>4
  <2>4. CASE ~Dispatchable(h)
    BY <2>1, <2>2, <2>4
  <2> QED  BY <2>3, <2>4
<1>3. CASE SetMask
  BY <1>3 DEF SetMask, Indicators
<1>4. CASE ClearMask
  BY <1>4 DEF ClearMask, Indicators
<1>5. ASSUME NEW inst \in {"DIT", "DITR"}, Deactivate(inst) PROVE TypeOK'
  <2>0. UNCHANGED <<intrpt_pending, ctx, cds, MP, trp_req, frame, faulter,
                    reg_8>>
    BY <1>5 DEF Deactivate
  <2>1. reason' \in {"run", "stop"}
    BY <1>5 DEF Deactivate
  <2>2. 0 \in Level
    BY ZeroIsLevel
  <2>3. DeviceLevels \subseteq Level
    BY LevelsAssumption
  <2>4. cpt_lookup(curr_int_lvl) => PointerWord[curr_int_lvl] \in Indicators
    BY PointerAssumption DEF cpt_lookup
  <2>5. curr_int_lvl' \in Level
    BY <1>5, <2>2, <2>3, HighestIsRequested DEF Deactivate
  <2>6. ind' \in Indicators /\ task' \in Level
    <3>1. CASE ind' = ind /\ task' = task
      BY <3>1
    <3>2. CASE cpt_lookup(curr_int_lvl) /\ ind' = PointerWord[curr_int_lvl]
               /\ task' = task
      BY <3>2, <2>4
    <3>3. CASE cpt_lookup(curr_int_lvl) /\ task' = task
               /\ ind' = [PointerWord[curr_int_lvl] EXCEPT !.MA = FALSE]
      BY <3>3, <2>4 DEF Indicators
    <3>4. CASE LoadContext(ctx[curr_int_lvl'])
      BY <3>4, <2>5 DEF LoadContext, Context
    <3> QED  BY <1>5, <3>1, <3>2, <3>3, <3>4 DEF Deactivate
  <2> QED  BY <2>0, <2>1, <2>5, <2>6
<1>6. CASE InstructionTrap
  <2>1. mitra_trap(task, FALSE)
    BY <1>6 DEF InstructionTrap
  <2> QED  BY <1>6, <2>1, TrapType DEF InstructionTrap, StopUnless
<1>7. CASE CallNoSection
  <2>1. mitra_trap(task, FALSE)
    BY <1>7 DEF CallNoSection
  <2> QED  BY <1>7, <2>1, TrapType DEF CallNoSection, StopUnless
<1>8. CASE CallSupervisor
  BY <1>8 DEF CallSupervisor, Indicators
<1>9. CASE ReturnFromSupervisor
  BY <1>9 DEF ReturnFromSupervisor
<1>10. ASSUME NEW w \in Lockable, LoadProtection(w) PROVE TypeOK'
  BY <1>10 DEF LoadProtection
<1>11. CASE ProtectedStore
  <2>1. mitra_trap(task, TRUE)
    BY <1>11 DEF ProtectedStore
  <2> QED  BY <1>11, <2>1, TrapType DEF ProtectedStore, StopUnless
<1>12. ASSUME NEW w \in Lockable, TestAndSet(w) PROVE TypeOK'
  <2>1. MP' \subseteq Lockable /\
        UNCHANGED <<curr_int_lvl, intrpt_pending, task, ctx, cds, reg_8>>
    BY <1>12 DEF TestAndSet
  <2>2. CASE UNCHANGED <<ind, trp_req, frame, faulter, reason>>
    BY <2>1, <2>2
  <2>3. CASE mitra_trap(task, TRUE) /\ StopUnless(PrtsValid)
    BY <2>1, <2>3, TrapType DEF StopUnless
  <2> QED  BY <1>12, <2>2, <2>3 DEF TestAndSet
<1>13. ASSUME NEW l \in DeviceLevels, RaiseInterrupt(l) PROVE TypeOK'
  <2>1. intrpt_pending' \subseteq DeviceLevels
    BY <1>13 DEF RaiseInterrupt
  <2>2. reg_8' \in {2 * m : m \in Level}
    BY <1>13, <2>1, LevelsAssumption, HighestIsRequested
       DEF RaiseInterrupt, io_interrupt_dispatch
  <2> QED  BY <1>13, <2>1, <2>2 DEF RaiseInterrupt
<1>14. CASE ProtectedTransfer
  BY <1>14 DEF ProtectedTransfer
<1>15. CASE OperatorStop
  BY <1>15 DEF OperatorStop
<1>16. CASE Continue
  BY <1>16 DEF Continue
<1>17. CASE Reset
  BY <1>17, ZeroIsLevel, MasterIsIndicators DEF Reset
<1>18. CASE Boot
  <2> DEFINE loaded == [l \in Level |->
        [ind  |-> IF <<l, "ind">> \in Dropped(MP) THEN ctx[l].ind ELSE Image[l],
         task |-> IF <<l, "regs">> \in Dropped(MP) THEN ctx[l].task ELSE l]]
             requests == intrpt_pending \cup {BootLevel}
  <2>1. loaded \in [Level -> Context]
    BY ImageAssumption DEF Context
  <2>2. ctx' = loaded /\ cds' = Image /\ reason' = "run" /\ trp_req' = FALSE
        /\ faulter' = Nobody /\ frame' \in {Nobody, frame} /\ UNCHANGED MP
    BY <1>18 DEF Boot
  <2>3. requests \subseteq DeviceLevels /\ DeviceLevels \subseteq Level
    BY LevelsAssumption
  <2>4. PICK l \in get_highest_interrupt(FALSE, requests) :
            /\ reg_8' = 2 * l
            /\ IF cpt_lookup(l)
                 THEN /\ curr_int_lvl' = l
                      /\ LoadContext(loaded[l])
                      /\ intrpt_pending' = requests \ {l}
                 ELSE /\ curr_int_lvl' = 0
                      /\ ind' = Master
                      /\ task' = 0
                      /\ intrpt_pending' = requests
    BY <1>18 DEF Boot, get_BOOT_ENTRY_ADDR
  <2> HIDE DEF loaded
  <2>5. l \in Level
    BY <2>3, <2>4, HighestIsRequested
  <2>6. ind' \in Indicators /\ task' \in Level /\ curr_int_lvl' \in Level
    BY <2>1, <2>4, <2>5, ZeroIsLevel, MasterIsIndicators DEF LoadContext, Context
  <2>7. intrpt_pending' \subseteq DeviceLevels /\ reg_8' \in {2 * m : m \in Level}
    BY <2>3, <2>4, <2>5
  <2> QED  BY <2>1, <2>2, <2>6, <2>7, ImageAssumption
<1>19. CASE UNCHANGED vars
  BY <1>19 DEF vars
<1> QED
  BY <1>1, <1>2, <1>3, <1>4, <1>5, <1>6, <1>7, <1>8, <1>9, <1>10, <1>11,
     <1>12, <1>13, <1>14, <1>15, <1>16, <1>17, <1>18, <1>19
     DEF Next, Instruction, Event, Operator

\* The variables keep their types: requests come from devices only, and
\* register 8 is always twice some level.
THEOREM TypeCorrect == Spec => []TypeOK
BY InitType, StepType, PTL DEF Spec

----------------------------------------------------------------------------
(* Which program the registers belong to. *)

LEMMA InitOwner == Init => LevelOwnsRegisters
BY LevelsAssumption DEF Init, LevelOwnsRegisters

\* Only a program's own registers are ever saved at its level: the level and
\* the registers change together, and at a level other than 0 that has a
\* context a save can only put back what the area already held.
LEMMA StepOwner ==
  TypeOK /\ LevelOwnsRegisters /\ [Next]_vars => LevelOwnsRegisters'
<1> SUFFICES ASSUME TypeOK, LevelOwnsRegisters, [Next]_vars
             PROVE  LevelOwnsRegisters'
  OBVIOUS
<1>a. ASSUME UNCHANGED <<curr_int_lvl, task, ctx>> PROVE LevelOwnsRegisters'
  BY <1>a DEF LevelOwnsRegisters
<1>1. CASE AcceptInterrupt
  <2>1. CASE UNCHANGED <<curr_int_lvl, task, ctx>>
    BY <1>a, <2>1
  <2>2. ASSUME NEW h \in Level, Dispatchable(h), Acceptable(h),
               ctx' = SaveContext(curr_int_lvl), curr_int_lvl' = h,
               LoadContext(ctx[h])
        PROVE  LevelOwnsRegisters'
    <3>1. curr_int_lvl \in Level /\ h \in Level /\ h \in Connected
      BY <2>2 DEF TypeOK, Dispatchable, cpt_lookup
    <3>2. curr_int_lvl' \in Connected \ {0} => task' = curr_int_lvl'
      BY <2>2, <3>1 DEF LevelOwnsRegisters, LoadContext
    <3>3. ASSUME NEW l \in Connected \ {0} PROVE ctx'[l].task = l
      <4>1. l \in Level /\ ctx[l].task = l
        BY LevelsAssumption DEF LevelOwnsRegisters
      <4>2. CASE l # curr_int_lvl
        BY <2>2, <3>1, <4>1, <4>2, SavedContext
      <4>3. CASE l = curr_int_lvl
        <5>1. task = l
          BY <4>3 DEF LevelOwnsRegisters
        <5> QED  BY <2>2, <4>1, <4>3, <5>1, SavedContext
      <4> QED  BY <4>2, <4>3
    <3> QED  BY <3>2, <3>3 DEF LevelOwnsRegisters
  <2> QED  BY <1>1, <2>1, <2>2 DEF AcceptInterrupt
<1>2. ASSUME NEW inst \in {"DIT", "DITR"}, Deactivate(inst)
      PROVE  LevelOwnsRegisters'
  <2>1. ctx' = ctx
    BY <1>2 DEF Deactivate
  <2>2. curr_int_lvl' \in Connected \ {0} => task' = curr_int_lvl'
    BY <1>2 DEF Deactivate, LevelOwnsRegisters, LoadContext, cpt_lookup
  <2> QED  BY <2>1, <2>2 DEF LevelOwnsRegisters
<1>3. CASE Reset
  BY <1>3 DEF Reset, LevelOwnsRegisters
<1>4. CASE Boot
  <2> DEFINE loaded == [l \in Level |->
        [ind  |-> IF <<l, "ind">> \in Dropped(MP) THEN ctx[l].ind ELSE Image[l],
         task |-> IF <<l, "regs">> \in Dropped(MP) THEN ctx[l].task ELSE l]]
  <2>1. ctx' = loaded
    BY <1>4 DEF Boot
  <2>2. \/ curr_int_lvl' = 0
        \/ \E l \in Level : cpt_lookup(l) /\ curr_int_lvl' = l
                             /\ LoadContext(loaded[l])
    <3> HIDE DEF loaded
    <3>1. PICK l \in get_highest_interrupt(FALSE, intrpt_pending \cup {BootLevel}) :
            IF cpt_lookup(l) THEN curr_int_lvl' = l /\ LoadContext(loaded[l])
            ELSE curr_int_lvl' = 0
      BY <1>4 DEF Boot, get_BOOT_ENTRY_ADDR, loaded
    <3>2. l \in intrpt_pending \cup {BootLevel}
      BY HighestIsRequested
    <3>3. l \in Level
      BY <3>2, LevelsAssumption DEF TypeOK
    <3> QED  BY <3>1, <3>3
  <2>3. \A l \in Connected \ {0} : loaded[l].task = l
    BY LevelsAssumption DEF LevelOwnsRegisters
  <2> HIDE DEF loaded
  <2> QED  BY <2>1, <2>2, <2>3 DEF LevelOwnsRegisters, LoadContext, cpt_lookup
<1>5. CASE UNCHANGED vars
  BY <1>5, <1>a DEF vars
<1> QED
  BY <1>a, <1>1, <1>2, <1>3, <1>4, <1>5
     DEF Next, Instruction, Event, Operator, PendingTrap, SetMask, ClearMask,
         InstructionTrap, CallNoSection, CallSupervisor, ReturnFromSupervisor,
         LoadProtection, ProtectedStore, TestAndSet, RaiseInterrupt,
         ProtectedTransfer, OperatorStop, Continue

\* A level other than 0 that has a context runs its own program, and only ever
\* saves that program: with any number of levels, any locks, any traps.
THEOREM OwnRegisters == Spec => []LevelOwnsRegisters
<1>1. TypeOK /\ LevelOwnsRegisters /\ [Next]_vars
        => (TypeOK /\ LevelOwnsRegisters)'
  BY StepType, StepOwner
<1> QED  BY <1>1, InitType, InitOwner, PTL DEF Spec

----------------------------------------------------------------------------
(* Who holds the key. *)

LEMMA InitKey == Init => KeyNeedsMaster
BY ImageAssumption DEF Init, KeyNeedsMaster, Master

LEMMA StepKey == TypeOK /\ KeyNeedsMaster /\ [Next]_vars => KeyNeedsMaster'
<1> SUFFICES ASSUME TypeOK, KeyNeedsMaster, [Next]_vars PROVE KeyNeedsMaster'
  OBVIOUS
<1>a. ASSUME UNCHANGED <<ctx, cds>>, ind'.PR => ind'.MS PROVE KeyNeedsMaster'
  BY <1>a DEF KeyNeedsMaster
<1>b. ASSUME NEW by, NEW raised, mitra_trap(by, raised) PROVE ind'.PR => ind'.MS
  BY <1>b DEF mitra_trap, Supervisor, KeyNeedsMaster
<1>1. CASE AcceptInterrupt
  <2>1. cds' = cds
    BY <1>1 DEF AcceptInterrupt
  <2>2. CASE UNCHANGED <<ctx, ind>>
    BY <1>a, <2>1, <2>2 DEF KeyNeedsMaster
  <2>3. ASSUME NEW h \in Level, ctx' = SaveContext(curr_int_lvl),
               LoadContext(ctx[h])
        PROVE  KeyNeedsMaster'
    <3>1. ind'.PR => ind'.MS
      BY <2>3 DEF LoadContext, KeyNeedsMaster
    <3>2. ASSUME NEW l \in Level PROVE ctx'[l].ind.PR => ctx'[l].ind.MS
      <4>1. ctx'[l].ind \in {ctx[l].ind, ind}
        BY <2>3, SavedContext DEF TypeOK
      <4> QED  BY <4>1 DEF KeyNeedsMaster
    <3> QED  BY <2>1, <3>1, <3>2 DEF KeyNeedsMaster
  <2> QED  BY <1>1, <2>2, <2>3 DEF AcceptInterrupt
<1>2. ASSUME NEW inst \in {"DIT", "DITR"}, Deactivate(inst)
      PROVE  KeyNeedsMaster'
  <2>1. UNCHANGED <<ctx, cds>>
    BY <1>2 DEF Deactivate
  <2>2. cpt_lookup(curr_int_lvl) =>
          /\ PointerWord[curr_int_lvl] \in Indicators
          /\ ~PointerWord[curr_int_lvl].PR
    BY PointerAssumption DEF cpt_lookup
  <2>3. CASE ind' = ind
    BY <1>a, <2>1, <2>3 DEF KeyNeedsMaster
  <2>4. CASE cpt_lookup(curr_int_lvl) /\ ind' = PointerWord[curr_int_lvl]
    BY <1>a, <2>1, <2>2, <2>4
  <2>5. CASE /\ cpt_lookup(curr_int_lvl)
             /\ ind' = [PointerWord[curr_int_lvl] EXCEPT !.MA = FALSE]
    BY <1>a, <2>1, <2>2, <2>5 DEF Indicators
  <2>6. CASE \E l \in Connected : LoadContext(ctx[l])
    <3>1. Connected \subseteq Level
      BY LevelsAssumption
    <3> QED  BY <1>a, <2>1, <2>6, <3>1 DEF LoadContext, KeyNeedsMaster
  <2> QED  BY <1>2, <2>3, <2>4, <2>5, <2>6 DEF Deactivate, cpt_lookup
<1>3. CASE SetMask
  BY <1>3, <1>a DEF SetMask, KeyNeedsMaster, TypeOK, Indicators
<1>4. CASE ClearMask
  BY <1>4, <1>a DEF ClearMask, KeyNeedsMaster, TypeOK, Indicators
<1>5. CASE CallSupervisor
  <2>1. ind' = [ind EXCEPT !.MS = TRUE, !.PR = TRUE]
        /\ cds' = [cds EXCEPT ![task] = ind] /\ ctx' = ctx
    BY <1>5 DEF CallSupervisor
  <2>2. \A l \in Level : cds'[l] \in {cds[l], ind}
    BY <2>1 DEF TypeOK
  <2>3. ind'.MS
    BY <2>1 DEF TypeOK, Indicators
  <2> QED  BY <2>1, <2>2, <2>3 DEF KeyNeedsMaster
<1>6. CASE ReturnFromSupervisor
  BY <1>6, <1>a DEF ReturnFromSupervisor, KeyNeedsMaster, TypeOK
<1>7. CASE PendingTrap \/ InstructionTrap \/ CallNoSection \/ ProtectedStore
  BY <1>7, <1>a, <1>b
     DEF PendingTrap, InstructionTrap, CallNoSection, ProtectedStore
<1>8. ASSUME NEW w \in Lockable, TestAndSet(w) PROVE KeyNeedsMaster'
  BY <1>8, <1>a, <1>b DEF TestAndSet, KeyNeedsMaster
<1>9. CASE Reset
  BY <1>9, <1>a DEF Reset, Master
<1>10. CASE Boot
  <2> DEFINE loaded == [l \in Level |->
        [ind  |-> IF <<l, "ind">> \in Dropped(MP) THEN ctx[l].ind ELSE Image[l],
         task |-> IF <<l, "regs">> \in Dropped(MP) THEN ctx[l].task ELSE l]]
  <2>1. ctx' = loaded /\ cds' = Image
    BY <1>10 DEF Boot
  <2>2. \A l \in Level : loaded[l].ind \in {ctx[l].ind, Image[l]}
    OBVIOUS
  <2> HIDE DEF loaded
  <2>3. PICK l \in get_highest_interrupt(FALSE, intrpt_pending \cup {BootLevel}) :
            LoadContext(loaded[l]) \/ ind' = Master
    BY <1>10 DEF Boot, get_BOOT_ENTRY_ADDR, loaded
  <2>4. l \in intrpt_pending \cup {BootLevel}
    BY HighestIsRequested
  <2>5. l \in Level
    BY <2>4, LevelsAssumption DEF TypeOK
  <2>6. ind' \in {ctx[l].ind, Image[l], Master}
    BY <2>2, <2>3, <2>5 DEF LoadContext
  <2>7. ind'.PR => ind'.MS
    BY <2>5, <2>6, ImageAssumption DEF KeyNeedsMaster, Master
  <2>8. \A m \in Level : ctx'[m].ind.PR => ctx'[m].ind.MS
    BY <2>1, <2>2, ImageAssumption DEF KeyNeedsMaster
  <2> QED  BY <2>1, <2>7, <2>8, ImageAssumption DEF KeyNeedsMaster
<1>11. CASE UNCHANGED <<ind, ctx, cds>>
  BY <1>11, <1>a DEF KeyNeedsMaster
<1> QED
  BY <1>1, <1>2, <1>3, <1>4, <1>5, <1>6, <1>7, <1>8, <1>9, <1>10, <1>11
     DEF Next, Instruction, Event, Operator, LoadProtection, RaiseInterrupt,
         ProtectedTransfer, OperatorStop, Continue, vars

\* The key is only ever held in master mode, wherever indicators are kept.
\* It rests on the context pointers being less than 32768, for DIT loads the
\* pointer itself as indicators.
THEOREM KeyHeldInMaster == Spec => []KeyNeedsMaster
<1>1. TypeOK /\ KeyNeedsMaster /\ [Next]_vars => (TypeOK /\ KeyNeedsMaster)'
  BY StepType, StepKey
<1> QED  BY <1>1, InitType, InitKey, PTL DEF Spec

----------------------------------------------------------------------------
(* What a step may not do. *)

\* What Boot does to the level, the program and the requests.
LEMMA BootStep ==
  ASSUME TypeOK, LevelOwnsRegisters, Boot
  PROVE  \E l \in get_highest_interrupt(FALSE, intrpt_pending \cup {BootLevel}) :
           /\ l \in Level \ {0}
           /\ \/ /\ l \in Connected
                 /\ curr_int_lvl' = l
                 /\ task' = l
                 /\ intrpt_pending' = (intrpt_pending \cup {BootLevel}) \ {l}
              \/ /\ l \notin Connected
                 /\ curr_int_lvl' = 0
                 /\ task' = 0
                 /\ intrpt_pending' = intrpt_pending \cup {BootLevel}
<1> DEFINE loaded == [l \in Level |->
      [ind  |-> IF <<l, "ind">> \in Dropped(MP) THEN ctx[l].ind ELSE Image[l],
       task |-> IF <<l, "regs">> \in Dropped(MP) THEN ctx[l].task ELSE l]]
<1>1. \A l \in Connected \ {0} : loaded[l].task = l
  BY LevelsAssumption DEF LevelOwnsRegisters
<1> HIDE DEF loaded
<1>2. PICK l \in get_highest_interrupt(FALSE, intrpt_pending \cup {BootLevel}) :
          IF cpt_lookup(l)
            THEN /\ curr_int_lvl' = l
                 /\ LoadContext(loaded[l])
                 /\ intrpt_pending' = (intrpt_pending \cup {BootLevel}) \ {l}
            ELSE /\ curr_int_lvl' = 0
                 /\ task' = 0
                 /\ intrpt_pending' = intrpt_pending \cup {BootLevel}
  BY DEF Boot, get_BOOT_ENTRY_ADDR, loaded
<1>3. l \in intrpt_pending \cup {BootLevel}
  BY HighestIsRequested
<1>4. l \in Level \ {0}
  BY <1>3, LevelsAssumption DEF TypeOK
<1> QED  BY <1>1, <1>2, <1>4 DEF cpt_lookup, LoadContext

\* What AcceptInterrupt does when it succeeds, and otherwise.
LEMMA AcceptStep ==
  ASSUME TypeOK, LevelOwnsRegisters, AcceptInterrupt
  PROVE  \/ UNCHANGED <<curr_int_lvl, intrpt_pending, ind, task, ctx, trp_req>>
         \/ \E h \in get_highest_interrupt(FALSE, intrpt_pending) :
              /\ h \in Connected \ {0}
              /\ curr_int_lvl \in Connected
              /\ h > curr_int_lvl
              /\ curr_int_lvl' = h
              /\ task' = h
              /\ intrpt_pending' = intrpt_pending \ {h}
              /\ ctx' = SaveContext(curr_int_lvl)
              /\ trp_req' = (Dropped({curr_int_lvl} \X Part) # {})
<1>1. PICK h \in Level :
        /\ Acceptable(h)
        /\ IF Dispatchable(h)
             THEN /\ ctx' = SaveContext(curr_int_lvl)
                  /\ trp_req' = (Dropped({curr_int_lvl} \X Part) # {})
                  /\ curr_int_lvl' = h
                  /\ LoadContext(ctx[h])
                  /\ intrpt_pending' = intrpt_pending \ {h}
             ELSE UNCHANGED <<curr_int_lvl, intrpt_pending, ind, task, ctx,
                              trp_req>>
  BY DEF AcceptInterrupt
<1>2. h \in get_highest_interrupt(FALSE, intrpt_pending) /\ h > curr_int_lvl
  BY <1>1 DEF Acceptable, get_highest_interrupt
<1>3. h # 0
  BY <1>2, HighestIsRequested, LevelsAssumption DEF TypeOK
<1> QED
  BY <1>1, <1>2, <1>3
     DEF Dispatchable, cpt_lookup, LoadContext, LevelOwnsRegisters

LEMMA StepRequests ==
  TypeOK /\ LevelOwnsRegisters /\ [Next]_vars =>
    \A l \in intrpt_pending \ intrpt_pending' : curr_int_lvl' = l /\ task' = l
<1> SUFFICES ASSUME TypeOK, LevelOwnsRegisters, [Next]_vars,
                    NEW l \in intrpt_pending, l \notin intrpt_pending'
             PROVE  curr_int_lvl' = l /\ task' = l
  OBVIOUS
<1>1. CASE AcceptInterrupt
  BY <1>1, AcceptStep
<1>2. CASE Boot
  BY <1>2, BootStep
<1>3. CASE \E m \in DeviceLevels : RaiseInterrupt(m)
  BY <1>3 DEF RaiseInterrupt
<1>4. CASE UNCHANGED intrpt_pending
  BY <1>4
<1> QED
  BY <1>1, <1>2, <1>3, <1>4
     DEF Next, Instruction, Event, Operator, PendingTrap, SetMask, ClearMask,
         Deactivate, InstructionTrap, CallNoSection, CallSupervisor,
         ReturnFromSupervisor, LoadProtection, ProtectedStore, TestAndSet,
         ProtectedTransfer, OperatorStop, Continue, Reset, vars

\* A request only disappears when its program gets the processor, or when the
\* operator resets or boots the machine.
THEOREM NoLostRequest == Spec => RequestsNeverLost
<1>1. TypeOK /\ LevelOwnsRegisters /\ [Next]_vars =>
        [~Reset /\ ~Boot =>
           \A l \in intrpt_pending \ intrpt_pending' :
             curr_int_lvl' = l /\ task' = l]_vars
  BY StepRequests
<1> QED
  BY <1>1, TypeCorrect, OwnRegisters, PTL DEF Spec, RequestsNeverLost

LEMMA StepSaved ==
  TypeOK /\ LevelOwnsRegisters /\ [Next]_vars =>
    (Running /\ ~ind.MA /\ curr_int_lvl' > curr_int_lvl =>
       \/ ctx'[curr_int_lvl] = [ind |-> ind, task |-> task]
       \/ trp_req')
<1> SUFFICES ASSUME TypeOK, LevelOwnsRegisters, [Next]_vars,
                    Running, ~ind.MA, curr_int_lvl' > curr_int_lvl
             PROVE  ctx'[curr_int_lvl] = [ind |-> ind, task |-> task] \/ trp_req'
  OBVIOUS
<1>0. ~(curr_int_lvl > curr_int_lvl) /\ ~(0 > curr_int_lvl)
  BY LevelsAssumption DEF TypeOK, Level
<1>1. CASE AcceptInterrupt
  <2>1. /\ ctx' = SaveContext(curr_int_lvl)
        /\ trp_req' = (Dropped({curr_int_lvl} \X Part) # {})
    BY <1>0, <1>1, AcceptStep
  <2>2. CASE Dropped({curr_int_lvl} \X Part) = {}
    BY <2>1, <2>2 DEF SaveContext, TypeOK
  <2>3. CASE Dropped({curr_int_lvl} \X Part) # {}
    BY <2>1, <2>3
  <2> QED  BY <2>2, <2>3
<1>2. ASSUME NEW inst \in {"DIT", "DITR"}, Deactivate(inst) PROVE FALSE
  \* Nothing is acceptable when an instruction is executed, so no request is
  \* above the current level.
  <2>1. PICK l \in get_highest_interrupt(PointerWord[curr_int_lvl].MA,
                                         intrpt_pending) :
          curr_int_lvl' = l
    BY <1>0, <1>2 DEF Deactivate
  <2>2. l \in get_highest_interrupt(ind.MA, intrpt_pending)
    BY DEF get_highest_interrupt
  <2>3. l \in Level
    BY HighestIsRequested, LevelsAssumption DEF TypeOK
  <2> QED  BY <1>2, <2>1, <2>2, <2>3 DEF Deactivate, Executing, Acceptable
<1>3. CASE UNCHANGED curr_int_lvl
  BY <1>0, <1>3
<1>4. CASE Reset \/ Boot
  BY <1>4 DEF Reset, Boot
<1> QED
  BY <1>1, <1>2, <1>3, <1>4
     DEF Next, Instruction, Event, Operator, PendingTrap, SetMask, ClearMask,
         InstructionTrap, CallNoSection, CallSupervisor, RaiseInterrupt,
         ReturnFromSupervisor, LoadProtection, ProtectedStore, TestAndSet,
         ProtectedTransfer, OperatorStop, Continue, vars

\* Preemption saves the whole context or leaves a protection trap pending.
THEOREM ContextLossIsTrapped == Spec => NoSilentContextLoss
<1>1. TypeOK /\ LevelOwnsRegisters /\ [Next]_vars =>
        [Running /\ ~ind.MA /\ curr_int_lvl' > curr_int_lvl =>
           \/ ctx'[curr_int_lvl] = [ind |-> ind, task |-> task]
           \/ trp_req']_vars
  BY StepSaved
<1> QED
  BY <1>1, TypeCorrect, OwnRegisters, PTL DEF Spec, NoSilentContextLoss

LEMMA StepSlave ==
  TypeOK /\ LevelOwnsRegisters /\ [Next]_vars =>
    (Running /\ ~ind.MS =>
       /\ curr_int_lvl' >= curr_int_lvl
       /\ MP' \subseteq MP
       /\ \A l \in Level \ {curr_int_lvl} : ctx'[l] = ctx[l]
       /\ \/ ind' = ind
          \/ ind'.MS /\ ind'.PR
          \/ curr_int_lvl' > curr_int_lvl)
<1> DEFINE Confined ==
      /\ curr_int_lvl' >= curr_int_lvl
      /\ MP' \subseteq MP
      /\ \A l \in Level \ {curr_int_lvl} : ctx'[l] = ctx[l]
      /\ \/ ind' = ind
         \/ ind'.MS /\ ind'.PR
         \/ curr_int_lvl' > curr_int_lvl
<1> SUFFICES ASSUME TypeOK, LevelOwnsRegisters, [Next]_vars, Running, ~ind.MS
             PROVE  Confined
  OBVIOUS
<1>0. curr_int_lvl >= curr_int_lvl
  BY LevelsAssumption DEF TypeOK, Level
<1>1. CASE AcceptInterrupt
  <2>1. MP' = MP
    BY <1>1 DEF AcceptInterrupt
  <2>2. CASE UNCHANGED <<curr_int_lvl, ind, ctx>>
    BY <1>0, <2>1, <2>2
  <2>3. CASE curr_int_lvl' > curr_int_lvl /\ ctx' = SaveContext(curr_int_lvl)
    <3>1. curr_int_lvl \in Int /\ curr_int_lvl' \in Int
      BY StepType, LevelsAssumption DEF TypeOK, Level
    <3>2. \A l \in Level \ {curr_int_lvl} : ctx'[l] = ctx[l]
      BY <2>3, SavedContext DEF TypeOK
    <3>3. curr_int_lvl' >= curr_int_lvl
      BY <2>3, <3>1
    <3> QED  BY <2>1, <2>3, <3>2, <3>3
  <2> QED  BY <1>1, <2>2, <2>3, AcceptStep
<1>2. ASSUME UNCHANGED <<curr_int_lvl, ctx>>, MP' \subseteq MP,
             ind' = ind \/ (ind'.MS /\ ind'.PR)
      PROVE  Confined
  BY <1>0, <1>2
<1>t. ASSUME NEW by, NEW raised, mitra_trap(by, raised)
      PROVE  ind' = ind \/ (ind'.MS /\ ind'.PR)
  BY <1>t DEF mitra_trap, Supervisor
<1> HIDE DEF Confined
<1>3. CASE CallSupervisor
  <2>1. ind'.MS /\ ind'.PR
    BY <1>3 DEF CallSupervisor, TypeOK, Indicators
  <2> QED  BY <1>2, <1>3, <2>1 DEF CallSupervisor
<1>4. CASE PendingTrap \/ InstructionTrap \/ CallNoSection \/ ProtectedStore
  BY <1>2, <1>t, <1>4
     DEF PendingTrap, InstructionTrap, CallNoSection, ProtectedStore
<1>5. ASSUME NEW w \in Lockable, TestAndSet(w) PROVE Confined
  BY <1>2, <1>t, <1>5 DEF TestAndSet
<1>6. CASE UNCHANGED <<curr_int_lvl, ctx, MP, ind>>
  BY <1>2, <1>6
<1>7. ~SetMask /\ ~ClearMask /\ ~ReturnFromSupervisor /\ ~Continue /\ ~Reset
      /\ ~Boot /\ (\A inst : ~Deactivate(inst)) /\ (\A w : ~LoadProtection(w))
  BY DEF SetMask, ClearMask, ReturnFromSupervisor, Continue, Reset, Boot,
         Deactivate, LoadProtection
<1> QED
  BY <1>1, <1>3, <1>4, <1>5, <1>6, <1>7
     DEF Next, Instruction, Event, Operator, RaiseInterrupt,
         ProtectedTransfer, OperatorStop, vars

\* A slave program only leaves its state upwards: into the supervisor, or
\* preempted by a higher level.
THEOREM SlavesAreConfined == Spec => SlaveConfined
<1>1. TypeOK /\ LevelOwnsRegisters /\ [Next]_vars =>
        [Running /\ ~ind.MS =>
           /\ curr_int_lvl' >= curr_int_lvl
           /\ MP' \subseteq MP
           /\ \A l \in Level \ {curr_int_lvl} : ctx'[l] = ctx[l]
           /\ \/ ind' = ind
              \/ ind'.MS /\ ind'.PR
              \/ curr_int_lvl' > curr_int_lvl]_vars
  BY StepSlave
<1> QED
  BY <1>1, TypeCorrect, OwnRegisters, PTL DEF Spec, SlaveConfined

----------------------------------------------------------------------------
(* Levels without a context. *)

LEMMA StepWedged ==
  TypeOK /\ LevelOwnsRegisters /\ WedgedRequestKept /\ [Next]_vars =>
    /\ WedgedRequestKept'
    /\ Running /\ curr_int_lvl \notin Connected => curr_int_lvl' = curr_int_lvl
<1> SUFFICES ASSUME TypeOK, LevelOwnsRegisters, WedgedRequestKept, [Next]_vars
             PROVE  /\ WedgedRequestKept'
                    /\ Running /\ curr_int_lvl \notin Connected =>
                         curr_int_lvl' = curr_int_lvl
  OBVIOUS
<1>1. CASE AcceptInterrupt
  BY <1>1, AcceptStep DEF WedgedRequestKept
<1>2. ASSUME NEW inst \in {"DIT", "DITR"}, Deactivate(inst)
      PROVE  /\ WedgedRequestKept'
             /\ curr_int_lvl \notin Connected => curr_int_lvl' = curr_int_lvl
  <2>1. CASE curr_int_lvl' = 0
    BY <1>2, <2>1 DEF Deactivate, cpt_lookup, WedgedRequestKept
  <2>2. CASE UNCHANGED curr_int_lvl
    BY <1>2, <2>2 DEF Deactivate, WedgedRequestKept
  <2>3. CASE \E l \in get_highest_interrupt(PointerWord[curr_int_lvl].MA,
                                            intrpt_pending) :
               curr_int_lvl' = l /\ cpt_lookup(curr_int_lvl)
    <3>1. curr_int_lvl' \in intrpt_pending
      BY <2>3, HighestIsRequested
    <3> QED  BY <1>2, <2>3, <3>1 DEF Deactivate, cpt_lookup, WedgedRequestKept
  <2> QED  BY <1>2, <2>1, <2>2, <2>3 DEF Deactivate
<1>3. CASE Boot
  BY <1>3, BootStep DEF WedgedRequestKept, Boot
<1>4. CASE Reset
  BY <1>4 DEF Reset, WedgedRequestKept
<1>5. CASE UNCHANGED curr_int_lvl /\ intrpt_pending \subseteq intrpt_pending'
  BY <1>5 DEF WedgedRequestKept
<1> QED
  BY <1>1, <1>2, <1>3, <1>4, <1>5
     DEF Next, Instruction, Event, Operator, PendingTrap, SetMask, ClearMask,
         InstructionTrap, CallNoSection, CallSupervisor, RaiseInterrupt,
         ReturnFromSupervisor, LoadProtection, ProtectedStore, TestAndSet,
         ProtectedTransfer, OperatorStop, Continue, vars

\* A level without a context that is current still has its request.
THEOREM WedgedKeepsRequest == Spec => []WedgedRequestKept
<1>1. Init => WedgedRequestKept
  BY DEF Init, WedgedRequestKept
<1>2. TypeOK /\ LevelOwnsRegisters /\ WedgedRequestKept /\ [Next]_vars
        => WedgedRequestKept'
  BY StepWedged
<1> QED  BY <1>1, <1>2, TypeCorrect, OwnRegisters, PTL DEF Spec

\* The simulated machine never leaves such a level by itself.
THEOREM WedgedStays == Spec => WedgedUntilReset
<1>1. TypeOK /\ LevelOwnsRegisters /\ WedgedRequestKept /\ [Next]_vars =>
        [Running /\ curr_int_lvl \notin Connected =>
           curr_int_lvl' = curr_int_lvl]_vars
  BY StepWedged
<1> QED
  BY <1>1, TypeCorrect, OwnRegisters, WedgedKeepsRequest, PTL
     DEF Spec, WedgedUntilReset

----------------------------------------------------------------------------
(* The refinement. *)

LEMMA InitLevels == Init => Levels!Init
BY DEF Init, Levels!Init

LEMMA StepLevels ==
  TypeOK /\ LevelOwnsRegisters /\ [Next]_vars => [Levels!Next]_(Levels!vars)
<1> SUFFICES ASSUME TypeOK, LevelOwnsRegisters, [Next]_vars
             PROVE  Levels!Next \/ UNCHANGED Levels!vars
  OBVIOUS
<1>a. ASSUME NEW l, NEW MA, NEW requests,
             l \in get_highest_interrupt(MA, requests)
      PROVE  l \in Levels!Highest(requests)
  BY <1>a DEF get_highest_interrupt, Levels!Highest
<1>1. CASE AcceptInterrupt
  <2>1. CASE UNCHANGED <<curr_int_lvl, intrpt_pending, task>>
    BY <2>1 DEF Levels!vars
  <2>2. ASSUME NEW h \in get_highest_interrupt(FALSE, intrpt_pending),
               h \in Connected \ {0}, h > curr_int_lvl, curr_int_lvl' = h,
               task' = h, intrpt_pending' = intrpt_pending \ {h}
        PROVE  Levels!Preempt
    BY <1>a, <2>2 DEF Levels!Preempt, Levels!Give
  <2> QED  BY <1>1, <2>1, <2>2, AcceptStep DEF Levels!Next
<1>2. ASSUME NEW inst \in {"DIT", "DITR"}, Deactivate(inst)
      PROVE  Levels!Next \/ UNCHANGED Levels!vars
  <2>1. UNCHANGED intrpt_pending
    BY <1>2 DEF Deactivate
  <2>2. CASE UNCHANGED <<curr_int_lvl, task>>
    BY <2>1, <2>2 DEF Levels!vars
  <2>3. CASE curr_int_lvl' = 0 /\ task' = task
    BY <2>1, <2>3 DEF Levels!Next, Levels!Idle
  <2>4. ASSUME NEW l \in get_highest_interrupt(PointerWord[curr_int_lvl].MA,
                                              intrpt_pending),
               curr_int_lvl' = l,
               IF cpt_lookup(l) THEN LoadContext(ctx[l]) ELSE UNCHANGED task
        PROVE  Levels!Next
    <3>1. l \in intrpt_pending
      BY HighestIsRequested
    <3>2. l # 0
      BY <3>1, LevelsAssumption DEF TypeOK
    <3>3. task' = IF l \in Connected \ {0} THEN l ELSE task
      BY <2>4, <3>2 DEF cpt_lookup, LoadContext, LevelOwnsRegisters
    <3>4. l \in Levels!Highest(intrpt_pending)
      BY <1>a
    <3> QED  BY <2>1, <2>4, <3>3, <3>4 DEF Levels!Next, Levels!Resume, Levels!Give
  <2> QED  BY <1>2, <2>2, <2>3, <2>4 DEF Deactivate
<1>3. CASE \E l \in DeviceLevels : RaiseInterrupt(l)
  BY <1>3, LevelsAssumption DEF RaiseInterrupt, Levels!Next, Levels!Request
<1>4. CASE Reset
  BY <1>4 DEF Reset, Levels!Next, Levels!Restart
<1>5. CASE Boot
  <2>1. BootLevel \in Level \ {0}
    BY LevelsAssumption
  <2>2. Levels!Boot(BootLevel)
    BY <1>5, <1>a, BootStep DEF Levels!Boot, Levels!Give
  <2> QED  BY <2>1, <2>2 DEF Levels!Next
<1>6. CASE UNCHANGED <<curr_int_lvl, intrpt_pending, task>>
  BY <1>6 DEF Levels!vars
<1> QED
  BY <1>1, <1>2, <1>3, <1>4, <1>5, <1>6
     DEF Next, Instruction, Event, Operator, PendingTrap, SetMask, ClearMask,
         InstructionTrap, CallNoSection, CallSupervisor,
         ReturnFromSupervisor, LoadProtection, ProtectedStore, TestAndSet,
         ProtectedTransfer, OperatorStop, Continue, vars

\* The contexts, traps and locks implement the abstract levels: every step of
\* the mechanism is one of theirs or leaves them alone.
THEOREM LevelsImplemented == Spec => ImplementsLevels
<1>1. TypeOK /\ LevelOwnsRegisters /\ [Next]_vars => [Levels!Next]_(Levels!vars)
  BY StepLevels
<1> QED
  BY <1>1, InitLevels, TypeCorrect, OwnRegisters, PTL
     DEF Spec, ImplementsLevels, Levels!Spec

=============================================================================
