------------------------------ MODULE Deroute ------------------------------
(***************************************************************************)
(* The "deroute" of the Mitra-15: how the simulated processor leaves a      *)
(* program and comes back to it.  It models the top of the instruction loop *)
(* (sim_instr), the acceptance and the de-activation of interrupt levels    *)
(* through the context pointer table, the traps, the supervisor calls, the  *)
(* memory locks each of them is subject to, and the operator's STOP, RUN,   *)
(* RESET and BOOT.                                                          *)
(*                                                                          *)
(* Registers are abstracted to the program they belong to: task is the      *)
(* level whose registers the processor holds, and the save area of level l  *)
(* holds the registers of the program ctx[l].task.  The locks are kept for  *)
(* the words the mechanism writes: the indicator word and the register      *)
(* words of each save area, low memory (the trap frame, bytes 2 to 9), and  *)
(* Data, which stands for any other word.                                   *)
(***************************************************************************)
EXTENDS Integers

CONSTANTS
  MaxLevel,      \* the highest interrupt level (31 in the code)
  DeviceLevels,  \* the levels whose device raises requests
  BootLevel,     \* the level of the device the machine is booted from
  Connected,     \* the levels whose entry of the context table is not zero
  PointerWord,   \* per connected level, the indicators its pointer decodes to
  Image,         \* per level, the indicators the boot tape puts in its context
  Callers,       \* the levels whose program calls the supervisor
  Lockable,      \* the words whose protection lock the programs load
  PrtsValid,     \* whether word 12 points into memory
  LowMemory,     \* the words of the trap frame
  Data,          \* any word outside the save areas and low memory
  Nobody         \* no program

Level == 0..MaxLevel
Part == {"ind", "regs"}
Word == (Level \X Part) \cup {LowMemory, Data}
Indicators == [PR : BOOLEAN, MA : BOOLEAN, MS : BOOLEAN]

ASSUME LevelsAssumption ==
  /\ MaxLevel \in Nat
  /\ DeviceLevels \subseteq Level \ {0}
  /\ BootLevel \in DeviceLevels
  /\ Connected \subseteq Level

\* A pointer that cpt_lookup accepts is less than 32768: read as an indicator
\* word, its bit 15, the PR indicator, is 0.
ASSUME PointerAssumption ==
  /\ PointerWord \in [Connected -> Indicators]
  /\ \A l \in Connected : ~PointerWord[l].PR

\* No program is loaded with the key to the locked words unless it is a
\* master program.
ASSUME ImageAssumption ==
  /\ Image \in [Level -> Indicators]
  /\ \A l \in Level : Image[l].PR => Image[l].MS

ASSUME ProgramsAssumption ==
  /\ Callers \subseteq Level
  /\ Lockable \subseteq Word
  /\ PrtsValid \in BOOLEAN

ASSUME NobodyAssumption == Nobody \notin Level

VARIABLES
  curr_int_lvl,    \* the level the processor believes it runs
  intrpt_pending,  \* the levels with a request
  ind,             \* the PR, MA and MS indicators
  task,            \* the program whose registers the processor holds
  ctx,             \* the save area of each level
  cds,             \* the indicators the last CSV of each program stored
  MP,              \* the locked words
  trp_req,         \* whether a protection trap is pending
  frame,           \* the program whose registers low memory holds
  faulter,         \* the program whose instruction caused the last trap
  reg_8,           \* register 8
  reason           \* whether sim_instr is looping

vars == <<curr_int_lvl, intrpt_pending, ind, task, ctx, cds, MP, trp_req,
          frame, faulter, reg_8, reason>>

Context == [ind : Indicators, task : Level]

Master == [PR |-> FALSE, MA |-> FALSE, MS |-> TRUE]
Supervisor == [PR |-> TRUE, MA |-> TRUE, MS |-> TRUE]

----------------------------------------------------------------------------
(* The helpers of the mechanism. *)

\* Mutants: the scan goes upwards; the scan forgets the last level.
get_lowest_interrupt(MA, requests) ==
  IF MA THEN {} ELSE {l \in requests : \A m \in requests : m >= l}

get_highest_but_last(MA, requests) ==
  IF MA THEN {}
  ELSE {l \in requests \ {MaxLevel} : \A m \in requests \ {MaxLevel} : m <= l}

\* get_highest_interrupt: a set of one level, or the empty set for -1.
get_highest_interrupt(MA, requests) ==
  IF MA THEN {} ELSE {l \in requests : \A m \in requests : m <= l}

\* Mutant: register 8 is twice the bit map, not twice the level.
dispatch_bitmap(MA, requests) ==
  {2 * 2^l : l \in get_highest_interrupt(MA, requests)}

\* io_interrupt_dispatch, not high speed: the value register 8 gets.
io_interrupt_dispatch(MA, requests) ==
  {2 * l : l \in get_highest_interrupt(MA, requests)}

\* write_word: the words of a series of writes that their lock protects.
Dropped(words) == IF ind.PR THEN {} ELSE words \cap MP

\* cpt_lookup: the level has a save area.
cpt_lookup(l) == l \in Connected

\* Mutant: the indicator word is not saved.
SaveRegistersOnly(l) ==
  [ctx EXCEPT ![l].task =
     IF <<l, "regs">> \in Dropped({l} \X Part) THEN @ ELSE task]

\* The save areas after the seven writes that save the registers at level l.
SaveContext(l) ==
  LET kept == Dropped({l} \X Part)
  IN  [ctx EXCEPT ![l] =
         [ind  |-> IF <<l, "ind">> \in kept THEN @.ind ELSE ind,
          task |-> IF <<l, "regs">> \in kept THEN @.task ELSE task]]

\* Mutant: only the indicators are loaded.
LoadIndicators(c) == ind' = c.ind /\ task' = task

LoadContext(c) == ind' = c.ind /\ task' = c.task

\* mitra_trap, for a trap the program by caused, under the locks MP'; raised
\* says that the trap was already pending.  Without a supervisor table nothing
\* follows the writes of the frame, and one that is locked leaves a trap
\* pending.
mitra_trap(by, raised) ==
  LET refused == ~ind.PR /\ LowMemory \in MP'
  IN  /\ frame' = IF refused THEN frame ELSE task
      /\ faulter' = by
      /\ ind' = IF PrtsValid THEN Supervisor ELSE ind
      /\ trp_req' = (~PrtsValid /\ (raised \/ refused))

StopUnless(ok) == reason' = IF ok THEN reason ELSE "stop"

----------------------------------------------------------------------------
(* The loop of sim_instr serves, in this order, a pending trap, a request  *)
(* above the current level, and the next instruction of the program.       *)

Running == reason = "run"

Acceptable(h) ==
  h \in get_highest_interrupt(ind.MA, intrpt_pending) /\ h > curr_int_lvl

\* Mutant: the level the context is saved for is not looked up.
DispatchableToNew(h) == cpt_lookup(h)

\* sim_instr looks the new level up, mitra_interrupt_accept the old one.
Dispatchable(h) == cpt_lookup(h) /\ cpt_lookup(curr_int_lvl)

Executing ==
  /\ Running
  /\ ~trp_req
  /\ ~ \E h \in Level : Acceptable(h)

\* A trap that did not come from the instruction being executed.
PendingTrap ==
  /\ Running
  /\ trp_req
  /\ UNCHANGED MP
  /\ mitra_trap(Nobody, TRUE)
  /\ StopUnless(PrtsValid)
  /\ UNCHANGED <<curr_int_lvl, intrpt_pending, task, ctx, cds, reg_8>>

\* mitra_interrupt_accept, after the look-up in sim_instr.
AcceptInterrupt ==
  /\ Running
  /\ ~trp_req
  /\ \E h \in Level :
       /\ Acceptable(h)
       /\ IF Dispatchable(h)
            THEN /\ ctx' = SaveContext(curr_int_lvl)
                 /\ trp_req' = (Dropped({curr_int_lvl} \X Part) # {})
                 /\ curr_int_lvl' = h
                 /\ LoadContext(ctx[h])
                 /\ intrpt_pending' = intrpt_pending \ {h}
                 /\ UNCHANGED reason
            ELSE /\ reason' = "stop"
                 /\ UNCHANGED <<curr_int_lvl, intrpt_pending, ind, task, ctx,
                                trp_req>>
  /\ UNCHANGED <<cds, MP, frame, faulter, reg_8>>

----------------------------------------------------------------------------
(* Instructions. *)

SetMask ==
  /\ Executing
  /\ ind.MS
  /\ ind' = [ind EXCEPT !.MA = TRUE]
  /\ UNCHANGED <<curr_int_lvl, intrpt_pending, task, ctx, cds, MP, trp_req,
                 frame, faulter, reg_8, reason>>

ClearMask ==
  /\ Executing
  /\ ind.MS
  /\ ind' = [ind EXCEPT !.MA = FALSE]
  /\ UNCHANGED <<curr_int_lvl, intrpt_pending, task, ctx, cds, MP, trp_req,
                 frame, faulter, reg_8, reason>>

\* mitra_interrupt_return: the indicators are first loaded from the pointer to
\* the context; the highest request left is then resumed and stays pending, or
\* the level becomes 0 with the registers as they are.  DIT reports a level
\* without a context to sim_instr, which stops; DITR does not.
Deactivate(inst) ==
  LET failed == IF inst = "DIT" THEN reason' = "stop" ELSE UNCHANGED reason
      pointer == PointerWord[curr_int_lvl]
      next == get_highest_interrupt(pointer.MA, intrpt_pending)
  IN  /\ Executing
      /\ ind.MS
      /\ \/ /\ ~cpt_lookup(curr_int_lvl)
            /\ failed
            /\ UNCHANGED <<curr_int_lvl, ind, task>>
         \/ /\ cpt_lookup(curr_int_lvl)
            /\ next = {}
            /\ curr_int_lvl' = 0
            /\ ind' = pointer
            /\ UNCHANGED <<task, reason>>
         \/ /\ cpt_lookup(curr_int_lvl)
            /\ \E l \in next :
                 /\ curr_int_lvl' = l
                 /\ IF cpt_lookup(l)
                      THEN LoadContext(ctx[l]) /\ UNCHANGED reason
                      ELSE /\ ind' = [pointer EXCEPT !.MA = FALSE]
                           /\ UNCHANGED task
                           /\ failed
      /\ UNCHANGED <<intrpt_pending, ctx, cds, MP, trp_req, frame, faulter,
                     reg_8>>

\* A privileged instruction of a slave program, or an RD or WD to a mode no
\* device claims: both return what mitra_trap returns.
InstructionTrap ==
  /\ Executing
  /\ UNCHANGED MP
  /\ mitra_trap(task, FALSE)
  /\ StopUnless(PrtsValid)
  /\ UNCHANGED <<curr_int_lvl, intrpt_pending, task, ctx, cds, reg_8>>

\* CSV of a section that does not exist ignores what mitra_trap returns; the
\* check that follows every instruction stops if the frame was locked.
CallNoSection ==
  /\ Executing
  /\ UNCHANGED MP
  /\ mitra_trap(task, FALSE)
  /\ StopUnless(~trp_req')
  /\ UNCHANGED <<curr_int_lvl, intrpt_pending, task, ctx, cds, reg_8>>

\* Mutant: CSV raises the key but leaves the mode.
CallKeepsMode ==
  /\ Executing
  /\ task \in Callers
  /\ cds' = [cds EXCEPT ![task] = ind]
  /\ ind' = [ind EXCEPT !.PR = TRUE]
  /\ UNCHANGED <<curr_int_lvl, intrpt_pending, task, ctx, MP, trp_req, frame,
                 faulter, reg_8, reason>>

\* CSV and RSV keep the indicators in the caller's data section.
CallSupervisor ==
  /\ Executing
  /\ task \in Callers
  /\ cds' = [cds EXCEPT ![task] = ind]
  /\ ind' = [ind EXCEPT !.MS = TRUE, !.PR = TRUE]
  /\ UNCHANGED <<curr_int_lvl, intrpt_pending, task, ctx, MP, trp_req, frame,
                 faulter, reg_8, reason>>

ReturnFromSupervisor ==
  /\ Executing
  /\ ind.MS
  /\ task \in Callers
  /\ ind' = cds[task]
  /\ UNCHANGED <<curr_int_lvl, intrpt_pending, task, ctx, cds, MP, trp_req,
                 frame, faulter, reg_8, reason>>

\* Mutant: LDP is not privileged.
LoadProtectionAnyMode(w) ==
  /\ Executing
  /\ MP' \in {MP \cup {w}, MP \ {w}}
  /\ UNCHANGED <<curr_int_lvl, intrpt_pending, ind, task, ctx, cds, trp_req,
                 frame, faulter, reg_8, reason>>

\* LDP loads the lock of word w.
LoadProtection(w) ==
  /\ Executing
  /\ ind.MS
  /\ MP' \in {MP \cup {w}, MP \ {w}}
  /\ UNCHANGED <<curr_int_lvl, intrpt_pending, ind, task, ctx, cds, trp_req,
                 frame, faulter, reg_8, reason>>

\* A store that a lock refuses: one_inst takes the trap at once.
ProtectedStore ==
  /\ Executing
  /\ Dropped(MP) # {}
  /\ UNCHANGED MP
  /\ mitra_trap(task, TRUE)
  /\ StopUnless(PrtsValid)
  /\ UNCHANGED <<curr_int_lvl, intrpt_pending, task, ctx, cds, reg_8>>

\* TES, which two of its three encodings let any program execute, clears the
\* lock of word w and writes another word.  When that one is locked its trap
\* follows, under the locks TES has left.
TestAndSet(w) ==
  /\ Executing
  /\ MP' = MP \ {w}
  /\ \/ UNCHANGED <<ind, trp_req, frame, faulter, reason>>
     \/ /\ Dropped(MP) # {}
        /\ mitra_trap(task, TRUE)
        /\ StopUnless(PrtsValid)
  /\ UNCHANGED <<curr_int_lvl, intrpt_pending, task, ctx, cds, reg_8>>

----------------------------------------------------------------------------
(* Devices, served by sim_process_event between two instructions. *)

\* Mutant: the request replaces the others.
RaiseOnly(l) ==
  /\ Running
  /\ intrpt_pending' = {l}
  /\ reg_8' \in IF ind.MA THEN {reg_8}
                ELSE io_interrupt_dispatch(ind.MA, intrpt_pending')
  /\ UNCHANGED <<curr_int_lvl, ind, task, ctx, cds, MP, trp_req, frame,
                 faulter, reason>>

\* asr_interrupt
RaiseInterrupt(l) ==
  /\ Running
  /\ intrpt_pending' = intrpt_pending \cup {l}
  /\ reg_8' \in IF ind.MA THEN {reg_8}
                ELSE io_interrupt_dispatch(ind.MA, intrpt_pending')
  /\ UNCHANGED <<curr_int_lvl, ind, task, ctx, cds, MP, trp_req, frame,
                 faulter, reason>>

\* A device stores into a locked word: the PR of whichever program runs
\* decides whether that is refused.
ProtectedTransfer ==
  /\ Running
  /\ Dropped(MP) # {}
  /\ trp_req' = TRUE
  /\ UNCHANGED <<curr_int_lvl, intrpt_pending, ind, task, ctx, cds, MP, frame,
                 faulter, reg_8, reason>>

----------------------------------------------------------------------------
(* The operator. *)

\* The operator's STOP; also a breakpoint, a halt, or an error a device returns.
OperatorStop ==
  /\ Running
  /\ reason' = "stop"
  /\ UNCHANGED <<curr_int_lvl, intrpt_pending, ind, task, ctx, cds, MP,
                 trp_req, frame, faulter, reg_8>>

Continue ==
  /\ ~Running
  /\ reason' = "run"
  /\ UNCHANGED <<curr_int_lvl, intrpt_pending, ind, task, ctx, cds, MP,
                 trp_req, frame, faulter, reg_8>>

\* cpu_reset.  The requests, register 8, the memory and the locks stay.
Reset ==
  /\ ~Running
  /\ curr_int_lvl' = 0
  /\ ind' = Master
  /\ task' = 0
  /\ trp_req' = FALSE
  /\ UNCHANGED <<intrpt_pending, ctx, cds, MP, frame, faulter, reg_8, reason>>

\* The machine, just reset, enters the context of the highest request; without
\* one it is left as reset.
get_BOOT_ENTRY_ADDR(l, requests, loaded) ==
  IF cpt_lookup(l)
    THEN /\ curr_int_lvl' = l
         /\ LoadContext(loaded[l])
         /\ intrpt_pending' = requests \ {l}
    ELSE /\ curr_int_lvl' = 0
         /\ ind' = Master
         /\ task' = 0
         /\ intrpt_pending' = requests

\* asr33_boot: the tape is written through write_word, under the indicators
\* the machine was stopped with; then cpu_reset, asr_interrupt and
\* get_BOOT_ENTRY_ADDR, whose result is ignored.
Boot ==
  LET loaded == [l \in Level |->
        [ind  |-> IF <<l, "ind">> \in Dropped(MP) THEN ctx[l].ind ELSE Image[l],
         task |-> IF <<l, "regs">> \in Dropped(MP) THEN ctx[l].task ELSE l]]
      requests == intrpt_pending \cup {BootLevel}
  IN  /\ ~Running
      /\ ctx' = loaded
      /\ cds' = Image
      /\ frame' = IF Dropped({LowMemory}) = {} THEN Nobody ELSE frame
      /\ faulter' = Nobody
      /\ trp_req' = FALSE
      /\ \E l \in get_highest_interrupt(FALSE, requests) :
           /\ reg_8' = 2 * l
           /\ get_BOOT_ENTRY_ADDR(l, requests, loaded)
      /\ reason' = "run"
      /\ UNCHANGED MP

----------------------------------------------------------------------------

\* The machine as reset leaves it, with the image in memory.
Init ==
  /\ curr_int_lvl = 0
  /\ intrpt_pending = {}
  /\ ind = Master
  /\ task = 0
  /\ ctx = [l \in Level |-> [ind |-> Image[l], task |-> l]]
  /\ cds = Image
  /\ MP = {}
  /\ trp_req = FALSE
  /\ frame = Nobody
  /\ faulter = Nobody
  /\ reg_8 = 0
  /\ reason = "stop"

Instruction ==
  \/ SetMask
  \/ ClearMask
  \/ \E inst \in {"DIT", "DITR"} : Deactivate(inst)
  \/ InstructionTrap
  \/ CallNoSection
  \/ CallSupervisor
  \/ ReturnFromSupervisor
  \/ \E w \in Lockable : LoadProtection(w)
  \/ ProtectedStore
  \/ \E w \in Lockable : TestAndSet(w)

Event ==
  \/ \E l \in DeviceLevels : RaiseInterrupt(l)
  \/ ProtectedTransfer

Operator == OperatorStop \/ Continue \/ Reset \/ Boot

Next == PendingTrap \/ AcceptInterrupt \/ Instruction \/ Event \/ Operator

Spec == Init /\ [][Next]_vars

\* sim_instr is a loop without a wait: unless it stops, it serves the trap or
\* the request it has found.  Nothing obliges a program to do anything.
Fairness == WF_vars(PendingTrap \/ AcceptInterrupt)

FairSpec == Spec /\ Fairness

----------------------------------------------------------------------------
(* Properties. *)

\* The type of every variable; requests only come from the devices, and
\* register 8 is twice a level.
TypeOK ==
  /\ curr_int_lvl \in Level
  /\ intrpt_pending \subseteq DeviceLevels
  /\ ind \in Indicators
  /\ task \in Level
  /\ ctx \in [Level -> Context]
  /\ cds \in [Level -> Indicators]
  /\ MP \subseteq Lockable
  /\ trp_req \in BOOLEAN
  /\ frame \in Level \cup {Nobody}
  /\ faulter \in Level \cup {Nobody}
  /\ reg_8 \in {2 * l : l \in Level}
  /\ reason \in {"run", "stop"}

\* While a level other than 0 is active and has a context, the registers are
\* those of its own program, and its save area never holds another program's:
\* neither a refused save, nor a trap, nor DIT mixes two programs up.
LevelOwnsRegisters ==
  /\ curr_int_lvl \in Connected \ {0} => task = curr_int_lvl
  /\ \A l \in Connected \ {0} : ctx[l].task = l

\* The key to the locked words (PR) is only ever held in master mode, in the
\* processor, in a save area or in the indicators RSV will load: no sequence
\* of calls, traps and interrupts hands it to a slave program.
KeyNeedsMaster ==
  /\ ind.PR => ind.MS
  /\ \A l \in Level : /\ ctx[l].ind.PR => ctx[l].ind.MS
                      /\ cds[l].PR => cds[l].MS

\* A request only disappears in the step that gives the processor to its
\* program (comment of get_highest_interrupt: "set by devices, cleared when
\* the interrupt is taken"); no trap, no refused save, no DIT and no stop drops
\* one.  The operator's reset and boot are left out.
RequestsNeverLost ==
  [][~Reset /\ ~Boot =>
       \A l \in intrpt_pending \ intrpt_pending' :
         curr_int_lvl' = l /\ task' = l]_vars

\* A slave program cannot lower the level, lock a word, reach a save area
\* other than its own level's, or change the indicators except by entering
\* the supervisor with the key or being preempted.
SlaveConfined ==
  [][Running /\ ~ind.MS =>
       /\ curr_int_lvl' >= curr_int_lvl
       /\ MP' \subseteq MP
       /\ \A l \in Level \ {curr_int_lvl} : ctx'[l] = ctx[l]
       /\ \/ ind' = ind
          \/ ind'.MS /\ ind'.PR
          \/ curr_int_lvl' > curr_int_lvl]_vars

\* When a program is preempted, either all of its context reaches the save
\* area or a protection trap is pending when its successor starts.
NoSilentContextLoss ==
  [][Running /\ ~ind.MA /\ curr_int_lvl' > curr_int_lvl =>
       \/ ctx'[curr_int_lvl] = [ind |-> ind, task |-> task]
       \/ trp_req']_vars

\* DIT can make a level current that has no context; its request is then
\* still pending.
WedgedRequestKept ==
  curr_int_lvl \notin Connected =>
    curr_int_lvl = 0 \/ curr_int_lvl \in intrpt_pending

\* Only the operator's reset or boot leaves a level without a context: DITR,
\* interrupts, traps and RSV do not.
WedgedUntilReset ==
  [][Running /\ curr_int_lvl \notin Connected =>
       curr_int_lvl' = curr_int_lvl]_vars

\* A request above the level of a running, unmasked processor is followed by
\* that level or a higher one, unless a trap masks interrupts or the simulator
\* stops first: the devices cannot hold the acceptance up.
RequestHonoured ==
  \A l \in DeviceLevels :
    (Running /\ ~ind.MA /\ l \in intrpt_pending /\ l > curr_int_lvl)
      ~> (curr_int_lvl >= l \/ ind.MA \/ ~Running)

\* The mechanism implements the abstract levels.
Levels == INSTANCE AtLeastOnce WITH
  Levels <- Level, Served <- Connected \ {0},
  level <- curr_int_lvl, waiting <- intrpt_pending, running <- task

ImplementsLevels == Levels!Spec

=============================================================================
