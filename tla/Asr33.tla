------------------------------- MODULE Asr33 -------------------------------
(***************************************************************************)
(* The teletype of the Mitra-15 (IO_asr33.c): keyboard, printer and tape    *)
(* reader behind one coupler.  A program prepares registers 9, 10 and 11    *)
(* with STR, starts a transfer with WD, and goes on; the simulator's event  *)
(* queue then calls asr_svc, which moves one character per call and raises  *)
(* the interrupt of level 6 when the transfer ends.  The program either     *)
(* waits for the interrupt or polls register 9.                             *)
(*                                                                          *)
(* A byte has Base values and a word Base^2 (256 and 65536 in the code), so *)
(* that bit fields are quotients and remainders.  The registers, the counts *)
(* and the addresses are exact, the wrap of the 16-bit address on the 15    *)
(* bits of memory included.  The locks of memory are fixed: loading them is *)
(* the subject of Deroute.                                                  *)
(***************************************************************************)
EXTENDS Integers, Sequences

CONSTANTS
  Base,       \* the values of a byte
  Tape,       \* the bytes of the tape that ATTACH mounts
  Typed,      \* the bytes the operator types
  Words9,     \* what programs store into register 9,
  Words10,    \* into register 10
  Words11,    \* and into register 11
  Keys,       \* the PR indicators of the programs that run
  Locked,     \* the bytes of the locked words
  BootMax     \* ASR33_BOOT_MAX_BYTES

Byte == 0..(Base - 1)
Word == 0..(Base * Base - 1)

\* The z bit of a word and everything below it; also the size of memory, as
\* VA_TO_PA keeps 15 bits.
Half == (Base * Base) \div 2
Address == 0..(Half - 1)

ASSUME BaseAssumption == Base \in Nat /\ Base >= 2 /\ Half \in Nat /\ Half > 0

ASSUME InputsAssumption ==
  /\ Tape \in Seq(Byte)
  /\ Typed \subseteq Byte
  /\ Words9 \subseteq Word
  /\ Words10 \subseteq Word
  /\ Words11 \subseteq Word
  /\ Keys \subseteq BOOLEAN /\ FALSE \in Keys
  /\ Locked \subseteq Address
  /\ BootMax \in 1..Half

VARIABLES
  asr,            \* asr_state
  R9, R10, R11,   \* reg_cnt_MAE, reg_curr_MAE and reg_Work_MAE
  M,              \* memory, byte by byte
  PR,             \* the key of the program that runs
  trp_req,        \* whether a protection trap is pending
  image,          \* whether a tape is mounted
  pos,            \* the bytes of the tape already read
  queued,         \* whether asr_unit is in the simulator's event queue
  intrpt_pending, \* whether level 6 has a request
  reason,         \* whether sim_instr is looping
  job,            \* history: the transfer last started
  epoch           \* history: flips at every command to the coupler

registers == <<R9, R10, R11>>
cpu == <<PR, trp_req, reason>>
vars == <<asr, registers, M, cpu, image, pos, queued, intrpt_pending, job,
          epoch>>

Mode == {"idle", "keyboard", "tape", "write"}

AsrState ==
  [active : BOOLEAN, mode : Mode, status : {0, 2, 3, 7},
   stop_on_compare : BOOLEAN, compare_char : Byte,
   mem_addr : Nat, bytes_left : Nat]

NoJob == [start |-> 0, asked |-> 0, chars |-> <<>>]

VA_TO_PA(a) == a % Half

----------------------------------------------------------------------------
(* The program: STR and WD.  Instructions run when no trap is pending. *)

Running == reason = "run"
Executing == Running /\ ~trp_req

Command == epoch' = 1 - epoch

\* instr_STR on the registers of the coupler.
StoreRegister ==
  /\ Executing
  /\ \/ R9' \in Words9 /\ UNCHANGED <<R10, R11>>
     \/ R10' \in Words10 /\ UNCHANGED <<R9, R11>>
     \/ R11' \in Words11 /\ UNCHANGED <<R9, R10>>
  /\ UNCHANGED <<asr, M, cpu, image, pos, queued, intrpt_pending, job, epoch>>

\* asr33_wd latches the stop condition before it looks at the command.
Latched == [asr EXCEPT !.stop_on_compare = R9 \div Half = 1,
                       !.compare_char = R11 \div Base]

\* Mutant: a transfer that is started leaves the event queue to the next one.
StartUnqueued(m) ==
  /\ Executing
  /\ asr' = [Latched EXCEPT !.active = TRUE, !.mode = m,
               !.status = IF m = "write" THEN 2 ELSE 3,
               !.mem_addr = R10 + 1, !.bytes_left = (R9 % Half) + 1]
  /\ UNCHANGED queued
  /\ job' = [start |-> R10 + 1, asked |-> R9 % Half, chars |-> <<>>]
  /\ Command
  /\ UNCHANGED <<registers, M, cpu, image, pos, intrpt_pending>>

\* ASR_CMD_ECR_CLAV, ASR_CMD_LEC_CLAV and ASR_CMD_LEC_RUBAN, whether or not a
\* transfer is in progress.  sim_activate does nothing if the unit is queued.
Start(m) ==
  /\ Executing
  /\ asr' = [Latched EXCEPT !.active = TRUE, !.mode = m,
               !.status = IF m = "write" THEN 2 ELSE 3,
               !.mem_addr = R10 + 1, !.bytes_left = (R9 % Half) + 1]
  /\ queued' = TRUE
  /\ job' = [start |-> R10 + 1, asked |-> R9 % Half, chars |-> <<>>]
  /\ Command
  /\ UNCHANGED <<registers, M, cpu, image, pos, intrpt_pending>>

\* ASR_CMD_REPOS and ASR_CMD_STOP: the event stays queued.
Rest ==
  /\ Executing
  /\ asr' = [Latched EXCEPT !.active = FALSE, !.mode = "idle", !.status = 0]
  /\ Command
  /\ UNCHANGED <<registers, M, cpu, image, pos, queued, intrpt_pending, job>>

\* ASR_CMD_SUPPR, ASR_CMD_LEC_SANS_IMP and ASR_CMD_PERF_SANS_IMP.
Suppress ==
  /\ Executing
  /\ asr' = [Latched EXCEPT !.active = FALSE, !.status = 0]
  /\ Command
  /\ UNCHANGED <<registers, M, cpu, image, pos, queued, intrpt_pending, job>>

\* Any other command stops the simulator, the condition latched.
UnknownCommand ==
  /\ Executing
  /\ asr' = Latched
  /\ reason' = "stop"
  /\ Command
  /\ UNCHANGED <<registers, M, PR, trp_req, image, pos, queued, intrpt_pending,
                 job>>

----------------------------------------------------------------------------
(* The transfer engine: asr_svc and asr33_poll. *)

Polled(m) == Running /\ queued /\ asr.active /\ asr.mode = m

\* A transfer that has stopped leaves its event behind.
IdleService ==
  /\ Running
  /\ queued
  /\ ~asr.active
  /\ queued' = FALSE
  /\ UNCHANGED <<asr, registers, M, cpu, image, pos, intrpt_pending, job,
                 epoch>>

\* Nothing typed yet, or the console is lost: asr_svc polls again later.
NothingTyped ==
  /\ Polled("keyboard")
  /\ UNCHANGED vars

\* Ctrl-E: the transfer is given up.
KeyboardStop ==
  /\ Polled("keyboard")
  /\ asr' = [asr EXCEPT !.active = FALSE]
  /\ queued' = FALSE
  /\ UNCHANGED <<registers, M, cpu, image, pos, intrpt_pending, job, epoch>>

\* Mutant: the polling program is not told of the end of the tape.
TapeErrorSilent ==
  /\ Polled("tape")
  /\ ~image \/ pos = Len(Tape)
  /\ asr' = [asr EXCEPT !.active = FALSE, !.status = 7]
  /\ queued' = FALSE
  /\ intrpt_pending' = TRUE
  /\ UNCHANGED <<registers, M, cpu, image, pos, job, epoch>>

\* No tape, or the end of the tape.
TapeError ==
  /\ Polled("tape")
  /\ ~image \/ pos = Len(Tape)
  /\ asr' = [asr EXCEPT !.active = FALSE, !.status = 7]
  /\ R9' = 0
  /\ queued' = FALSE
  /\ intrpt_pending' = TRUE
  /\ UNCHANGED <<R10, R11, M, cpu, image, pos, job, epoch>>

\* Mutant: what lies beyond the end of memory is dropped.
WriteByteNoWrap(a, c) ==
  /\ M' = IF a < Half THEN [M EXCEPT ![a] = c] ELSE M
  /\ UNCHANGED trp_req

\* write_byte, under the key of whichever program runs.
write_byte(a, c) ==
  IF VA_TO_PA(a) \in Locked /\ ~PR
    THEN trp_req' = TRUE /\ UNCHANGED M
    ELSE M' = [M EXCEPT ![VA_TO_PA(a)] = c] /\ UNCHANGED trp_req

\* What a character that is not the last leaves behind.
Moved == [asr EXCEPT !.mem_addr = @ + 1, !.bytes_left = @ - 1]

Matches(c) == asr.stop_on_compare /\ c = asr.compare_char

\* Mutant: the low byte is not cleared first.
LastCharAdded(c) == R11 + c

LastChar(c) == R11 - (R11 % Base) + c

\* The count of characters left, with the z bit of the transfer.
Unread == (Moved.bytes_left % Half) + Half

\* Mutant: only a stop on the character is reported.
EndUnlessExhausted(matched, R9AtMatch) ==
  /\ asr' = [Moved EXCEPT !.active = ~(matched \/ Moved.bytes_left = 0)]
  /\ R9' = IF matched THEN R9AtMatch ELSE R9
  /\ intrpt_pending' = (intrpt_pending \/ matched)
  /\ queued' = asr'.active

\* The end of asr33_poll: a transfer that does not stop on its character
\* stops when the count is exhausted.
EndOfCharacter(matched, R9AtMatch) ==
  LET ended == matched \/ Moved.bytes_left = 0
  IN  /\ asr' = [Moved EXCEPT !.active = ~ended,
                   !.status = IF ~ended THEN @
                              ELSE IF asr.mode = "write" THEN 2 ELSE 3]
      /\ R9' = IF matched THEN R9AtMatch ELSE IF ended THEN 0 ELSE R9
      /\ intrpt_pending' = (intrpt_pending \/ ended)
      /\ queued' = ~ended

Recorded(c) == job' = [job EXCEPT !.chars = Append(@, c)]

\* A character is typed.
KeyboardCharacter ==
  /\ Polled("keyboard")
  /\ \E c \in Typed :
       /\ write_byte(asr.mem_addr, c)
       /\ R11' = LastChar(c)
       /\ EndOfCharacter(Matches(c), Unread)
       /\ Recorded(c)
  /\ UNCHANGED <<R10, PR, reason, image, pos, epoch>>

\* A character is read from the tape; the stop character leaves register 9
\* alone and the count in register 11.
TapeCharacter ==
  /\ Polled("tape")
  /\ image
  /\ pos < Len(Tape)
  /\ LET c == Tape[pos + 1]
     IN  /\ write_byte(asr.mem_addr, c)
         /\ R11' = IF Matches(c) THEN Unread ELSE LastChar(c)
         /\ EndOfCharacter(Matches(c), R9)
         /\ Recorded(c)
  /\ pos' = pos + 1
  /\ UNCHANGED <<R10, PR, reason, image, epoch>>

\* A character is printed.
PrintCharacter ==
  /\ Polled("write")
  /\ EndOfCharacter(FALSE, R9)
  /\ Recorded(M[VA_TO_PA(asr.mem_addr)])
  /\ UNCHANGED <<R10, R11, M, cpu, image, pos, epoch>>

----------------------------------------------------------------------------
(* The operator, while the simulator is stopped, and the processor. *)

\* The operator's STOP; also a breakpoint, a halt, or another device's error.
OperatorStop ==
  /\ Running
  /\ reason' = "stop"
  /\ UNCHANGED <<asr, registers, M, PR, trp_req, image, pos, queued,
                 intrpt_pending, job, epoch>>

Continue ==
  /\ ~Running
  /\ reason' = "run"
  /\ UNCHANGED <<asr, registers, M, PR, trp_req, image, pos, queued,
                 intrpt_pending, job, epoch>>

Cleared == [asr EXCEPT !.active = FALSE, !.mode = "idle", !.status = 0,
                       !.bytes_left = 0, !.mem_addr = 0]

\* Mutant: the new tape does not stop the transfer.
AttachKeepsTransfer ==
  /\ ~Running
  /\ image' = TRUE
  /\ pos' = 0
  /\ Command
  /\ UNCHANGED <<asr, registers, M, cpu, queued, intrpt_pending, job>>

\* asr33_attach: the tape is rewound.
Attach ==
  /\ ~Running
  /\ image' = TRUE
  /\ pos' = 0
  /\ asr' = Cleared
  /\ Command
  /\ UNCHANGED <<registers, M, cpu, queued, intrpt_pending, job>>

\* asr33_detach
Detach ==
  /\ ~Running
  /\ image
  /\ image' = FALSE
  /\ asr' = [asr EXCEPT !.active = FALSE]
  /\ Command
  /\ UNCHANGED <<registers, M, cpu, pos, queued, intrpt_pending, job>>

\* asr33_reset: the event stays queued.
Reset ==
  /\ ~Running
  /\ asr' = Cleared
  /\ Command
  /\ UNCHANGED <<registers, M, cpu, image, pos, queued, intrpt_pending, job>>

AfterLeader == {i \in 1..Len(Tape) : Tape[i] # 0}

\* asr33_boot: rewind, skip the leader, load, reset, and enter the program of
\* level 6.  The locks are those of the key the machine was stopped with; the
\* trap they raise is cleared by cpu_reset.
Boot ==
  /\ ~Running
  /\ image
  /\ \E first \in AfterLeader :
       /\ \A i \in AfterLeader : first <= i
       /\ pos' = IF first + BootMax - 1 < Len(Tape)
                   THEN first + BootMax - 1 ELSE Len(Tape)
       /\ M' = [a \in Address |->
                  IF first + a <= pos' /\ (PR \/ a \notin Locked)
                    THEN Tape[first + a] ELSE M[a]]
  /\ asr' = Cleared
  /\ PR' \in Keys
  /\ trp_req' = FALSE
  /\ intrpt_pending' \in BOOLEAN
  /\ reason' = "run"
  /\ job' = NoJob
  /\ Command
  /\ UNCHANGED <<registers, image, queued>>

\* asr33_boot of a tape that is all leader: SCPE_FMT, the coupler as it was.
BootBlankTape ==
  /\ ~Running
  /\ image
  /\ AfterLeader = {}
  /\ pos' = Len(Tape)
  /\ UNCHANGED <<asr, registers, M, cpu, image, queued, intrpt_pending, job,
                 epoch>>

\* The processor takes the interrupt or the trap, or runs another program
\* (see Deroute).
Processor ==
  /\ Running
  /\ \/ intrpt_pending /\ intrpt_pending' = FALSE /\ UNCHANGED <<PR, trp_req>>
     \/ trp_req /\ trp_req' = FALSE /\ UNCHANGED <<PR, intrpt_pending>>
     \/ PR' \in Keys /\ UNCHANGED <<trp_req, intrpt_pending>>
  /\ UNCHANGED <<asr, registers, M, reason, image, pos, queued, job, epoch>>

----------------------------------------------------------------------------

Init ==
  /\ asr = [active |-> FALSE, mode |-> "idle", status |-> 0,
            stop_on_compare |-> FALSE, compare_char |-> 0,
            mem_addr |-> 0, bytes_left |-> 0]
  /\ R9 = 0 /\ R10 = 0 /\ R11 = 0
  /\ M = [a \in Address |-> 0]
  /\ PR = FALSE
  /\ trp_req = FALSE
  /\ image = FALSE
  /\ pos = 0
  /\ queued = FALSE
  /\ intrpt_pending = FALSE
  /\ reason = "stop"
  /\ job = NoJob
  /\ epoch = 0

Program ==
  \/ StoreRegister
  \/ \E m \in Mode \ {"idle"} : Start(m)
  \/ Rest
  \/ Suppress
  \/ UnknownCommand

asr_svc ==
  \/ IdleService
  \/ NothingTyped
  \/ KeyboardStop
  \/ KeyboardCharacter
  \/ TapeError
  \/ TapeCharacter
  \/ PrintCharacter

Operator ==
  OperatorStop \/ Continue \/ Attach \/ Detach \/ Reset \/ Boot \/ BootBlankTape

Next == Program \/ asr_svc \/ Operator \/ Processor

Spec == Init /\ [][Next]_vars

\* While it runs the simulator serves its event queue, so that asr_svc is
\* called again and again.  Nothing is assumed of the program, nor of the
\* operator, who may never type and may stop the simulator at any time.
Fairness == WF_vars(IdleService \/ TapeError \/ TapeCharacter \/ PrintCharacter)

FairSpec == Spec /\ Fairness

----------------------------------------------------------------------------
(* Properties. *)

\* The type of every variable.
TypeOK ==
  /\ asr \in AsrState
  /\ R9 \in Word /\ R10 \in Word /\ R11 \in Word
  /\ M \in [Address -> Byte]
  /\ PR \in BOOLEAN
  /\ trp_req \in BOOLEAN
  /\ image \in BOOLEAN
  /\ pos \in 0..Len(Tape)
  /\ queued \in BOOLEAN
  /\ intrpt_pending \in BOOLEAN
  /\ reason \in {"run", "stop"}
  /\ job \in [start : Nat, asked : Nat, chars : Seq(Byte)]
  /\ epoch \in 0..1

\* A transfer in progress always has its event in the queue: no order of
\* commands, resets, tape changes and events leaves it without service.
ServicedUntilDone == asr.active => queued

\* Every character moved is where the transfer put it, in order and counted
\* once, also across the end of memory and after the transfer; only a locked
\* word may differ.  With it, asr33_poll never sees a count of 0 at its entry.
TransferInPlace ==
  /\ asr.active => /\ asr.bytes_left > 0
                   /\ Len(job.chars) + asr.bytes_left = job.asked + 1
                   /\ asr.mem_addr = job.start + Len(job.chars)
  /\ \A i \in DOMAIN job.chars :
       LET a == VA_TO_PA(job.start + i - 1)
       IN  a \in Locked \/ M[a] = job.chars[i]

\* What a transfer has read from the tape is what the tape holds before the
\* reader: none skipped, none read twice, whoever started it and however the
\* tape was stopped, changed or booted from before.
TapeInOrder ==
  asr.active /\ asr.mode = "tape" =>
    /\ Len(job.chars) <= pos
    /\ job.chars = SubSeq(Tape, pos - Len(job.chars) + 1, pos)

\* A transfer that ends without a command leaves a request, unless the
\* operator typed Ctrl-E; and no request comes from anything else.
EndsReported ==
  [][epoch' = epoch =>
       /\ (asr.active /\ ~asr'.active /\ ~KeyboardStop => intrpt_pending')
       /\ (~intrpt_pending /\ intrpt_pending' => asr.active /\ ~asr'.active)]_vars

\* A program that started the tape reader or the printer without a stop
\* character, and polls register 9 until it is 0, comes to the end of its
\* loop, unless another command intervenes or the simulator stops; also when
\* the tape ends first or is not there.
PollLoopEnds ==
  \A k \in 0..1 :
    (/\ Running /\ asr.active /\ epoch = k
     /\ asr.mode \in {"tape", "write"} /\ ~asr.stop_on_compare)
      ~> (R9 = 0 \/ epoch # k \/ ~Running)

=============================================================================
