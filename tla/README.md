# Mitra-15 for SIMH: a TLA+ model, its checks and its proofs

The repository simulates the Mitra-15, a French minicomputer of the 1970s, on top of SIMH. This
directory models what its C code (`src/Mitra`) does where testing is hardest: how the processor
changes program, what its instructions compute and how they address memory, how sections call each other,
how the teletype transfers characters beside the program, and how an I/O instruction finds its device.
It also models the two tools beside the simulator, the assembler and the disassembler, which must read and
write the same words as the processor.

## The system

Built from the makefile's `MITRA` list: `mitra_cpu.c mitra_instr.c mitra_instr_utils.c mitra_deroute.c
mitra_RD_WD.c mitra_io.c mitra_sys.c` and the devices `IO_asr33.c IO_DRI_fix_disk.c IO_front_panel.c
IO_punched_tape.c IO_printer.c IO_card_reader.c`. Everything runs in one host thread: `sim_instr` loops,
calling `sim_process_event` (which calls device service routines) between two instructions. Interleaving
is between instructions, device events and the operator's commands, at that grain.

| Component | State | Operations | Interacts through |
|---|---|---|---|
| Interrupts, traps, supervisor (`mitra_deroute.c`) | `curr_int_lvl`, `intrpt_pending`, indicators PR/MA/MS, save areas in memory, `trp_req_bits`, register 8 | `mitra_interrupt_accept`, `mitra_interrupt_return` (DIT, DITR), `mitra_trap`, CSV, RSV, `get_BOOT_ENTRY_ADDR` | memory (locked words), the bit map the devices set |
| Instruction loop (`mitra_cpu.c`) | `reason`, P, memory `M`, locks `MP` | `sim_instr`, `cpu_reset`, `read_word`, `write_word`, `write_byte` | calls all of the others |
| Instructions (`mitra_instr.c`, `mitra_instr_utils.c`) | registers, condition codes | one function per family | memory, traps, `io_rwd` |
| Direct I/O (`mitra_io.c`, `mitra_RD_WD.c`) | `dio_disp[128]` | `io_init`, `io_rwd` | calls the device handlers |
| Teletype (`IO_asr33.c`) | `asr_state`, registers 9 to 11, the tape file, the SIMH event queue | WD commands, `asr_svc`/`asr33_poll`, attach, detach, reset, boot | writes memory and registers of the processor, sets level 6 |
| Disk, suspensions (`IO_DRI_fix_disk.c`, `mitra_deroute.c`) | phase, unit, suspension stack | `dri_wd`, `dri_suspension_handler`, `mitra_suspension_*` | channel registers in memory |
| Tape, punch, printer, cards, panel | transfer state, lights | WD, RD, poll, attach | channel registers in memory |
| Assembler (`src/Assembler`, Python) | labels, current address, the code | two passes over a source, or the words of a listing | the file of words the simulator boots |
| Disassembler (`src/Disassembler/disassembler_v7.c`) | marks on each word, a work list, the labels | search for text and tables, trace, list | the same file; its listing is input of the assembler |

What is hard: the order of requests, masks, traps and returns; contexts saved word by word under locks
that may refuse some of the words; a reset that keeps part of the state; a device that writes memory and
registers under whichever program runs; events left in the queue; addresses and counts at their limits;
a table built once from a list that changes. `PROJECT.json` lists each of these hazards at its line with
the properties that would catch it.

What makes each component correct: *interrupts* - a request is served once its level is the highest and
not dropped by the processor, a program resumes with its own registers, a slave never obtains the key; *teletype* - each
character is moved once, in order, to its place, and the program learns of the end; *direct I/O* - a mode
reaches the device that claims it and no other; *disk* - a transfer moves the sectors asked for and ends;
*arithmetic* - operations that belong together agree (CMP with SUB, DIV with MUL, the halves of a double
word), with C and OV; *addresses* - a slave program does the same wherever it is loaded; *sections* - every
return finds its caller; *assembler and disassembler* - the four instruction tables agree, the trace finds
the code and only the code, a listing assembles to its image, a label is where its line is.

## Modules

| Module | What it is |
|---|---|
| `Deroute` | The loop of `sim_instr`: pending trap, acceptance, instructions that leave a program or touch a lock, device requests, operator. |
| `AtLeastOnce` | What the interrupt levels promise, without contexts, indicators, traps or locks. |
| `DerouteProofs` | Theorems about `Deroute`, for all values of its constants. |
| `Asr33`, `Asr33Proofs` | The teletype with the registers, memory, tape and event queue it works on; theorems about it. |
| `DirectIO`, `DirectIOProofs` | `io_init`, the decoding of E and `io_rwd`; theorems about the table. |
| `DerouteClaims`, `Asr33Claims`, `DirectIOClaims` | What comments of the code say and the code does not do. |
| `Operations`, `OperationsProofs` | What each instruction computes from the registers and an operand: pure operators; lemmas about each of them. |
| `Floating` | The floating option on top of it. |
| `Alu`, `AluProofs` | The registers under any sequence of those instructions; theorems about arithmetic. |
| `Program` | The instructions that use an address, over memory, locks and traps. It `EXTENDS Operations`. |
| `Relocation` | `Program` loaded at G against the same `Program` loaded at 0 (a refinement of a module by itself). |
| `Sections` | `Program` with the stack of calls that its links in memory stand for. |
| `ProgramProofs` | Theorems about `Program` and `Sections`. |
| `Codec` | One word as read by the disassembler, the simulator's listing, the processor and the assembler's tables. |
| `Listing` | The disassembler on an image, and the assembler on the listing. |
| `Assembler` | The two passes of the assembler over a source program. |
| `ToolsProofs` | Theorems about `Listing`, `Assembler` and `Codec`. |
| `Induction` | Induction over numbers, and functions defined by recursion, in the form the proofs use. |
| `MCDeroute` ... `MCAssembler` | Values of the constants for the runs, one module for each of the state machines. |

`Operations` and `Codec` hold what is shared: `Alu` and `Program` execute the same operators, `Listing` and
`Assembler` use the same tables. Some definitions are followed or preceded by one marked `Mutant:`; it is a
plausible bug in that definition, used to make sure that a property notices it. No specification uses it.

### Deroute

`Next` follows `sim_instr`: a trap that is pending is taken first, then a request above the level, and only
then does an instruction run (`Executing`). Correspondence: `ind` is `cpu_state.PR/MA/MS`, `ctx[l]` the
save area of level *l*, `cds[p]` the indicator word CSV stores in the data section of program *p*, `MP` the
locked words, `trp_req` the protection bit of `trp_req_bits`, `frame` whose registers bytes 2 to 9 hold.

Abstractions:
- Registers are represented by their owner: `task` is the level whose program's registers the processor
  holds. Arithmetic on L, P and G does not occur.
- A save area is two lockable words, the indicators and "the registers"; low memory is one; `Data` is any
  other. LDP and TES change the lock of the word they end up at (their index arithmetic is left out).
- A program may execute any instruction of the model at any time, and the operator may stop and resume the
  machine between any two steps. `OperatorStop` also stands for breakpoints, halts and device errors.
- The contents of the context table and of the supervisor table are constants, as programs do not move them;
  programs do not write over save areas, nor STR into register 8, nor does the operator deposit there.
- A pointer that `cpt_lookup` accepts is below 32768, so that, decoded as indicators (which DIT does), it
  never carries PR (`PointerAssumption`). The image grants PR only with MS (`ImageAssumption`).
- The high-speed path of acceptance and the suspension stack are left out; no device of the build asks for
  the former. Only `asr_interrupt` writes `intrpt_pending`: the other devices call
  `io_interrupt_dispatch`, which sets register 8 and no request. The cause bits that a trap stores at
  byte 2 are not kept.

History variables: `faulter` (who caused the last trap) is only read by a claim.

### Asr33

One record, `asr`, is `asr_state`; `R9 R10 R11` are `reg_cnt_MAE reg_curr_MAE reg_Work_MAE`; `queued` says
that `asr_unit` is in SIMH's event queue (`sim_activate` of a queued unit changes nothing). WD commands are
`Start`, `Rest`, `Suppress` and `UnknownCommand`; one call of `asr_svc` is `IdleService`, or one of the
branches of `asr33_poll` followed by its common end (`EndOfCharacter`).

Abstractions: a byte has `Base` values instead of 256 (a word `Base^2`, memory `Base^2 / 2` bytes), so that
the bit fields of the registers and the wrap of addresses are exact at a size TLC can cover; the stored
`last_char` and RD are dropped (an E that means RD selects mode 0, so that no E reaches `asr33_rd`); the locks are fixed; what
programs store and the operator types come from small sets. Three branches of `asr33_poll` cannot run
and are not modelled: an entry with `bytes_left == 0` (`TransferInPlace` shows that a transfer in progress
has `bytes_left > 0`), `c == EOF` from the keyboard (`sim_poll_kbd` does not return it), and the echo of
printed characters into the tape, which SIMH opens read-only. `job` and `epoch` are history: the
transfer last started with the characters moved, and a bit that flips at every command.

### DirectIO

The device list is chosen in `Init` and fixed from then on; `Reset` builds the table from it. As the list
stands, the fourth device clashes with the second, so that `io_init` stops before the teletype: `Deroute`
and `Asr33` describe the mechanisms of the code as they work once the table is complete.

The table has 128 entries and a mode has 8 bits. An E with a mode of 128 or more makes `io_rwd` read behind the
table: what it finds there (`Unknown`) and does is left open, and `TypeOK` says that nothing else is.

### Operations, Floating and Alu

Each operator takes the registers as a record and returns them: `Mem_OP_Reg_To_Reg` (loads, arithmetic),
`StoredValue` and `AfterStore` (`Reg_OP_Mem_To_Mem`), `ShiftRegister` (SHR), `shift_instr` (SHC),
`set_register` (SRG), `floating_inst`. A word has `Width` bits, 16 in the code, and every operator is written
for any width, so that small words keep each boundary: sign, carry, largest count, the cut of a product.
The shifts go one position at a time, as the loops of the code do. `DIV` keeps the order of the code, which
cuts the quotient to a word before it tests it. `Alu` is the state machine over them; DIV of the smallest
double word by -1, which ends the host process, is not a step of it.

The code does floating arithmetic in the host's `double`, which holds every number of 24 bits and their sums
and products exactly enough for its own rounding; `Floating` uses exact fractions. The exponent, which the code takes from
`log(x)/log(16)`, and the rounding to the mantissa by `pow` and `llround` are modelled by what they do
(`Magnitude`, `Carried`). The radix is a power of two, 16 in the code.

### Program, Relocation and Sections

`Program` has one action for each family of instructions. The program is not fetched from memory: any
instruction of `Repertoire` (operation, address form, displacement) may come next, at most `MaxSteps` of
them. Memory, the five indicators, the locks `MP`, the trap sequence of `mitra_trap` and the two ways to
leave the simulator are as in the code: `Done` is the end of `one_inst`, where an odd word address means
`exit`, and a refused store a protection trap. `BoundTrap` is CSV of a section out of bounds, whose program goes
on where the trap fails; it counts as a trap then too, so that `Sections` follows no return of it. SHR, SRG and SHC are here too in their DL and PX forms, which
take the operation from a word or from X; the width of the count (`CountSpan`, 32 in the code) is a constant,
because the parameter must fit a small word. DITR, and DIT, STM and CLM, are in `Deroute`; RD and WD in
`DirectIO`.

`Relocation` instantiates `Program` with the registers and the memory seen from G, and asks that every step
of a slave program loaded at G is a step of the same program loaded at 0, from the same registers. Left out
of the claim (`Absolute`) is what reads or leaves an absolute address by design: SPA, CPS, TES, CSV, RSV, LDP,
LDR and STR of P, L or G, and the instructions a slave is refused, whose trap goes by the table at address 12;
and steps that trap or run under locks, which belong to a place in memory. G must be even: STR of a master
can make it odd, and then the words of the program at 0 are at odd addresses at G. (Both exclusions came out
of the proof; TLC's instance has no program with an odd G and no supervisor's table at an odd address.)

`Sections` adds the stack of calls. It restricts the program to what it may be asked to respect
(`Disciplined`): it returns from what was called last, does not call an active section again, does not call
the supervisor from the supervisor (the second call would overwrite the three words at G), and stores
over no link. Without these a wrong return is the program's own doing.

### Codec and Listing

`Codec` has the four readings of a word: `decode_insn` (disassembler), `fprint_sym` (simulator), `Executed`
(what `one_inst` runs) and the opcode tables of the assembler. `Listing` starts from an image and the
options that matter to the trace (the value of G, absolute indirection): `Init` is the search for text and
tables, `Trace` one word of the work list, then the end of a pass, the lines and the assembly of each
line. The passes may run out before the last return cell found has
been taken out of the trace: `SlotsAreData` speaks of traces that ended by themselves, as the code prints the
marks it has. `TraceIsClosed` names the two places where the trace stops before the processor would: a return
that is one only by its displacement (`NamedReturn`), and a call behind a word that looked like text
(`IsCalled`). A name is the word it stands for. The tables of the supervisor, the annotation file, the comments and
the layout are left out, and L is 0.

### Assembler

A line is read already: a label, what it is, and its operands, each a number, a name or a string.
`first_pass` and `second_pass` process one line each with the one `current_address` the code has (`address`),
which the data directives advance and the second pass then advances again. `EquLabels` is the loop over the EQU
lines before the first pass. `labels` and `emitted` are `labels` and `output` of the code; `starts` and `words`
are history: where the bytes of each line begin, and the word of each line that is an instruction. Details
that differ between instructions are kept: LEA looks up an indirect name as a label only, a mode in the
place of an operand is read by SRG instructions only (`SrgMode`), and RES by an unknown name counts 1.
`SourceLine` lists what a line can be, and `SourcesAssumption` that a directive with a mandatory operand has it
(`parse_operand` and `resolve_expression` get text there). Expressions with + and -, the reading of lines and
the output files are left out.

## Runs

Run with `tlc -config X.cfg M`. CHECK_DEADLOCK is on everywhere.

| Run | Bounds | Shows |
|---|---|---|
| `deroute_two` | 2 levels, both call the supervisor; locks on the two words of area 0 and low memory; image with user and master programs | `KeyNeedsMaster`, `SlaveConfined`, `NoSilentContextLoss`, over every combination of locks |
| `deroute_levels` | 4 levels, level 1 without a context, the pointer of level 2 decodes to MA, level 0 calls a supervisor that has no table; fair loop | `LevelOwnsRegisters`, `RequestsNeverLost`, `RequestHonoured`, `WedgedRequestKept`, `WedgedUntilReset`, refinement of `AtLeastOnce` |
| `asr33_transfer` | bytes of 4 values, memory of 8 bytes, tape `<<0, 1, 2>>`, start at the last byte of memory, count of 1 with the stop condition, word 1 locked, programs without the key, boot of 2 bytes | `ServicedUntilDone`, `TapeInOrder`, `TransferInPlace`, `EndsReported` |
| `asr33_live` | the same memory without locks, a tape of two blank characters, a count of 2 (three characters, one more than the tape holds) with and without the stop condition, fair event queue | `PollLoopEnds` |
| `directio_lists` | all lists of up to 3 devices over 4 modes, one of them illegal | `TypeOK`, `TableIsConfiguration` |
| `alu` | words of 4 bits, 7 operands at the ends of the range, counts 0 to 7; floats of a 3-bit characteristic and two digits in base 4 | `TypeOK`, `DoubleAddition`, `CompareAgreesWithSubtract`, `MultiplyDivide`, `ShiftsScale`, `NormalizeUndone`, `ParityAdds`, `FloatOrder`, `FloatNormalForm` |
| `program` | words of 6 bits, 16 words of memory, a master and a slave with two locks, each with and without a supervisor's table, and a slave at 52, whose memory goes around the end; every family of instructions in every form, every pair | `TypeOK`, `StringCopied`, `Relocatable` |
| `sections` | words of 8 bits, 64 of them, three sections and a supervisor's table, both modes, 6 instructions | `ReturnsToCaller`, `MasterSubroutineReturns` |
| `listing` | every kind of word alone, all programs of 5 words over 7, an image of 11 words with a section table; 4 sets of options | `NamesAgree`, `DecodesAsExecuted`, `SlotsAreData`, `TraceIsClosed`, `RoundTrip` |
| `assembler` | every mnemonic in 8 modes with 6 operands; all programs of 3 lines over 19 lines and of 4 lines over 8 | `BranchesReachLabels`, `LabelsInStep`, `AssembledAsWritten` |

Why the bounds are enough. Two levels suffice for a preemption and for every combination of saved,
half-saved and unsaved contexts. Four are needed for the second run: a level without a context below two
that have one, so that DIT and acceptance meet the failed look-up from above and from below, and a return to
a level that is neither 0 nor the one preempted. For the teletype, a count of one moves two characters, a
first and a last, and the start at the last byte of memory makes the second one wrap. Arithmetic has no case
that depends on the width, and a word of 4 bits has a left half, a right half and each sign; the theorems
of `AluProofs` lift the bound for every property of the run. Two instructions are enough for `Relocatable`,
because the refinement is checked step by step and the first one moves the registers the second uses. Six
instructions nest two section calls under a supervisor call and return from all of them, or trap in between.
A pass of the listing can find at most one new kind of return cell in these images, so that two passes are
the most that occur; the limit of 8 is not met. An assembler program of four lines has a definition, a use
and two lines in between that can shift one against the other.

Two runs expect a violation; each is a finding in `PROJECT.json`:

| Run | The code |
|---|---|
| `deroute_dit_load` | DIT to level 0 does not load the registers of level 0 |
| `assembler_phase` | a branch after a reservation, data, ORG or a refused instruction misses its label |

More claims are stated beside the models and refuted by TLC in the same way. They are smaller or follow from
one line of the code, and are not among the runs; the configurations are kept:

| Configuration, module | Property | The code |
|---|---|---|
| `deroute_dit_clear.cfg`, `MCDeroute` | `RequestTakenIsCleared` | DIT leaves the request of the level it resumes |
| `deroute_reset.cfg`, `MCDeroute` | `ResetClearsRequests` | `cpu_reset` leaves `intrpt_pending`, which `IO_asr33.c:586` says is 0 behind it; `RequestsNeverLost` leaves reset and boot out |
| `deroute_frame.cfg`, `MCDeroute` | `FrameHoldsFaulter` | a trap taken while low memory is locked keeps the frame of the former trap |
| `asr33_unread.cfg`, `MCAsr33` | `TapeStopReportsCount` | the tape's stop character puts the count in register 11, not in register 9 |
| `asr33_ctrl_e.cfg`, `MCAsr33` | `CtrlEStops` | Ctrl-E drops the transfer and does not stop the simulator |
| `directio_usable.cfg`, `MCDirectIO` | `TeletypeUsable` | two devices claim one mode and `io_init` stops before the teletype |
| `directio_disk.cfg`, `MCDirectIO` | `DiskReached` | the documented E of a disk transfer selects another mode (list without the panel) |
| `directio_table.cfg`, `MCDirectIO` | `ModesInTable` | a mode has 8 bits and the table 128 entries |
| `sections_spa.cfg`, `MCSections` | `SubroutineReturns` | SPA in a slave program stores an address to which the branch adds G' again |
| `listing_text.cfg`, `MCListing` | `BranchTargetsAreCode` | a text reached by fall-through first is not traced when a branch leads to it |
| `listing_calls.cfg`, `MCListing` | `CallsReturn` | the word behind a call is not traced when the SPA before it looked like text |

Other comments that the code contradicts, visible in the models at the same lines, have no run of their own.

- Interrupts: DIT saves nothing, its assignments are comma expressions (`mitra_deroute.c:574`); acceptance does
  not save into a locked area (`:485`); register 8 names the level last requested, not the one that runs
  (`mitra_io.c:222`); `mitra_trap` reads section 0 of the supervisor P-base first and adds G, CSV L-base first
  and without G; the bound trap of CSV passes P already incremented, and its result is ignored (`BoundTrap`).
- Teletype and table: a transfer moves one byte more than its count (`IO_asr33.c:306` against `:89`); the
  tape's stop character is overwritten in register 11 (`:488`); disabled devices stay in the table
  (`mitra_io.c:143`).
- Instructions: the word 0 (LDA DL 0) is not executed (`mitra_cpu.c`, `if (inst != 0)`); in slave mode CPS DL and
  CNA trap as privileged, and the P and PX forms of STR and LDP do not trap but do nothing; a word at an odd
  address ends the simulator after its trap; CLS has no bound check; TES sets its indicators from the
  address; LDP and TES lock by byte address what `write_word` looks up by word; CPS returns an address
  without taking G off; MVS moves its last byte first.
- Disassembler: `-L`, `-G`, `--disp-words` and `--rel-from-next` make a listing that does not assemble to its
  image; SHR, SRG and SHC in the DL and PX forms are named by their displacement; some words the processor
  executes are listed as data (SRG with a displacement above 0x1F, SHC of the types without a name); the header says
  `g_disp_scale` is 2 (`:265`), it is 1 (`:319`); a BRX table is assumed to follow its BRX.
- Assembler: BND always emits a byte in the second pass; a branch over more than 255 words is cut with a
  warning; a name such as BAD reads as a number; END stops the first pass only; RES by a name not yet defined counts 1 in
  the first pass; `ORG $10` is ignored; a line of a listing changed in bit 0 alone is overridden by its hexadecimal
  column (`:1312`).

### Fairness

`Deroute!Fairness` is WF of `PendingTrap \/ AcceptInterrupt`: `sim_instr` never waits, so that while it runs
and finds a trap or a request it serves one. Programs owe nothing, and devices may raise requests for
ever. `Asr33!Fairness` is WF of the service steps that do not need the operator: the loop calls
`sim_process_event`, which calls `asr_svc` as long as the unit is queued. Nothing is assumed of what
is typed, nor of programs. The other specifications have no liveness property and no fairness: a program,
a trace or an assembly ends when its bound or its input does.

## Proofs

`tlapm M.tla` checks each of `DerouteProofs`, `Asr33Proofs`, `DirectIOProofs`, `AluProofs`, `ProgramProofs`,
`ToolsProofs` and the lemmas they share in `OperationsProofs` and `Induction`. (`--stretch 2` gives a slow
machine time.) The theorems hold for every number of levels, choice of connected levels, pointers, images
and locks, byte size, tape and register value, device list, width of a word, repertoire and start of a
program, radix and size of a mantissa, image to disassemble and set of options, and source program of any
length. They assume what the modules
name and TLC evaluates in the runs: `LevelsAssumption`, `PointerAssumption`, `ImageAssumption`,
`ProgramsAssumption` (`Deroute`); `BaseAssumption`, `InputsAssumption` (`Asr33`); `ConfigurationsAssumption`,
`ModesAssumption` (`DirectIO`); `WidthAssumption`, `AluAssumption`, `FloatingAssumption` (the fields of a
number fill two words); `StartAssumption`, `RepertoireAssumption`, `IndicatorsAssumption` (a word has room for
five indicators), `LayoutAssumption` (links, save area and the program's own words lie apart);
`ImagesAssumption` (words of 16 bits at 15-bit places), `BoundsAssumption`; `NamesAssumption`,
`SourcesAssumption` (`Assembler`).

What a recursive function computes is proved by induction on a set of numbers, from the well-foundedness of
`<` on them (`Induction`): `RangeInduction` and `SetInduction` take the set where a statement holds instead of
the statement, and `Recursion` says that a function with a first value and a step is the one its definition
chooses. Powers of two come from the number of subsets of a set (`SubsetsCounted`, `Powers`), so that a shift by
k is a product or a quotient by `2^k`.

### Deroute

- `TypeCorrect`: `TypeOK` is inductive by itself; the lemmas `TrapType` and `SavedContext` say once what
  the trap and the save leave.
- `OwnRegisters`: `LevelOwnsRegisters` is inductive with `TypeOK`; its second conjunct (each save area of a
  connected level holds its own registers) is what makes the first one survive acceptance and DIT.
- `KeyHeldInMaster`: `KeyNeedsMaster` speaks of the processor, of every save area and of every
  stored CSV word, as each of the three is loaded from another; that makes it inductive.
- `NoLostRequest`, `ContextLossIsTrapped`, `SlavesAreConfined`, `WedgedStays`: action properties, each step
  under the invariants above.
- `WedgedKeepsRequest`: needs `TypeOK` only.
- `LevelsImplemented`: `Deroute` implements `AtLeastOnce` with `level <- curr_int_lvl`,
  `waiting <- intrpt_pending`, `running <- task`; each action maps to a step or a stutter.

### Teletype

From one inductive invariant `IInv == TypeOK /\ Counted /\ Placed /\ ServicedUntilDone`:

- `TypeCorrect`: `TypeOK` alone is not inductive, as `bytes_left` would go below 0 at a poll that finds
  0; `Counted` (characters moved and characters left add up to the count plus one) excludes it.
- `AlwaysServiced`: each step that leaves a transfer active also leaves its event queued.
- `TransfersInPlace`: `Placed` survives a new character because a transfer is at most as long as memory
  (`job.asked < Half`, in `Counted`), so that two of its characters never share an address
  (`RemaindersDiffer`, a lemma on remainders) and the wrap cannot overwrite an earlier one.
- `EndsAreReported`: an action property; `epoch` tells a command of the program or the operator, which may
  drop a transfer silently, from an end of the transfer itself.
- `TapeReadInOrder`: `TapeInOrder` is inductive under `IInv`. `PartOfTape` and `InPart` turn the
  subsequence into a statement character by character and back; the boot of a blank tape, which moves
  the reader under a transfer, keeps it only because all the characters of such a tape are equal.

### Direct I/O

- `TypeCorrect` and `TableFollowsConfiguration`: `BuiltFrom(b, i)` says what the table holds after the first i
  devices; `BuiltFurther` is one turn of the loop of `io_init`, and `Loop` the induction over the list. The
  table is unchanged after the first clash, which is why the claims behind it are missing.

### Arithmetic

Every property of the run `alu` is a theorem `Spec => []P`. `TypeStep` shows that every operator gives words
and bits; each property then holds in any state that has them.

- `TypeCorrect`: the quotient of `DIV` is a word only because it is cut to one; a result of the floating option
  is a double word because a magnitude exists for it (`MagnitudeFound`) and its mantissa, rounded, is below
  `Fraction` or is carried (`MantissaRounds`).
- `ComparisonIsDifference`: a difference of two words is one word or that word
  less the modulus (`Difference`); with it the sign of the true difference, which CMP leaves in OV, is a
  case split on the signs of the operands.
- `DoubleWordsAdd`: `SumOfWords` gives each of the three additions as a word and a carry
  of 0 or 1; the sum of the halves is then a double word and a multiple of `Doubles`.
- `ProductsDivide`: the high half of a product of positive words is positive
  (`ProductHalves`), so that DIV reads the product MUL left, and the quotient is a factor that fits.
- `ShiftsAreScales`: the code shifts one position at a time. `OneMore` says that k + 1 positions are k and one;
  on this `RightPositions`, `LeftPositions` and `CircularPositions` are inductions on k.
- `NormalizationUndone`: `NormalPositions` follows NLZ position by position: as long as it goes on the
  two first bits were equal, so that the arithmetic shift back restores both (`UndoneByShift`).
- `ParitiesAdd`: PTY turns the word and counts as it turns; `ParityRun` says that after k turns it has
  counted the k bits that went past, and `RotatedEnds` that it brings the word back.
- `NormalFormKept`: a number added to zero is written from itself alone (`WrittenAlone`); what was written is
  read back with the value it had (`ReadBack`) and written again as it is (`WrittenAgain`).
- `OrderKept`: two sums with one addend are brought to whole numbers on one scale (`Scaled`), where they keep
  the order of the numbers (`ScaledOrder`). Rounding keeps it too, within one characteristic and
  across two, where the lower one rounds up to the first number of the higher at most
  (`RoundingOrdered`); and a number is written in that order (`WrittenOrdered`), the carry of the mantissa included.

### Program and sections

- `WordsStayWords`: one lemma for each family of instructions. Each operator is stated over any set of
  machines that its assignments do not leave (`Machines(V)`), used once with all registers and once with those
  that have the L, G and mode of the start of the step (`Local`), so that the same lemma says which
  instructions keep the local base.
- `StringsAreCopied`: by induction on the bytes moved (`OneMoreByte`): byte n is the one the source had before
  the step, because MVS moves the last byte first and reads no place it has written, unless the source
  starts inside the destination, 1 to E - 1 bytes above its start (`SourceInside`), which the property excludes.
- `MasterReturns`: `CallInv`, that the word of the last SPA holds the address it stored as long as `call`
  has it.
- `CallersAreReached`: `FramesInv` is the invariant that relates the stack to memory. For each call that was not
  trapped over, the two links at the entered section or the three words at G hold what the frame recorded,
  relative to what the return will add; and the local base and mode of each frame are those the
  frame below entered, as links are found by them. `LinksKept` uses that sections do not overlap
  and that a section is not called while active. `G` never changes: `Disciplined` asks STR, ICL and DCL to
  leave L and G alone.

- `SlavesRelocate`: `Meets(a, b)` says that b is a and G up to whole turns of the 2^Width addresses. P and L
  of the two machines meet (`BasesMeet`); so do the addresses of every form (`AddressesMeet`) and of a branch
  (`BranchMeets`). Addresses that meet are in the same word of memory seen from G and are odd together
  (`MeetsCell`, which needs G even), so that both machines read and write the same (`RelativeWords`) and exit
  together (`EndRelative`). What an instruction computes does not look at P, L and G (`Based`,
  `RelativeAssigned`), and strings follow byte by byte (`MovedRelative`, `TranslatedRelative`). One lemma for
  each action then matches its step.

### Codec and listing

- `ListingsAgree`, `ListingIsExecuted`: for each word, by the tables (`PrintedAlike`, `ListedAsExecuted`). The
  exceptions in `DecodesAsExecuted` are where the processor reads the operation of SHR, SHC or SRG from an operand
  (forms DL and PX), and the word 0, which it skips.
- `NoCellIsTraced`, `NothingReachedIsMissed`: `TraceInv`, an invariant of the work list. What was seen is
  traced, waiting, or known data (`Tidy`); the words after a traced one were seen (`Closed`); and the count of
  cells the pass began with is that of a set no traced word is in (`Counted`). At the end of a pass with
  an unchanged count that set is all the cells, so that a trace that ends by itself has traced none.
- `ListingRoundTrip`: `ListInv`, that each printed line stands for its word (`Faithful`). `LineIsFaithful` splits by
  the forms of operands; `FirstByte` finds the operation back in the assembler's table, `WithAddress` the
  relative branches, and `Recovered` the words whose hexadecimal column repairs the rest.

### Assembler

From one inductive invariant `AssemblerInv == AssemblerType /\ FirstInv /\ SecondInv`. The two passes share no
address, so that a label and the code are not compared with each other: both are compared with a size that
depends on the text alone. `Size(l)` is the number of bytes of a line whose size is known from its text
(`Sized`), `Totals` their sum, and `Span(lines, i)` the bytes of the section of line i up to it.

- `FirstInv`: as long as the lines of a section are `Sized`, the address of the first pass is the span of the lines
  before (`PassedSize`, one case for each directive), and a label bound there holds it. A label whose only
  line defines it is never bound again.
- `SecondInv`: as long as the lines of a section take whole words (`Whole`), the place of a line in the output is
  that of its section and the span (`CodeSize`); as long as they are instructions that were accepted (`Pure`), the
  address at which an instruction is assembled is the span too. The second part asks for more than the first, as the
  address runs ahead behind every data directive; the refuted `JumpsReachLabels` shows what follows from it.
- `LabelsKeepStep`: the two halves, at the end of the second pass. Whole words are needed because the
  second pass pads according to its own address, which advances
  twice and so is even behind a line of odd length.
- `MnemonicsAssembled`: every word of `words` is `assemble_instruction` of its line at some address. By the
  kinds of instruction, with (`Assembly`) or without an operand (`BareAssembled`): the tables of the
  assembler (`Opcodes`) read by those of the disassembler (`SpecialRead`, `BranchRead`, `SystemRead`).
- `BranchesArrive`: `BranchLands`, that a relative displacement of an even distance within -510..510 is read back
  as that distance, at the two addresses the invariant gives. A label reads as a number only if it is one of
  `HexNames`, which the property excludes.

DATA and the sections are folds over a list: `AfterEachArgument`, `BuiltAll`, `EquLabelsAre` and `TotalsAre` say by
induction on the list what a fold does.

### Only model-checked

`RequestHonoured` and `PollLoopEnds`: liveness under fairness is out of the prover's reach. Every
other property of the passing runs is a theorem.

## Not modelled

- Disk, suspensions, tape reader, punch, printer, card reader and the commands of the panel: after the boot no
  instruction reaches them. `io_init` stops at the clash of the panel with the disk's mode; of the later devices the punch, the
  printer and the card reader hand it a function where it reads a `dib_t`, and the tape reader nothing; and no E of the list selects the disk with a value that its
  handler accepts (`DirectIO`). A model of their handlers would start from states the program is never in.
  They come next if the table is repaired.
- In `Program`: an LDP whose index leaves the array of the locks (undefined in the code), nested supervisor calls as a property (they overwrite the words at G, by design).
- In `Listing`: `discover_system`, annotations, the scan of routines for comments, and the older disassemblers.
  In `Assembler`: the parsing of text and expressions. `Listing` and `Assembler` have no type invariant among the
  runs, as it would repeat the table look-ups; what the proofs need of types is in `TraceInv` and `AssemblerType`.
- `Asr33` and `Deroute` are not composed: `Asr33!Processor` stands for the programs, their registers and
  requests. The composition would share `intrpt_pending`, PR and the pending trap.
- In `Deroute`, the high-speed path of acceptance, which no device asks for.
- Symbolic input (`parse_sym`), history and breakpoints by type, and the device files that the makefile leaves
  out.
