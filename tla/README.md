# Formal models of the ARMv6-M emulator

TLA+ modules for the emulator in this repository, TLC configurations that check
them on small instances, and TLAPS proofs for every instance. Source paths are
relative to the root of the repository.

## 1. The system

The program compiles a C file (`src/compiler.cpp`), loads the resulting ELF
file into two byte vectors (`Emulator::load_elf`) and runs 104 iterations of a
processor loop (`Emulator::startCpu`):

    currentInstrAddr = PC
    fetch; tick; async; decode; tick; nextInstrAddr = current + size; async;
    execute; tick; sync; async

`tick` advances the SysTick, `async` enters a pending SysTick exception, `sync`
a pending SVCall. Everything runs in one thread. What makes it hard is that the
timer and the exception checks fall *between* the steps of an instruction, that
members are computed in one step and used in another, that nothing masks an
exception, and that the firmware reprograms the timer while it runs.

| component | state | operations | interacts through |
|---|---|---|---|
| processor loop (`src/emulator.cpp:15-54`) | loop counter, `currentInstrAddr`, `nextInstrAddr`, fetched and decoded instruction | the eleven calls of the body | calls into the processor |
| exception entry (`src/cpu.cpp:2282-2472`) | `msp`, `psp`, `control`, mode, IPSR, active bits, PC, LR, r0-r3, r12 | `returnAddress`, `pushStack`, `exceptionTaken`, `exceptionEntry` | `exceptionPending`, RAM, vector table |
| SysTick (`include/system.hpp:69`, `src/system.cpp`, `Cpu::tick`) | CSR, RVR, CVR | `tick`, register writes, read of CSR | `exceptionPending[15]` |
| interrupt controller (`include/nvic.hpp`) | `line`, `prevLine`, `pending`, `enabled`, `active` | the eight methods of `CPU` | not wired to the loop |
| exception return (`src/cpu.cpp:2474-2807`) | as exception entry | `exceptionReturn`, `PopStack`, `deActivate` | not called by any code |
| instruction execution (`src/cpu.cpp:508-2054`) | `regs`, flags | one function per class | bus, `exceptionPending[11]` |
| decoder (`src/cpu.cpp:135-345, 979, 2056`) | decoded unions, class, size | `classify`, `handleMisc`, `decode` | its members, read by `execute` |
| ALU and shifter (`src/cpu.cpp:28, 433-491, 1047, 1351-1734`) | `regs`, N, Z, C, V | `addWithCarry`, `shift_c`, one case per opcode | flags, read by branches |
| memory bus (`src/cpu.cpp:17, 76-133, 717`) | RAM, flash | reads and writes of 8, 16, 32 bits | timer, SCB, UART |
| stack and block transfer (`src/cpu.cpp:779-864, 1213`) | RAM, `regs` | PUSH, POP, ADD/SUB SP, STM, LDM | bus |
| system control block (`src/system.cpp:158-217`) | registers | storage | nothing reads it |
| ELF loader (`src/emulator.cpp:56-182`) | file | `load_elf`, `write_block`, `zero_memory` | flash, RAM, initial registers |
| example firmware (`elf/`) | RAM, UART | `Reset_Handler`, `main`, handlers; `hlprintf`, which nothing calls | runs on the emulator |
| compiler driver, `main`, `Registers`, UART stub | - | - | - |

What makes each correct:

- *loop*: a request is served in the iteration that raised it; an instruction is
  executed with the PC it was fetched at; return addresses are those of fetched
  instructions; the run ends.
- *exception entry*: mode, IPSR, active bits and frames tell the same story
  under any nesting; frames lie in RAM and do not overlap.
- *SysTick*: it measures the period it was loaded for and loses no request.
- *interrupt controller*: no spurious interrupt, no starvation of a held line.
- *exception return*: it undoes the newest entry.
- *decoder*: total; what is executed depends on the instruction alone, not on what
  was decoded before it.
- *ALU*: the conditions a branch tests tell how the numbers compared before it
  compare.
- *bus*: one memory of bytes, whatever the sizes and alignments of the accesses.
- *stack*: a frame stays as it was saved until it is popped.
- *loader and firmware*: memory is the image, also when loading fails; `main` finds
  its data; what `hlprintf` would print is the format.

`PROJECT.json` lists the hazards at their lines. Where the code goes wrong, a hazard names a
violated property or has a note: the statement that TLC refutes is then one of those under
"Disagreements between code and comments", and the properties that hold leave that case out.

## 2. Modules

| module | models |
|---|---|
| `SysTick` | registers and operations of the timer |
| `SysTickTimer` | `SysTick` under an arbitrary firmware |
| `PeriodicTimer` | abstract: what a SysTick promises |
| `CpuExceptions` | exception entry as operators over the processor's state |
| `CpuLoop` | composes `SysTick` and `CpuExceptions` in the loop |
| `ExceptionReturn` | composes `CpuExceptions` with exception return |
| `NVIC` | the interrupt controller |
| `LevelInterrupts` | abstract: a level-sensitive controller |
| `Decoder` | `decode` and what `execute` makes of the members it leaves behind |
| `Alu` | data processing, flags and conditions |
| `MemoryBus` | loads and stores and their routing |
| `ByteMemory` | abstract: a map from addresses to bytes |
| `RegisterLists` | the loops over register lists, used by the next two |
| `StackFrames` | PUSH, POP, ADD/SUB SP under a program that calls and returns |
| `BlockTransfer` | STM and LDM |
| `ElfLoader` | `load_elf` |
| `Boot` | composes `ElfLoader` with the firmware's `Reset_Handler` |
| `Semihosting` | composes `Boot` with a call of the firmware's `hlprintf` |
| `MC*` | small instances for TLC |
| `DeviceProofs` | theorems on `SysTickTimer` and `NVIC` |
| `RegisterListProofs` | theorems on `StackFrames` and `BlockTransfer` |
| `FirmwareProofs` | theorems on `ElfLoader`, `Boot` and `Semihosting` |
| `CpuLoopProofs`, `ExceptionReturnProofs`, `DecoderProofs`, `AluProofs`, `MemoryBusProofs` | theorems on the module they are named after |

The processor is cut along its state. `CpuLoop` has the order of the calls and what
an instruction does to PC, SP, LR, the timer and the exceptions; it takes register
contents, flags and bytes for granted. The modules below have these, for any
sequence of the instructions concerned, and leave the PC to `CpuLoop`.

Definitions carry the names of the code where TLA+ allows it. Operators whose
comment says "Seeded fault" are wrong variants of the definition that follows
them. They belong to no specification; substituting one for that definition must
make TLC refute the property it is paired with in `PROJECT.json`, which shows
that the property depends on the code.

### SysTick, SysTickTimer, PeriodicTimer

`SYST_CSR` is the set of its one bits; `SYST_RVR` and `SYST_CVR` are numbers
below `ReloadModulus` (2^24 in the code). `Tick` has a disjunct per branch of
`Cpu::tick`. `WriteCSR`, `WriteRVR`, `WriteCVR` and `ReadCSR` are the cases of
`SCS::write32` and `SCS::read32`. `SysTickTimer` runs them in any order and
takes requests at any moment. `Cpu::read32` does not route loads to
`SCS::read32` yet, so `ReadCSR` has no caller inside the loop.

`PeriodicTimer` knows no counter: it has a period under way of some length, and
how much has elapsed. The refinement mapping takes `length` from the history
variable `loaded` (the value of the last reload) and `elapsed` as
`loaded - SYST_CVR`, so a write to `SYST_CVR`, which zeroes the counter, is the
abstract `Restart`.

### CpuExceptions, CpuLoop

`CpuLoop` has one action per call of the loop body and a variable `phase` that
names the next one; the assignments between calls belong to the neighbouring
action. `phase` ends in `halted`, after `MaxIter` iterations, or in `undefined`,
when the code indexes outside a vector or acts on a member nobody assigned; the
model does not look beyond that.

Abstractions of data:

- A code address is a byte offset in flash, a stack pointer an offset in RAM.
- Instructions are kept as the operations whose effect the loop, the timer or the
  stacks can see. `alu` stands for all others: data processing, loads, and
  stores that stay inside RAM. They move the PC by two.
- Flags are not modelled: a conditional branch goes either way. APSR and the
  T bit are left out of xPSR.
- r0-r3 and r12 are two roles, an address and a value, of which the model keeps
  the origin: exception entry zeroes them, and a store through a zeroed register
  is undefined. A `saved` base is one of r4-r7, which entry leaves alone.
- `wide` is a 32-bit instruction `decode` leaves unassigned: `execute` repeats the
  BL decoded last (`lastBL`), or acts on unassigned members when there was none.
- POP reads at most one word below the size it moves SP by, and never loads the
  PC, because of the shift of the register list; whether it reads at all depends
  on the list, so a POP that might read outside RAM is undefined.
- `frames` records what `pushStack` has stored, `takenAt` the iterations in which
  exceptions were entered; no guard reads them.

`Init` is `Cpu::reset` followed by the end of `load_elf`, for each firmware
image. `nextInstrAddr`, `currentInstrAddr` and the decoded instruction start as
`Uninit`, since the constructor does not assign them.

### ExceptionReturn

`exceptionReturn` has no caller in the code: `BXWritePC` is empty and POP never
loads the PC. The module calls it with each of the three EXC_RETURN values, at
any moment, between entries of either exception and stretches of code (`Run`);
any other value returns at once. `Accepted` is the conjunction of its early
returns. `PopStack` reads its frame at `psp`, which starts as zero and only moves on by
the size of a frame, so that it always points into flash: the frame is a member
of the constant `FlashFrames`, unrelated to what was stacked. `frames` is again a
record that no guard reads; an accepted return removes its last entry. `PspBound`
bounds `psp`, which the code would let run on.

### NVIC, LevelInterrupts

Each array of booleans is a set. `updateNVIC` handles the interrupts in a loop
but independently, so it is one action. `ExceptionTaken` is part of
`checkInterrupts`. No method writes `enabled`; `writeEnabled` is the external user
of the structure. `LevelInterrupts` has no `prevLine`: sampling makes pending what
is high. `clock` flips at every sampling, so that the refinement cannot pass a
sampling off as a write of a pending bit.

### Decoder

`decode` assigns some of six members and `execute` switches over them, so the module
keeps all six, each possibly `Uninit`, and decodes any sequence of `Instructions`.
The tests of `classify` and `handleMisc` are tables in the order of the code.
Every struct of the union takes its fields from the bits of the halfword, at the
same places; the union therefore is the halfword it was built from
(`decodedInstruction`). `Operation` and `Fields` are what `execute` looks at.
`BLOffset`, `CondOffset` and `UncondOffset` compute the distances bit by bit;
`EncodeBL`, `EncodeCond` and `EncodeUncond` are the assembler's side, external.

### Alu

One operator per case of `executeALUinstr`, `executeMovCmpAddSub`, `executeAddSub`,
with `executeShiftImmediate` and `executeAdr`, on registers of `Width` bits (32 in
the code). What the code really does is kept: `LSL` adds, `BIC` falls through into `MVN`,
which reads Rm again (cleared by `BIC` if it is Rn), `ADDS #imm8` does nothing, `ADD`/`SUB`
of three operands write r0 or r1, AND and EOR set the
flags from Rm, and a shift whose case assigns nothing returns any value
(`Outcomes`). `compared` is history: how the numbers last compared relate. No
guard reads it.

### MemoryBus, ByteMemory

One action per load and store instruction, on one register `Rt`, with addresses
computed from any members of `Bases`, `Offsets` and `Immediates`. `write32` takes the
way to the system control space, the UART or RAM; nothing else does. An index
beyond a vector sets `undefined` and ends the run. `origin` says whether `Rt` was
loaded as a halfword, for which the abstract memory promises nothing.
`MappedMemory` is the refinement mapping: flash and RAM as one function of addresses.

### RegisterLists, StackFrames, BlockTransfer

Memory is a row of words. `StackFrames` runs PUSH, POP and ADD/SUB SP the way compiled
code does: what is opened is closed in the reverse order, each POP with the list
and the bit M of its PUSH; between them registers and locals change at will.
`frames` is the program's own record. `sp >= 0` bounds the depth: a program below
that can only leave the region. `BlockTransfer` runs STM and LDM in any order, with
register values that are addresses of the region. An STM whose base is in its list
stores zero for it: the position the code compares with is the lowest register *not*
in the list, so it never is the base.

### ElfLoader, Boot

A file is the outcome of the header checks and a sequence of program headers, each
with its bytes or with what is missing of them. `LoadSegment` is one iteration of
the loop of `load_elf` with the calls of `write_block` and `zero_memory`. The vectors
have the sizes the constructor really gives them: `FLASH_SIZE` and `RAM_SIZE`
change places on their way to `Cpu(ram_size, flash_size)`. `phase` ends in
`failed` (an exception nobody catches) or `undefined` (an index beyond a vector).
`Boot` goes on with `Reset_Handler` of `elf/setup.c`, one word a step, for any layout of
the linker's symbols in which `.bss` follows `.data`.

### Semihosting

`hlprintf` of `elf/src/semihosting.c` has no caller in the repository, and its file is not
among those `src/compiler.cpp` hands to the compiler. The call is therefore an assumption:
`CallHlprintf` lets `main` call it once, with the address of a format and arguments from `Calls`.
There is one action per turn of its loops. Characters are their ASCII codes and
are read from `ram`, where load_elf and `Reset_Handler` have put them: `read8`, which the
emulator executes LDRB with, looks for every address in RAM, so a format that stays in flash,
where the linker script puts literals, cannot be read. The digits of `%u` go through the buffer,
those of `%x` straight to the UART. A read outside of RAM, a missing argument and an overflow
of the buffer end the run in `undefined`.

`Boot` and `Semihosting` take the steps of the C code, with the memories and the reach of
`read8` that the emulator gives it. They do not execute the instructions the compiler would
make of it. On this emulator these would not get so far: POP does not load the PC and BX does
nothing, so no function returns, and `startCpu` stops after 104 iterations, wherever the
firmware is. What the two modules show is that the C code is right on these memories.

## 3. What TLC checks

| run | instance | states | result |
|---|---|---|---|
| `timer` | `ReloadModulus = 4` | 1920 | holds |
| `loop` | 720 images, 512 bytes of RAM, 110 of flash, 12 iterations | 77802 | holds |
| `return` | stack top 108 (three frames), 2 code addresses, 3 frames in flash | 43160 | holds |
| `nvic` | 2 interrupts | 4608 | holds |
| `decoder` | 142 instructions: both ends of every test, of every branch range, the unknown 32-bit classes | 65315 | holds |
| `alu` | 2 registers of 3 bits, 3 immediates | 15287 | holds |
| `memory_bus` | bytes of one bit, 5 of flash, 5 of RAM, 32 addresses | 4814 | holds |
| `stack_frames` | r0, r1, r7 of one bit, 4 words of stack | 5.5 million | holds |
| `block_transfer` | r0, r1, r7, 3 words | 280831 | holds |
| `firmware` | files of up to 2 out of 14 segments, 16 and 20 bytes, 6 layouts, 6 calls | 15289 | holds |
| `branches_to_handler`, `frame_below_active_sp` | as `loop` | - | violated |

**timer.** `CounterWithinPeriod`: the counter never exceeds the value it was loaded
with. `ImplementsPeriodicTimer`: refinement; no write cuts a period short except
one to `SYST_CVR`, none stretches it, and none drops a request.
`RequestsKeepComing`: a timer left enabled with its interrupt keeps requesting,
whatever else the firmware writes. Four values of the counter separate zero,
one, the reload value and a value above a smaller reload value.

**loop.** `RequestsServedAtOnce`: no request outlives its iteration, so the flag
never merges two. `ExceptionChain`: mode, IPSR, active bits and stacked IPSRs
agree. `MainStackAccounting`: frame k lies at the aligned initial stack pointer
minus 32 k, in RAM. `ReturnAddressIsValid`: the unassigned `nextInstrAddr` is
never stacked, because the timer is off until a store has been executed.
`SvcReturnsPastSvc`: the frame of an SVC returns behind it, also when the SysTick
enters between its fetch and its execution. `InstructionMatchesPC`: without an
entry in the iteration, the instruction executed is the one at the PC.
`OneTickEntryPerIteration`: from a reload value of two on, the SysTick preempts its
own handler at most once per iteration, unless that iteration's instruction
reprograms the counter. `RunEnds`: every run reaches `halted` or `undefined`.

The images program the timer as `elf/main.c` does, with reload values 0 to 4
(every tick, every second tick, and on both sides of the three ticks of an
iteration), with and without interrupt, run one of twelve bodies (SVC, stack
operations, calls, branches out of flash, stale 32-bit instructions, stores in
the middle of a period) and have one of three SysTick handlers, one of which
itself executes SVC. The initial stack pointer 512 leaves room for sixteen
frames; 100, which is not a multiple of eight, for two, so that stacking runs
out of RAM. Twelve iterations are four to program the timer and eight under it:
up to 24 ticks. `CHECK_DEADLOCK FALSE`, because the run really stops.

**return.** `ModeMatchesActive`: handler mode exactly while an exception is active.
This is not obvious, since a return restores IPSR from foreign memory, two
activations of one exception share an active bit, and some calls are refused after
others were accepted. `MainStackNeverClimbs`: with n entries not yet returned from, `msp`
is at most the aligned top plus four bytes minus 32 n, whatever alignment bit is
read. The frames found in flash are the vector table of `elf/setup.c` (a PC of zero),
one with the alignment bit and an exception number, and one whose number needs
more than six bits. The top is not a multiple of eight.

**nvic.** `NoSpuriousInterrupt`, `ImplementsLevelInterrupts`, and
`HeldLineIsServed`: an enabled interrupt whose line stays high becomes active again
and again, if no lower-numbered one stays enabled and software does not clear it.
Acceptance distinguishes only lower and higher numbers, so two interrupts suffice.

**decoder.** `EveryHalfwordHasAClass`: no order of the overlapping tests leaves a halfword
out; `execute` would not even move the PC for one. `DecodingIsMemoryless`: an instruction
that some test recognises is executed with its own class and operands whatever was
decoded before it. The exceptions, which `Unrecognised` lists, are SVC with a number
other than zero and the 32-bit classes 11101 and 11111. `BranchesReachTheirTargets`: BL, B
and Bcc reach the offsets their encodings stand for, up to the ends of their ranges.
Every pair of instructions occurs one after the other, which is as far as the
members remember.

**alu.** `CompareDecides`: after CMP, CMP with an immediate or SUB, whatever the operands,
the ordering conditions are right for unsigned and for signed numbers; HI, LS, GT and LE
as well, unless Z is about the immediate. `LongCompareDecides`: so are they after a
comparison of low words followed by any number of SBCs. Three bits have both signs,
carries, overflows and shift amounts below, at and beyond the width.

**memory_bus.** `KeepsWhatIsStored`: refinement; a load of a word or a byte finds what
stores of words, halfwords or bytes at any alignment have left there. An access
that is not within the memory never looks like one that is. Sizes of five are no
multiple of a word, and the bases lie at both ends of both vectors, just below, at
the devices and where the sum of the operands wraps.

**stack_frames.** `FramesIntact`: the words a PUSH has saved stay as they are through later
calls, locals and returns, although PUSH and POP disagree about the size of a frame.
It needs POP never to move SP above an older frame. Four words hold two
frames and locals between them; r0 and r7 are the two registers POP deals with. The words are
there to be popped; into which registers POP puts them is another matter (`PopRestores` below),
and no exception is entered here (`frame_below_active_sp` shows what one would do).

**block_transfer.** `BlocksReturn`: an LDM at the address of the last STM brings back every
register but the base and leaves its own base behind the block, if it is not in the list.

**firmware.** `MemoryIsTheImage`: after every segment, and after an exception, both vectors hold
what the segments dealt with say; later ones win, a refused one has left nothing.
`MainFindsItsData`: `.data` is the image's and `.bss` zero in `main`, although the copy writes
whole words and may reach into `.bss`. `BootEnds`: `main` is reached or the program
stops. `BufferHoldsEveryNumber`: `uart_put_uint`, which counts without looking, stays within its
buffer. `PrintsTheFormat`: what arrives at the UART is what the format in the *file* says, with its
strings and with numbers in their shortest form. What it says is defined on the bytes of the file,
without the steps of the code: `Meaning` gives it for every address at which the format can go on
and every number of arguments used, `Decimal` gives a digit by its position. `Says` is empty for a
format that does not end in the data or wants more arguments or strings than there are.
`RegularCallsAdvance`: each step of a call that says something moves on in the format, in the
number or in the waiting digits, without leaving the memory, the arguments or the buffer. It
says nothing of when the call returns. The
segments lie at both ends of both vectors, in the gap, overlap, and have tails inside and
outside of RAM; the layouts have whole and broken words; the formats have every conversion,
`%%`, an unknown one and a `%` at the end. Numbers of two digits fill a buffer of two as
ten digits fill the ten of the code. `CHECK_DEADLOCK FALSE`, because the program ends.

### Fairness

`SysTickTimer` has weak fairness of the tick: the loop calls `tick` three times per
iteration whatever the firmware does; that it stops after 104 iterations is left out there,
so `RequestsKeepComing` is about a loop that goes on. `CpuLoop` has weak fairness of `Next`: the loop
is sequential code that does not block, and it takes at most 104 iterations. `Semihosting` has
weak fairness of the boot: `load_elf` is a loop of the host program; `Reset_Handler` is read as
C that runs until `main`. That is an assumption about the firmware: on the emulator the 104
iterations of `startCpu` may cut its loops short. Of `hlprintf` no fairness is assumed and no
liveness is claimed: it has no caller, the iterations may run out at any of its steps, and no
instruction returns from it. `NVIC` has weak fairness of `updateNVIC`,
`checkInterrupts` and the return of each handler: what a processor loop using it
would do, since the file has no caller.

### Disagreements between code and comments

Two have a run of their own:

- `BranchesToHandler` (`src/cpu.cpp:2443`): an entry between fetch and execute sets
  the PC to the handler, and the interrupted instruction is then executed there.
  The first instruction of the handler is skipped.
- `FrameBelowActiveSP` (`src/cpu.cpp:2341`): the frame is placed by `msp`, which no
  instruction moves, instead of `regs[13]`: after a PUSH it overwrites the stack.

The others are stated at the end of their modules, under "What the source says of
itself and the code does not do". No configuration names them: put into the one of
their module (`MCSemihosting.cfg` for `ElfLoader`) in the place of its invariants and
properties, each is refuted by TLC within seconds (the two of `ExceptionReturn` with
`FlashFrames <- SetupFlashFrames`).

- `NextInstrAddrIsTheSame` (`src/emulator.cpp:47`): after a taken branch
  `nextInstrAddr` is not the PC, and is what a SysTick of that iteration stacks.
- `ThreadReturnUsesMSP` (`src/cpu.cpp:2597`): the return takes its frame from `psp`.
- `IpsrIsConsistent` (`src/cpu.cpp:2651`): thread mode keeps the exception number; the
  validation changes nothing.
- `SoftwareRequestStays` (`include/nvic.hpp:46`): a software request is cleared by the
  next `updateNVIC` while the line is low.
- `EverySVCIsOne` (`src/cpu.cpp:140`): only SVC 0 is recognised; another repeats the
  miscellaneous instruction decoded before it.
- `ExtendIsRecognised` (`src/cpu.cpp:1029`): the test for PUSH and POP comes first and
  holds for UXTB, UXTH, SXTB and SXTH, and for REV.
- `BarriersAreRecognised` (`src/cpu.cpp:2100`): every instruction of the class is a BL.
- `EqualityDecides` (`README.md:17`, `src/cpu.cpp:34`): BEQ and BNE look at N.
- `BicClearsBits`, `LslShifts`, `AddsAddsImmediate` (`src/cpu.cpp:1597, 1426, 1661`): BIC
  falls through to MVN, LSL by a register adds, ADDS and SUBS with eight bits do nothing.
- `HalfwordsAreMapped` (`README.md:18`, `src/cpu.cpp:128`): `read16` does not subtract
  `RAM_BASE`.
- `LDRSBExtendsTheSign` (`src/cpu.cpp:1117`): the sign is looked for in bit 31.
- `ByteOffsetsAreBytes` (`README.md:17`, `src/cpu.cpp:597`): STRB and LDRB scale by four.
- `SystemRegistersCanBeRead` (`src/system.cpp:52`): no load reaches `SCS::read32`.
- `StackIsBalanced` (`src/cpu.cpp:808`): POP does not count the PC that PUSH counted as LR.
- `PopRestores` (`README.md:17`, `src/cpu.cpp:814`): POP loads at most r7.
- `TailsAreZeroed` (`src/emulator.cpp:164`): the tail of a segment in flash is written
  outside of RAM.
- `FlashIsLargeEnough` (`include/emulator.hpp:21`): flash has `RAM_SIZE` bytes.

## 4. What is proved

All theorems hold for every value of the constants under the named assumptions:
`ReloadModulusAssumption` (a positive number), `RamSizeAssumption`,
`SizesAssumption`, `UninitAssumption` (not a number), `ImagesAssumption` (images are
made of well-formed instructions), `InitialSPAssumption` (a multiple of four),
`CodeAssumption`, `FlashFramesAssumption`, `PspBoundAssumption`, `IRQsAssumption`,
`InstructionsAssumption`, `OffsetsAssumption`, `RegsAssumption`, `ImmediatesAssumption`,
`WidthAssumption` (powers of two up to the width are positive numbers), `HalfAssumption`,
`BitwiseAssumption` (the bitwise operators stay within a word), `ByteAssumption`,
`FlashAssumption`, `MapAssumption`, `InputsAssumption`, `RegistersAssumption`,
`WordsAssumption`, `LocalsAssumption`, `ValueAssumption`, `SegmentsAssumption`,
`LoaderAssumption` (the vector of flash has room for the two words `load_elf` reads of it
and ends below RAM), `LayoutsAssumption` (`.data` is kept in flash, runs in RAM and `.bss`
follows it), `CallsAssumption`, `DigitsAssumption` (the buffer has room for the digits of the
largest number), `PowersAssumption` (the arithmetic of powers, which the provers lack).


- `DeviceProofs`: `TypeCorrect`, `PeriodBounded`, `TimerRefinement` on the timer. The
  invariant of the refinement is the type invariant with `SYST_CVR <= loaded`, without which
  `elapsed` could be negative. The proof has one step per action and maps each to an
  abstract action or a stutter. `NVICTypeCorrect`, `NoSpurious`, `LevelRefinement` on the
  interrupt controller. This refinement rests on one lemma: the five-way update of the
  pending bit equals the sampled line.
- `CpuLoopProofs`: `TypeCorrect`, `NoRequestLost`, `ChainConsistent`, `StackAccounted`,
  `ReturnAddressesValid`, `SvcReturns`, `PCMatches`, `OneTickEntry`. None of the invariants is
  inductive. `LoopState` adds what holds between the steps of an iteration: which
  members are assigned in which phase, that the timer is disabled until the first
  instruction has been executed (so `nextInstrAddr` is assigned when first stacked),
  that a pending SVCall means the current instruction is the SVC, that
  `nextInstrAddr` is `currentInstrAddr` plus the size between decode and the end of the
  iteration, and that PC and `currentInstrAddr` differ only after an entry of this
  iteration. `StackInv` does the frames. `IInv` is their conjunction with the type
  invariant; one lemma per action shows it preserved. `OneTickEntry` is about a step,
  and needs to know where the counter is: `TickInv` says that a pending SysTick request
  comes from a counter that has just been reloaded (`RequestMeansReload`), and that after an
  entry in an iteration whose instruction leaves the counter alone, the counter stays above the
  number of ticks the iteration still has (`TicksLeft`), so that none of them can reload it again.
- `ExceptionReturnProofs`: `TypeCorrect`, `ModeAgrees`, `StackBounded`. The second rests on
  `AcceptedReturn`: an accepted return goes to handler mode exactly when another
  exception stays active. The third needs two strengthenings: `msp` stays a multiple of
  four (else the OR of the alignment bit could add up to seven bytes), and SPSEL is
  set in thread mode only (else an entry would move `psp`).
- `DecoderProofs`: `TypeCorrect`, `EveryHalfwordClassified`, `NothingIsStale`, `BranchesArrive`,
  for every set of instructions and offsets. That no halfword is left out is a case
  distinction on its leading bits; that nothing is stale needs the invariant that the
  members agree with the instruction fetched last. The branches are arithmetic: each
  field of the encoding is shown to come back, then the sign.
- `AluProofs`: `TypeCorrect`, `ComparisonsDecide`, `LongComparisonsDecide`, for every width. `IInv`
  adds to the types what C, N, V and Z say of the numbers compared (`FlagsTell`). The
  lemma `SubtractionFlags` carries it: adding the inverse of y and c to x leaves x > y, or
  x = y with c = 1, in C as unsigned and in N = V as signed numbers.
- `MemoryBusProofs`: `TypeCorrect`, `MemoryImplemented`, for every memory map in which the
  parts are four bytes apart. Each store and load either stays inside a vector, and
  is the abstract one at the same address, or sets `undefined`.
- `RegisterListProofs`: `TypeCorrect`, `FramesStayIntact`, for every set of registers and every
  size of the stack. `FramesIntact` alone is not inductive, since a store could hit a frame
  that SP has moved above; `Stacked` adds that SP lies below every open frame and that
  each lies below the older ones, `FramesInside` that what was stored was stored into the
  region. The lemmas on `Rank` say that the registers of a list get distinct words, as
  many as it has members; they carry `BlockTypeCorrect` and `BlocksComeBack` on STM and LDM
  as well. The latter is about a step; its invariant `BlockKept` says that the last block
  stored is still where it was put, every word but that of the base.
- `FirmwareProofs`: `TypeCorrect`, `LoadedImage`, `DataIsInPlace`, `BootTakesFiniteTime`,
  `BufferIsLargeEnough`, `FormatIsPrinted`, `RegularCallsAreSupplied`, `RegularCallsGoOn`, for
  every file, layout, call and size of the memories. `MemoryIsTheImage` is inductive together with the types. The
  lemma `ImageStep` says what one segment more does to the image (it decides about the
  bytes it covers), `SegmentInMemory` that `write_block` and `zero_memory` do the same to
  both vectors: a tail that is zeroed begins in RAM, above every byte of flash, so flash
  needs none. `MainFindsItsData` needs `Copying` and `Zeroing`: what has been copied so far
  is the image's, `src` and `dst` have moved on equally far, and the words that are zeroed
  lie above all of `.data`. In the types of `hlprintf` the one step that is not plain is the
  string: that it ends at the first NUL, inside of RAM, needs the least number of a
  set (`LeastNumber`). `BufferIsLargeEnough` needs `RoomLeft`: what is left of the number is
  below the power of the base that the room left in the buffer stands for, and the buffer
  is empty between two numbers.

  `FormatIsPrinted` rests on `PrintInv`: what has been printed, then the digits of the number
  still to be taken off, then those that wait in the buffer turned round, then a reading of the rest
  of the format, is what the whole format says. Each action has a lemma that moves a piece from
  one of these parts to another. Three invariants carry it: `DataStays` (in `main` and after it
  RAM has what the file has for the data; from `DataIsInPlace`), `ArgumentsLeft` (the arguments
  left are a suffix of those of the call), and `RoomLeft`. The reference is a recursive function;
  `MeaningExists` shows that it has a solution, because it only goes up in a set of addresses with
  a last one, so `NextTurn` may unfold it at the address the code reads. `LowestDigit` is the
  arithmetic: the positional digits of a number are those of its quotient and then its remainder.
  `RegularCallsGoOn` is `RegularCallsAdvance` for every call: it needs `CallIsSupplied`
  (`RegularCallsAreSupplied`), that such a call finds its format, arguments and strings, so that
  no step is `undefined`. `BootTakesFiniteTime` is the part of `BootEnds` that needs no
  fairness: each step of the boot takes one at least from `StepsLeft`.

Only model-checked:

- `RequestsKeepComing`, `RunEnds`, `HeldLineIsServed`, `BootEnds`: liveness under fairness, which
  the prover cannot reason about. Of the last the steps are proved, as said above; that they
  go on being taken, and that numbers without infinite descent make them end, is not.
- The two violated properties of the loop, which are about what the code does not do.

## 5. What is not modelled

- The instruction modules are not composed with `CpuLoop`: the values of registers and
  the bytes of memory would multiply its states, and the loop's properties do not
  depend on them. The PC is only in `CpuLoop`.
- The cases of `executeMisc` for REV and EXTEND, which `decode` never selects, CPS
  (it assigns `primask`, which nothing reads), `handleSpecialInstructions` and
  `LSL_C` to `RRX`, which have no caller.
- The values in the SCB, which nothing reads.
- The compiler driver, `main`, the `Registers` shadow and the empty UART file: I/O or
  storage without a reader.
- The instructions of `Reset_Handler` and `hlprintf`: the firmware modules follow the C code
  (section 2), not its execution by the loop.
- What an out-of-range access does to the host program. `fetch` at the last halfword
  of flash is the end of a run.

## 6. Plan

1. Done: timer, exception entry, loop, interrupt controller, exception return.
2. Done: decoder, ALU, memory bus, stack and block transfer, loader and start-up,
   formatted output.
3. `CpuLoop` with the timer off implements a sequential instruction-set
   specification; a run at the real constants (104 iterations, reload 100).
4. Proofs: done for every invariant and action property of the passing runs; left is the
   refinement of 3.
