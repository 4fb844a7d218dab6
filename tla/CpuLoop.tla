------------------------------- MODULE CpuLoop -------------------------------
(***************************************************************************)
(* The processor loop of the emulator: Emulator::startCpu                  *)
(* (src/emulator.cpp) drives fetch, decode and execute of src/cpu.cpp and, *)
(* between them, the SysTick and the two exception checks.                 *)
(*                                                                         *)
(* One action is one call of the loop body, named by "phase".  The phase   *)
(* "undefined" is the end of a run that indexed outside a vector or acted  *)
(* on a member nobody assigned; the model does not look beyond it.         *)
(*                                                                         *)
(* A firmware image is what load_elf leaves behind: the initial stack      *)
(* pointer, the reset address, the vector table and the code.  Code is     *)
(* kept as the instructions whose effect the loop, the timer or the stack  *)
(* can see; "alu" stands for every other one, which only moves the PC.     *)
(***************************************************************************)
EXTENDS SysTick, CpuExceptions

CONSTANTS Images,       \* the firmware images considered, by name
          FlashSize,    \* bytes of the vector that holds flash
          MaxIter       \* iterations of the loop, 104 in the code

Ops == {"alu", "ldr", "mov", "b", "bcc", "bl", "wide", "svc",
        "subaddsp", "push", "pushlr", "pop",
        "strCSR", "strRVR", "strCVR", "strUART"}

Branches == {"b", "bcc", "bl"}

(* "arg" is a branch offset, a number of registers, the signed number of   *)
(* bytes added to SP or the value stored; "base" tells whether the address *)
(* of a store is in r0-r3 or in r4-r7, which exception entry leaves alone. *)
Instr == [op : Ops, arg : Int, base : {"scratch", "saved"}]

(* The immediates of branches and of ADD/SUB SP are encoded without their  *)
(* low bits; the three counts of PUSH and POP have no sign.                *)
WellFormed(ins) ==
  /\ ins.op \in Branches => ins.arg % 2 = 0
  /\ ins.op \in {"push", "pushlr", "pop"} => ins.arg \in 0 .. 8
  /\ ins.op \in {"strCSR", "strRVR"} => ins.arg \in Nat

Alu == [op |-> "alu", arg |-> 0, base |-> "scratch"]

ASSUME ImagesAssumption ==
  \A f \in DOMAIN Images :
    /\ Images[f].sp \in Nat
    /\ Images[f].entry \in Nat
    /\ Images[f].vector \in [Exceptions -> Nat]
    /\ \A a \in DOMAIN Images[f].code :
         Images[f].code[a] \in Instr /\ WellFormed(Images[f].code[a])

ASSUME SizesAssumption == FlashSize \in Nat /\ MaxIter \in Nat

VARIABLES firmware,                \* the name of the image loaded
          phase,
          i,                       \* the loop counter
          instr,                   \* fetched_instruction, decoded
          decodedInstructionSize,
          lastBL,                  \* offset left in decodedThumb2Instruction
          sp,                      \* regs[13]
          takenAt                  \* history: the iteration of each entry

loopVars == <<firmware, phase, i, instr, decodedInstructionSize, lastBL, sp,
              takenAt>>

vars == <<loopVars, excVars, currentInstrAddr, nextInstrAddr, timerVars,
          exceptionPending>>

Phases == {"fetch", "tick1", "async1", "decode", "tick2", "async2",
           "execute", "tick3", "sync", "async3", "halted", "undefined"}

image == Images[firmware]

CodeAt(address) ==
  IF address \in DOMAIN image.code THEN image.code[address] ELSE Alu

-----------------------------------------------------------------------------
(* Cpu::reset in the constructor, then load_elf.                           *)
Init ==
  /\ firmware \in DOMAIN Images
  /\ phase = "fetch" /\ i = 0
  /\ instr = Alu /\ decodedInstructionSize = Uninit /\ lastBL = Uninit
  /\ currentInstrAddr = Uninit /\ nextInstrAddr = Uninit
  /\ pc = Align2(image.entry) /\ lr = -1
  /\ scratch = [role \in Roles |-> "reset"]
  /\ sp = image.sp /\ msp = image.sp /\ psp = 0 /\ SPSEL = 0
  /\ currentMode = "THREAD" /\ ipsr = 0 /\ exceptionActive = {}
  /\ frames = <<>> /\ takenAt = <<>>
  /\ SysTickInit

Halt ==
  /\ phase = "fetch" /\ i = MaxIter
  /\ phase' = "halted"
  /\ UNCHANGED <<firmware, i, instr, decodedInstructionSize, lastBL, sp, takenAt,
                 excVars, currentInstrAddr, nextInstrAddr, timerVars,
                 exceptionPending>>

(* Seeded fault: the loop takes the address it computed as the next one. *)
Fetch_Sequential ==
  /\ phase = "fetch" /\ i < MaxIter
  /\ currentInstrAddr' = IF nextInstrAddr = Uninit THEN pc ELSE nextInstrAddr
  /\ IF pc \in 0 .. FlashSize - 4
     THEN instr' = CodeAt(pc) /\ phase' = "tick1"
     ELSE phase' = "undefined" /\ UNCHANGED instr
  /\ UNCHANGED <<firmware, i, decodedInstructionSize, lastBL, sp, takenAt,
                 excVars, nextInstrAddr, timerVars, exceptionPending>>

(* currentInstrAddr = regs[15]; fetch() reads four bytes of flash.         *)
Fetch ==
  /\ phase = "fetch" /\ i < MaxIter
  /\ currentInstrAddr' = pc
  /\ IF pc \in 0 .. FlashSize - 4
     THEN instr' = CodeAt(pc) /\ phase' = "tick1"
     ELSE phase' = "undefined" /\ UNCHANGED instr
  /\ UNCHANGED <<firmware, i, decodedInstructionSize, lastBL, sp, takenAt,
                 excVars, nextInstrAddr, timerVars, exceptionPending>>

(* The three calls of tick(); the second is followed by the assignment of  *)
(* nextInstrAddr.                                                          *)
TickAt(here, there) ==
  /\ phase = here
  /\ phase' = there
  /\ Tick
  /\ nextInstrAddr' = IF here = "tick2"
                      THEN currentInstrAddr + decodedInstructionSize
                      ELSE nextInstrAddr
  /\ UNCHANGED <<firmware, i, instr, decodedInstructionSize, lastBL, sp, takenAt,
                 excVars, currentInstrAddr>>

TickPhase == \/ TickAt("tick1", "async1")
             \/ TickAt("tick2", "async2")
             \/ TickAt("tick3", "sync")

(* decode() tells the two sizes apart and leaves the offset of a BL behind *)
(* in a union that a later 32-bit instruction it does not know will find.  *)
Decode ==
  /\ phase = "decode"
  /\ phase' = "tick2"
  /\ decodedInstructionSize' = IF instr.op \in {"bl", "wide"} THEN 4 ELSE 2
  /\ lastBL' = IF instr.op = "bl" THEN instr.arg ELSE lastBL
  /\ UNCHANGED <<firmware, i, instr, sp, takenAt, excVars, currentInstrAddr,
                 nextInstrAddr, timerVars, exceptionPending>>

-----------------------------------------------------------------------------
(* handleAsyncrnousExceptions looks at exceptionPending[15] only,          *)
(* handleSyncrnousExceptions at exceptionPending[11] only.  Neither asks   *)
(* about priority, PRIMASK or an activation under way.                     *)
TakeException(n, there) ==
  /\ n \in exceptionPending
  /\ exceptionPending' = exceptionPending \ {n}
  /\ exceptionEntry(n, image.vector[n])
  /\ takenAt' = Append(takenAt, i)
  /\ phase' = there

NothingPending(n, there) ==
  /\ n \notin exceptionPending
  /\ phase' = there
  /\ UNCHANGED <<excVars, exceptionPending, takenAt>>

(* The stores of pushStack leave the vector that holds RAM. *)
StackingOverrun(n) ==
  /\ n \in exceptionPending
  /\ ~FrameFits
  /\ phase' = "undefined"
  /\ UNCHANGED <<excVars, exceptionPending, takenAt>>

(* Seeded fault: the iterations are not counted. *)
HandleException_Forever(n, here, there) ==
  /\ phase = here
  /\ \/ TakeException(n, there)
     \/ NothingPending(n, there)
     \/ StackingOverrun(n)
  /\ UNCHANGED <<firmware, i, instr, decodedInstructionSize, lastBL, sp,
                 currentInstrAddr, nextInstrAddr, timerVars>>

HandleException(n, here, there) ==
  /\ phase = here
  /\ \/ TakeException(n, there)
     \/ NothingPending(n, there)
     \/ StackingOverrun(n)
  /\ i' = IF phase' = "fetch" THEN i + 1 ELSE i
  /\ UNCHANGED <<firmware, instr, decodedInstructionSize, lastBL, sp,
                 currentInstrAddr, nextInstrAddr, timerVars>>

(* Seeded fault: the last check looks at the other exception. *)
HandleAsync_WrongNumber ==
  \/ HandleException(SYSTICK, "async1", "decode")
  \/ HandleException(SYSTICK, "async2", "execute")
  \/ HandleException(SVCALL, "async3", "fetch")

HandleAsync == \/ HandleException(SYSTICK, "async1", "decode")
               \/ HandleException(SYSTICK, "async2", "execute")
               \/ HandleException(SYSTICK, "async3", "fetch")

HandleSync == HandleException(SVCALL, "sync", "async3")

-----------------------------------------------------------------------------
(* execute(): every 16-bit instruction but a taken branch adds two to the  *)
(* PC it finds, which is not always that of the instruction it executes.   *)
Advance == pc' = pc + 2

Executed == phase' = "tick3"

(* Instructions whose only effect here is on r0-r3 and the PC.  LDR        *)
(* (literal) finds its literal relative to the PC of the moment; what it   *)
(* loads from the wrong place is worth no more than the placeholder.       *)
Literal == IF pc = currentInstrAddr THEN "code" ELSE "reset"

ExecuteStraight ==
  /\ instr.op \in {"alu", "ldr", "mov"}
  /\ scratch' = CASE instr.op = "ldr" -> [scratch EXCEPT !["address"] = Literal]
                  [] instr.op = "mov" -> [scratch EXCEPT !["value"] = "code"]
                  [] OTHER -> scratch
  /\ Advance /\ Executed
  /\ UNCHANGED <<lr, sp, timerVars, exceptionPending>>

(* The flags are not modelled: a conditional branch goes either way. *)
ExecuteBranch ==
  /\ \/ instr.op \in {"b", "bcc"} /\ pc' = pc + 4 + instr.arg
     \/ instr.op = "bcc" /\ Advance
  /\ Executed
  /\ UNCHANGED <<lr, scratch, sp, timerVars, exceptionPending>>

(* BL, and a 32-bit instruction that decode did not recognise and that is  *)
(* executed as the BL decoded last.                                        *)
ExecuteBL ==
  /\ instr.op \in {"bl", "wide"} /\ lastBL # Uninit
  /\ lr' = pc + 4 + 1
  /\ pc' = pc + 4 + lastBL
  /\ Executed
  /\ UNCHANGED <<scratch, sp, timerVars, exceptionPending>>

(* executeMisc: SVC only leaves its exception pending. *)
ExecuteSVC ==
  /\ instr.op = "svc"
  /\ exceptionPending' = exceptionPending \cup {SVCALL}
  /\ Advance /\ Executed
  /\ UNCHANGED <<lr, scratch, sp, timerVars>>

ExecuteAddSubSP ==
  /\ instr.op = "subaddsp"
  /\ sp' = sp + instr.arg
  /\ Advance /\ Executed
  /\ UNCHANGED <<lr, scratch, timerVars, exceptionPending>>

(* PUSH makes room for LR when asked to, but stores r0-r7 only. *)
PushBase ==
  sp - 4 * (IF instr.op = "pushlr" THEN instr.arg + 1 ELSE instr.arg)

ExecutePUSH ==
  /\ instr.op \in {"push", "pushlr"}
  /\ instr.arg = 0 \/ InRam(PushBase, 4 * instr.arg)
  /\ sp' = PushBase
  /\ Advance /\ Executed
  /\ UNCHANGED <<lr, scratch, timerVars, exceptionPending>>

(* POP moves SP over r0-r7, reads at most one word, and never loads PC. *)
ExecutePOP ==
  /\ instr.op = "pop"
  /\ sp' = sp + 4 * instr.arg
  /\ Advance /\ Executed
  /\ UNCHANGED <<lr, scratch, timerVars, exceptionPending>>

(* STR to one of the devices.  write32 masks the value for the timer; the  *)
(* low 24 bits of the reset placeholder 0xDEEDBEEF are 15580911.           *)
StoredValue == CASE scratch["value"] = "code"  -> instr.arg
                 [] scratch["value"] = "entry" -> 0
                 [] scratch["value"] = "reset" -> 15580911

StoredBits == {b \in WritableBits :
                 LET weight == CASE b = "ENABLE"    -> 1
                                 [] b = "TICKINT"   -> 2
                                 [] b = "CLKSOURCE" -> 4
                 IN  (StoredValue \div weight) % 2 = 1}

Stores == {"strCSR", "strRVR", "strCVR", "strUART"}

AddressIsGood == instr.base = "saved" \/ scratch["address"] = "code"

ExecuteStore ==
  /\ instr.op \in Stores
  /\ AddressIsGood
  /\ \/ instr.op = "strCSR" /\ WriteCSR(StoredBits)
     \/ instr.op = "strRVR" /\ WriteRVR(StoredValue)
     \/ instr.op = "strCVR" /\ WriteCVR
     \/ instr.op = "strUART" /\ UNCHANGED <<timerVars, exceptionPending>>
  /\ Advance /\ Executed
  /\ UNCHANGED <<lr, scratch, sp>>

(* What has no defined outcome: a store through a register that holds no   *)
(* address, a PUSH outside RAM, a POP that may read outside it, and a      *)
(* 32-bit instruction dispatched on members no BL has assigned yet.        *)
ExecuteUndefined ==
  /\ \/ instr.op \in Stores /\ ~AddressIsGood
     \/ /\ instr.op \in {"push", "pushlr"}
        /\ instr.arg > 0 /\ ~InRam(PushBase, 4 * instr.arg)
     \/ instr.op = "pop" /\ instr.arg > 0 /\ ~InRam(sp, 4)
     \/ instr.op = "wide" /\ lastBL = Uninit
  /\ phase' = "undefined"
  /\ UNCHANGED <<pc, lr, scratch, sp, timerVars, exceptionPending>>

Execute ==
  /\ phase = "execute"
  /\ \/ ExecuteStraight \/ ExecuteBranch \/ ExecuteBL \/ ExecuteSVC
     \/ ExecuteAddSubSP \/ ExecutePUSH \/ ExecutePOP \/ ExecuteStore
     \/ ExecuteUndefined
  /\ UNCHANGED <<firmware, i, instr, decodedInstructionSize, lastBL, takenAt,
                 msp, psp, SPSEL, currentMode, ipsr, exceptionActive, frames,
                 currentInstrAddr, nextInstrAddr>>

-----------------------------------------------------------------------------
Next == Fetch \/ TickPhase \/ HandleAsync \/ Decode \/ Execute \/ HandleSync
        \/ Halt

Spec == Init /\ [][Next]_vars

FairSpec == Spec /\ WF_vars(Next)

-----------------------------------------------------------------------------
FrameRecord == [exc : Exceptions, base : Int, align : {0, 1},
                scratch : [Roles -> Origins], lr : Int,
                pc : Int \cup {Uninit}, ipsr : {0} \cup Exceptions]

TypeOK ==
  /\ SysTickTypeOK
  /\ firmware \in DOMAIN Images /\ phase \in Phases /\ i \in 0 .. MaxIter
  /\ instr \in Instr /\ WellFormed(instr)
  /\ decodedInstructionSize \in {2, 4, Uninit}
  /\ lastBL \in Int \cup {Uninit}
  /\ currentInstrAddr \in Int \cup {Uninit}
  /\ nextInstrAddr \in Int \cup {Uninit}
  /\ pc \in Int /\ lr \in Int /\ sp \in Int /\ msp \in Int /\ psp \in Int
  /\ scratch \in [Roles -> Origins]
  /\ SPSEL \in {0, 1} /\ currentMode \in {"THREAD", "HANDLER"}
  /\ ipsr \in {0} \cup Exceptions /\ exceptionActive \subseteq Exceptions
  /\ frames \in Seq(FrameRecord)
  /\ takenAt \in Seq(0 .. MaxIter)

(* No exception request outlives the iteration that raised it, and no      *)
(* second request of a kind can merge into one still waiting: each of the  *)
(* three calls of tick() is followed by a check before the next, and the   *)
(* SVC of execute() by handleSyncrnousExceptions.                          *)
RequestsServedAtOnce ==
  /\ SYSTICK \in exceptionPending
       => phase \in {"async1", "async2", "sync", "async3", "undefined"}
  /\ SVCALL \in exceptionPending => phase \in {"tick3", "sync", "undefined"}

(* What the processor says it is doing agrees with what is stacked: the    *)
(* mode, the exception number and the active bits of exceptionTaken belong *)
(* to the newest frame, and every frame has kept the exception number of   *)
(* the one below it, so that the chain can be unwound.                     *)
ExceptionChain ==
  /\ currentMode = "HANDLER" <=> frames # <<>>
  /\ ipsr = IF frames = <<>> THEN 0 ELSE frames[Len(frames)].exc
  /\ exceptionActive = {frames[k].exc : k \in 1 .. Len(frames)}
  /\ \A k \in 1 .. Len(frames) :
       frames[k].ipsr = IF k = 1 THEN 0 ELSE frames[k - 1].exc

(* The frames of pushStack lie one below the other from the aligned        *)
(* initial stack pointer, all of them in RAM and none over another, and    *)
(* the process stack is never used: 32 bytes go for every entry, nested or *)
(* not, and no entry aligns twice.                                         *)
MainStackAccounting ==
  /\ SPSEL = 0 /\ psp = 0
  /\ Len(takenAt) = Len(frames)
  /\ msp = IF frames = <<>> THEN image.sp
           ELSE Align8(image.sp) - FrameSize * Len(frames)
  /\ \A k \in 1 .. Len(frames) :
       /\ frames[k].base = Align8(image.sp) - FrameSize * k
       /\ InRam(frames[k].base, FrameSize)

(* returnAddress never stacks the member nextInstrAddr before startCpu has *)
(* assigned it, although the first check for exceptions comes before the   *)
(* first assignment, and what it stacks follows a fetched instruction.     *)
ReturnAddressIsValid ==
  \A k \in 1 .. Len(frames) :
    frames[k].pc \in 2 .. FlashSize /\ frames[k].pc % 2 = 0

(* The frame of an SVC returns to the instruction after it, even when the  *)
(* SysTick preempts between its fetch and its execution or right after it. *)
SvcReturnsPastSvc ==
  \A k \in 1 .. Len(frames) :
    frames[k].exc = SVCALL => CodeAt(frames[k].pc - 2).op = "svc"

EnteredThisIteration ==
  takenAt # <<>> /\ takenAt[Len(takenAt)] = i

(* As long as no exception is entered in an iteration, the instruction     *)
(* about to be executed is the one at the PC it will move, whatever was    *)
(* entered in the iterations before.                                       *)
InstructionMatchesPC ==
  (phase \in {"decode", "tick2", "async2", "execute"} /\ ~EnteredThisIteration)
    => pc = currentInstrAddr /\ instr = CodeAt(pc)

(* With a reload value of two or more, the SysTick handler is entered at   *)
(* most once in an iteration and so makes progress before it is preempted  *)
(* by itself, unless that iteration's instruction reprograms the counter.  *)
OneTickEntryPerIteration ==
  [][(/\ Len(frames') > Len(frames)
      /\ frames'[Len(frames')].exc = SYSTICK
      /\ EnteredThisIteration
      /\ frames[Len(frames)].exc = SYSTICK)
       => SYST_RVR < 2 \/ instr.op \in {"strCVR", "strRVR"}]_vars

(* The run ends: after MaxIter iterations or at an undefined access. *)
RunEnds == <>(phase \in {"halted", "undefined"})

-----------------------------------------------------------------------------
(* What comments of the source say and the code does not do.               *)

(* exceptionTaken "Branch to handler": what is executed from then on is    *)
(* the code of the handler.                                                *)
BranchesToHandler ==
  (phase = "execute" /\ currentMode = "HANDLER") => instr = CodeAt(pc)

(* pushStack "Select active stack pointer": the frame goes below the stack *)
(* pointer the interrupted code is using.                                  *)
FrameBelowActiveSP ==
  [][Len(frames') > Len(frames) => msp' + FrameSize <= sp]_vars

(* startCpu "Leave current isnt addr as it is the same": after execute the *)
(* next instruction address is the PC.                                     *)
NextInstrAddrIsTheSame ==
  phase \in {"tick3", "sync"} => nextInstrAddr = pc
=============================================================================
