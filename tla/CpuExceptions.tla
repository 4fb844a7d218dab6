---------------------------- MODULE CpuExceptions ----------------------------
(***************************************************************************)
(* Exception entry of the emulated processor (src/cpu.cpp: returnAddress,  *)
(* pushStack, exceptionTaken, exceptionEntry).                             *)
(*                                                                         *)
(* A code address is a byte offset in flash.  A stack pointer is a byte    *)
(* offset from RAM_BASE, so a negative one lies below RAM, where write32   *)
(* indexes outside the vector that holds RAM.  The link register holds a   *)
(* code address or, as the signed reading of its 32 bits, an EXC_RETURN    *)
(* value.  r0-r3 and r12 are kept as the two roles a store needs, an       *)
(* address and a value, and of each only where it came from: the reset     *)
(* placeholder, the code, or the zeroing of exception entry.               *)
(***************************************************************************)
EXTENDS Integers, Sequences

CONSTANTS RamSize,   \* bytes of the vector that holds RAM
          Uninit     \* the value of a member the constructor does not assign

ASSUME RamSizeAssumption == RamSize \in Nat
ASSUME UninitAssumption == Uninit \notin Int

VARIABLES pc,                 \* regs[15]
          lr,                 \* regs[14]
          scratch,            \* r0-r3, r12: where each role came from
          msp, psp,           \* the two stack pointers of exception entry
          SPSEL,              \* control.SPSEL
          currentMode,
          ipsr,               \* exception number in xpsr
          exceptionActive,    \* the set of n with exceptionActive[n]
          currentInstrAddr, nextInstrAddr,
          frames              \* what pushStack has stacked, oldest first

excVars == <<pc, lr, scratch, msp, psp, SPSEL, currentMode, ipsr,
             exceptionActive, frames>>

Roles   == {"address", "value"}
Origins == {"reset", "code", "entry"}

FrameSize == 32

EXC_RETURN_HANDLER == -15    \* 0xFFFFFFF1
EXC_RETURN_MSP     == -7     \* 0xFFFFFFF9
EXC_RETURN_PSP     == -3     \* 0xFFFFFFFD

Align2(address) == address - (address % 2)     \* address & ~1u
Align8(address) == address - (address % 8)     \* address & ~0x7u

(* Seeded fault: the address of the instruction itself is stacked. *)
ReturnAddress_Current ==
  IF currentInstrAddr = Uninit THEN Uninit ELSE Align2(currentInstrAddr)

(* Every exception the processor ever enters returns to nextInstrAddr; the *)
(* HardFault and the assertion cases of the switch are never reached.      *)
ReturnAddress ==
  IF nextInstrAddr = Uninit THEN Uninit ELSE Align2(nextInstrAddr)

(* pushStack: the stack pointer it selects ...                             *)
ProcessStack == SPSEL = 1 /\ currentMode = "HANDLER"

ActiveSP == IF ProcessStack THEN psp ELSE msp

(* Seeded fault: the frame is not aligned. *)
FrameBase_Unaligned == ActiveSP - FrameSize

(* ... the frame it makes room for there, aligned to eight bytes ...       *)
FrameBase == Align8(ActiveSP - FrameSize)

(* ... whose eight stores stay in RAM ...                                  *)
InRam(address, size) == address >= 0 /\ address + size <= RamSize

FrameFits == InRam(FrameBase, FrameSize)

(* ... and what it stacks.  "align" is bit 9 of the stacked xPSR.  "exc",  *)
(* the exception that was entered, is kept for the properties.             *)
Frame(n) == [exc     |-> n,
             base    |-> FrameBase,
             align   |-> (ActiveSP \div 4) % 2,
             scratch |-> scratch,
             lr      |-> lr,
             pc      |-> ReturnAddress,
             ipsr    |-> ipsr]

ExcReturn ==
  IF currentMode = "HANDLER" THEN EXC_RETURN_HANDLER
  ELSE IF SPSEL = 0 THEN EXC_RETURN_MSP ELSE EXC_RETURN_PSP

pushStack(n) ==
  /\ frames' = Append(frames, Frame(n))
  /\ IF ProcessStack THEN psp' = FrameBase /\ UNCHANGED msp
                     ELSE msp' = FrameBase /\ UNCHANGED psp
  /\ lr' = ExcReturn

(* Seeded fault: the exception is not marked active. *)
exceptionTaken_Inactive(n, handler) ==
  /\ scratch' = [role \in Roles |-> "entry"]
  /\ currentMode' = "HANDLER"
  /\ ipsr' = n
  /\ SPSEL' = 0
  /\ UNCHANGED exceptionActive
  /\ pc' = Align2(handler)

(* exceptionTaken: "handler" is the word read32 finds in the vector table. *)
exceptionTaken(n, handler) ==
  /\ scratch' = [role \in Roles |-> "entry"]
  /\ currentMode' = "HANDLER"
  /\ ipsr' = n
  /\ SPSEL' = 0
  /\ exceptionActive' = exceptionActive \cup {n}
  /\ pc' = Align2(handler)       \* BLXWritePC

exceptionEntry(n, handler) ==
  /\ FrameFits
  /\ pushStack(n)
  /\ exceptionTaken(n, handler)
=============================================================================
