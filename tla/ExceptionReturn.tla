--------------------------- MODULE ExceptionReturn ---------------------------
(***************************************************************************)
(* Exception return (src/cpu.cpp: exceptionReturn, deActivate, PopStack,   *)
(* exceptionActiveBitCount) against the entries of CpuExceptions.  No code *)
(* calls exceptionReturn yet; here it is called with any value, at any     *)
(* moment, between entries and stretches of code that nest as they like.   *)
(*                                                                         *)
(* Every return reads its frame at psp.  Nothing ever makes psp point into *)
(* RAM: it starts as zero, the address of the vector table, and only moves *)
(* on by the size of a frame.  What is found there are words of flash,     *)
(* which the image decides and not what was stacked: members of            *)
(* FlashFrames.                                                            *)
(***************************************************************************)
EXTENDS CpuExceptions, FiniteSets

CONSTANTS InitialSP,    \* msp out of reset
          Code,         \* the code addresses considered
          FlashFrames,  \* what eight words of flash may look like as a frame
          PspBound      \* bound of the run: how far psp may move

Exceptions == {11, 15}

ASSUME InitialSPAssumption == InitialSP \in Nat /\ InitialSP % 4 = 0
ASSUME CodeAssumption == Code \subseteq Nat
ASSUME FlashFramesAssumption ==
  FlashFrames \subseteq [lr : Int, pc : Nat, exception : 0 .. 511, align : {0, 1}]
ASSUME PspBoundAssumption == PspBound \in Nat

vars == <<excVars, currentInstrAddr, nextInstrAddr>>

(* Out of reset, at the first instruction. *)
Init ==
  /\ pc \in Code /\ lr = -1
  /\ scratch = [role \in Roles |-> "reset"]
  /\ msp = InitialSP /\ psp = 0 /\ SPSEL = 0
  /\ currentMode = "THREAD" /\ ipsr = 0 /\ exceptionActive = {}
  /\ currentInstrAddr = pc /\ nextInstrAddr = pc + 2
  /\ frames = <<>>

(* The code runs on without an exception. *)
Run ==
  /\ pc' \in Code
  /\ currentInstrAddr' = pc' /\ nextInstrAddr' = pc' + 2
  /\ UNCHANGED <<lr, scratch, msp, psp, SPSEL, currentMode, ipsr,
                 exceptionActive, frames>>

Enter ==
  /\ \E n \in Exceptions, handler \in Code : exceptionEntry(n, handler)
  /\ UNCHANGED <<currentInstrAddr, nextInstrAddr>>

-----------------------------------------------------------------------------
exceptionActiveBitCount == Cardinality(exceptionActive)

ExcReturns == {EXC_RETURN_HANDLER, EXC_RETURN_MSP, EXC_RETURN_PSP}

(* Seeded fault: a return to thread mode is accepted while others nest. *)
Accepted_AnyNesting(exc) ==
  /\ exc \in ExcReturns
  /\ ipsr \in exceptionActive
  /\ exc = EXC_RETURN_HANDLER => exceptionActiveBitCount # 1

(* The early returns of exceptionReturn. *)
Accepted(exc) ==
  /\ exc \in ExcReturns
  /\ ipsr \in exceptionActive
  /\ (exc = EXC_RETURN_HANDLER) # (exceptionActiveBitCount = 1)

deActivate(n) == exceptionActive' = exceptionActive \ {n}

(* Seeded fault: the bit is added, not set. *)
Freed_Added(stackPointer, align) == stackPointer + FrameSize + 4 * align

(* (stackPointer + 0x20) | align, where align is zero or four. *)
Freed(stackPointer, align) ==
  LET top == stackPointer + FrameSize
  IN  IF align = 1 /\ (top \div 4) % 2 = 0 THEN top + 4 ELSE top

(* Seeded fault: IPSR takes all nine bits of the exception number. *)
Restore_NineBits(exc, frame) ==
  /\ pc' = frame.pc
  /\ ipsr' = frame.exception
  /\ IF exc = EXC_RETURN_PSP
     THEN /\ psp' = Freed(psp, frame.align) /\ psp' <= PspBound
          /\ UNCHANGED msp
     ELSE msp' = Freed(msp, frame.align) /\ UNCHANGED psp

(* The second half of PopStack.  control.nPRIV is zero: only the MSR that  *)
(* decode never recognises would set it.                                   *)
Restore(exc, frame) ==
  /\ pc' = frame.pc
  /\ ipsr' = frame.exception % 64
  /\ IF exc = EXC_RETURN_PSP
     THEN /\ psp' = Freed(psp, frame.align) /\ psp' <= PspBound
          /\ UNCHANGED msp
     ELSE msp' = Freed(msp, frame.align) /\ UNCHANGED psp

(* A stacked PC of zero ends PopStack after r0-r3, r12 and LR. *)
PopStack(exc, frame) ==
  /\ scratch' = [role \in Roles |-> "reset"]
  /\ lr' = frame.lr
  /\ \/ frame.pc # 0 /\ Restore(exc, frame)
     \/ frame.pc = 0 /\ UNCHANGED <<pc, ipsr, msp, psp>>

(* The entry that is returned from leaves the record of entries.  The      *)
(* checks of IPSR that end exceptionReturn change nothing.                 *)
exceptionReturn(exc) ==
  /\ Accepted(exc)
  /\ currentMode' = IF exc = EXC_RETURN_HANDLER THEN "HANDLER" ELSE "THREAD"
  /\ SPSEL' = IF exc = EXC_RETURN_PSP THEN 1 ELSE 0
  /\ deActivate(ipsr)
  /\ \E frame \in FlashFrames : PopStack(exc, frame)
  /\ frames' = SubSeq(frames, 1, Len(frames) - 1)
  /\ UNCHANGED <<currentInstrAddr, nextInstrAddr>>

(* Any other call returns early. *)
Return == \E exc \in ExcReturns : exceptionReturn(exc)

Next == Run \/ Enter \/ Return

Spec == Init /\ [][Next]_vars

-----------------------------------------------------------------------------
TypeOK ==
  /\ pc \in Nat /\ lr \in Int
  /\ scratch \in [Roles -> Origins]
  /\ msp \in Int /\ psp \in Nat /\ SPSEL \in {0, 1}
  /\ currentMode \in {"HANDLER", "THREAD"}
  /\ ipsr \in 0 .. 63 /\ exceptionActive \subseteq Exceptions
  /\ currentInstrAddr \in Nat /\ nextInstrAddr \in Nat
  /\ frames \in Seq([exc : Exceptions, base : Int, align : {0, 1},
                     scratch : [Roles -> Origins], lr : Int, pc : Int,
                     ipsr : 0 .. 63])

(* Whatever IPSR a return finds in memory, the processor is in handler     *)
(* mode exactly while some exception is active: the early returns of       *)
(* exceptionReturn keep the mode it sets and the bits it clears in step.   *)
ModeMatchesActive == currentMode = "HANDLER" <=> exceptionActive # {}

(* A return is accepted only for an exception that was entered and gives   *)
(* back no more than one entry took, although its alignment bit is read    *)
(* from foreign memory: the main stack may leak, but it never climbs past  *)
(* the aligned top it started from and the four bytes of the bit.          *)
MainStackNeverClimbs ==
  /\ exceptionActiveBitCount <= Len(frames)
  /\ msp <= Align8(InitialSP) + 4 - FrameSize * Len(frames)

-----------------------------------------------------------------------------
(* What comments of the source say and the code does not do.               *)

(* "Return to Thread mode using MSP": the return continues where the frame *)
(* that entry left on the main stack says.                                 *)
ThreadReturnUsesMSP ==
  [][(Len(frames') < Len(frames) /\ currentMode' = "THREAD" /\ SPSEL' = 0)
       => pc' = frames[Len(frames)].pc]_vars

(* "Validate IPSR consistency": thread mode has no exception number. *)
IpsrIsConsistent == currentMode = "THREAD" => ipsr = 0
=============================================================================
