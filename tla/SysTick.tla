------------------------------- MODULE SysTick -------------------------------
(***************************************************************************)
(* The SysTick timer of the emulated System Control Space.                 *)
(*                                                                         *)
(* The three registers live in the class SysTick (include/system.hpp), the *)
(* firmware writes them through SCS::write32 (src/system.cpp), and the     *)
(* counter advances when the processor calls Cpu::tick (src/cpu.cpp).      *)
(* This module has the state and the operations; SysTickTimer runs them    *)
(* against an arbitrary firmware, CpuLoop inside the processor loop.       *)
(*                                                                         *)
(* SYST_CSR is the set of its bits that are one.  The counter registers    *)
(* are numbers below ReloadModulus, which is 2^24 in the code.             *)
(***************************************************************************)
EXTENDS Integers

CONSTANT ReloadModulus

ASSUME ReloadModulusAssumption == ReloadModulus \in Nat \ {0}

VARIABLES SYST_CSR, SYST_RVR, SYST_CVR, exceptionPending

timerVars == <<SYST_CSR, SYST_RVR, SYST_CVR>>

SVCALL  == 11       \* EXCEPTION_SVCALL
SYSTICK == 15       \* EXCEPTION_SYSTICK

Exceptions == {SVCALL, SYSTICK}   \* the two the processor ever makes pending

WritableBits == {"ENABLE", "TICKINT", "CLKSOURCE"}
CsrBits == WritableBits \cup {"COUNTFLAG"}

SysTickTypeOK ==
  /\ SYST_CSR \subseteq CsrBits
  /\ SYST_RVR \in 0 .. ReloadModulus - 1
  /\ SYST_CVR \in 0 .. ReloadModulus - 1
  /\ exceptionPending \subseteq Exceptions

(* Seeded fault: the timer is enabled out of reset. *)
SysTickInit_Enabled ==
  /\ SYST_CSR = {"ENABLE", "TICKINT"}
  /\ SYST_RVR = 0
  /\ SYST_CVR = 0
  /\ exceptionPending = {}

SysTickInit ==
  /\ SYST_CSR = {}
  /\ SYST_RVR = 0
  /\ SYST_CVR = 0
  /\ exceptionPending = {}

-----------------------------------------------------------------------------
(***************************************************************************)
(* Cpu::tick, called three times in every iteration of the processor loop. *)
(***************************************************************************)
TickDisabled ==
  /\ "ENABLE" \notin SYST_CSR
  /\ UNCHANGED <<timerVars, exceptionPending>>

(* Seeded fault: the counter is loaded one too low. *)
TickReload_OneShort ==
  /\ "ENABLE" \in SYST_CSR
  /\ SYST_CVR = 0
  /\ SYST_CVR' = IF SYST_RVR = 0 THEN 0 ELSE SYST_RVR - 1
  /\ SYST_CSR' = SYST_CSR \cup {"COUNTFLAG"}
  /\ exceptionPending' = IF "TICKINT" \in SYST_CSR
                         THEN exceptionPending \cup {SYSTICK}
                         ELSE exceptionPending
  /\ UNCHANGED SYST_RVR

(* Seeded fault: no request while COUNTFLAG has not been read. *)
TickReload_FlagBlocks ==
  /\ "ENABLE" \in SYST_CSR
  /\ SYST_CVR = 0
  /\ SYST_CVR' = SYST_RVR
  /\ SYST_CSR' = SYST_CSR \cup {"COUNTFLAG"}
  /\ exceptionPending' = IF "TICKINT" \in SYST_CSR /\ "COUNTFLAG" \notin SYST_CSR
                         THEN exceptionPending \cup {SYSTICK}
                         ELSE exceptionPending
  /\ UNCHANGED SYST_RVR

TickReload ==
  /\ "ENABLE" \in SYST_CSR
  /\ SYST_CVR = 0
  /\ SYST_CVR' = SYST_RVR
  /\ SYST_CSR' = SYST_CSR \cup {"COUNTFLAG"}
  /\ exceptionPending' = IF "TICKINT" \in SYST_CSR
                         THEN exceptionPending \cup {SYSTICK}
                         ELSE exceptionPending
  /\ UNCHANGED SYST_RVR

(* Seeded fault: zero is counted down too. *)
TickCount_PastZero ==
  /\ "ENABLE" \in SYST_CSR
  /\ SYST_CVR' = SYST_CVR - 1
  /\ UNCHANGED <<SYST_CSR, SYST_RVR, exceptionPending>>

TickCount ==
  /\ "ENABLE" \in SYST_CSR
  /\ SYST_CVR # 0
  /\ SYST_CVR' = SYST_CVR - 1
  /\ UNCHANGED <<SYST_CSR, SYST_RVR, exceptionPending>>

Tick == TickDisabled \/ TickReload \/ TickCount

-----------------------------------------------------------------------------
(***************************************************************************)
(* SCS::write32 on the three registers, and the read of SYST_CSR in        *)
(* SCS::read32.  A value written to SYST_CSR is the set of its one bits.   *)
(***************************************************************************)
(* Seeded fault: clearing TICKINT also drops a request already made. *)
WriteCSR_DropsRequest(bits) ==
  /\ SYST_CSR' = bits \cap WritableBits
  /\ exceptionPending' = IF "TICKINT" \in bits THEN exceptionPending
                         ELSE exceptionPending \ {SYSTICK}
  /\ UNCHANGED <<SYST_RVR, SYST_CVR>>

WriteCSR(bits) ==
  /\ SYST_CSR' = bits \cap WritableBits
  /\ UNCHANGED <<SYST_RVR, SYST_CVR, exceptionPending>>

(* Seeded fault: the value is not masked. *)
WriteRVR_Unmasked(value) ==
  /\ SYST_RVR' = value
  /\ UNCHANGED <<SYST_CSR, SYST_CVR, exceptionPending>>

(* Seeded fault: the counter is loaded at once. *)
WriteRVR_LoadsCounter(value) ==
  /\ SYST_RVR' = value % ReloadModulus
  /\ SYST_CVR' = value % ReloadModulus
  /\ UNCHANGED <<SYST_CSR, exceptionPending>>

WriteRVR(value) ==
  /\ SYST_RVR' = value % ReloadModulus
  /\ UNCHANGED <<SYST_CSR, SYST_CVR, exceptionPending>>

WriteCVR ==
  /\ SYST_CVR' = 0
  /\ SYST_CSR' = SYST_CSR \ {"COUNTFLAG"}
  /\ UNCHANGED <<SYST_RVR, exceptionPending>>

ReadCSR ==
  /\ SYST_CSR' = SYST_CSR \ {"COUNTFLAG"}
  /\ UNCHANGED <<SYST_RVR, SYST_CVR, exceptionPending>>
=============================================================================
