---------------------------- MODULE SysTickTimer ----------------------------
(***************************************************************************)
(* The SysTick timer under an arbitrary firmware: ticks, register writes   *)
(* and reads in any order, and a processor that takes requests when it     *)
(* likes.  It implements PeriodicTimer.                                    *)
(***************************************************************************)
EXTENDS SysTick

VARIABLE loaded    \* history: the length the period under way was opened with

vars == <<timerVars, exceptionPending, loaded>>

Init == SysTickInit /\ loaded = 0

(* Cpu::tick; the history records the reload. *)
TimerTick ==
  /\ Tick
  /\ loaded' = IF TickReload THEN SYST_RVR ELSE loaded

(* A store of the firmware reaches SCS::write32.  Cpu::read32 does not     *)
(* route loads to SCS::read32 yet; here any caller may read SYST_CSR.      *)
FirmwareCSR == \E bits \in SUBSET CsrBits : WriteCSR(bits) /\ UNCHANGED loaded

FirmwareRVR ==
  \E value \in 0 .. ReloadModulus : WriteRVR(value) /\ UNCHANGED loaded

FirmwareCVR == WriteCVR /\ UNCHANGED loaded

FirmwareReadCSR == ReadCSR /\ UNCHANGED loaded

(* executeMisc pends SVCall, the two exception checks take what is pending. *)
PendSVCall ==
  /\ exceptionPending' = exceptionPending \cup {SVCALL}
  /\ UNCHANGED <<timerVars, loaded>>

TakeException ==
  /\ \E n \in exceptionPending : exceptionPending' = exceptionPending \ {n}
  /\ UNCHANGED <<timerVars, loaded>>

Next ==
  \/ TimerTick
  \/ FirmwareCSR \/ FirmwareRVR \/ FirmwareCVR \/ FirmwareReadCSR
  \/ PendSVCall \/ TakeException

Spec == Init /\ [][Next]_vars

(* startCpu calls tick three times in every iteration, whatever the        *)
(* firmware does, so ticks do not stop.                                    *)
FairSpec == Spec /\ WF_vars(TimerTick)

-----------------------------------------------------------------------------
TypeOK == SysTickTypeOK /\ loaded \in 0 .. ReloadModulus - 1

(* The counter never leaves the period it was loaded for, whatever the     *)
(* firmware reprograms in between: the next request is at most loaded + 1  *)
(* ticks away (Cpu::tick against SCS::write32).                            *)
CounterWithinPeriod == SYST_CVR <= loaded

Timer == INSTANCE PeriodicTimer WITH
  running   <- "ENABLE" \in SYST_CSR,
  wanted    <- "TICKINT" \in SYST_CSR,
  reload    <- SYST_RVR,
  length    <- loaded,
  elapsed   <- loaded - SYST_CVR,
  requested <- SYSTICK \in exceptionPending

(* The registers count down and are rewritten at any moment, yet what a    *)
(* program can rely on is a PeriodicTimer: no period is cut short or       *)
(* stretched by a write to SYST_RVR, none is lost by a disable and enable, *)
(* and a request is never dropped by a register write.                     *)
ImplementsPeriodicTimer == Timer!Spec

(* Once the firmware leaves the timer enabled with its interrupt, requests *)
(* keep being raised, even if it keeps rewriting SYST_RVR and SYST_CVR.    *)
RequestsKeepComing ==
  <>[]({"ENABLE", "TICKINT"} \subseteq SYST_CSR)
    => []<>(SYSTICK \in exceptionPending)
=============================================================================
