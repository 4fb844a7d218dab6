---------------------------- MODULE DeviceProofs ----------------------------
(***************************************************************************)
(* The two devices that raise exceptions.  For every width of the counter, *)
(* SysTickTimer stays within the period it was loaded for and implements   *)
(* PeriodicTimer; for any number of interrupts, the controller of          *)
(* include/nvic.hpp takes no spurious interrupt and implements             *)
(* LevelInterrupts.                                                        *)
(***************************************************************************)
EXTENDS SysTickTimer, NVIC, TLAPS

IInv == TypeOK /\ CounterWithinPeriod

(* What SCS::write32 keeps of a value it is given for SYST_RVR fits the    *)
(* register.                                                               *)
LEMMA MaskedValueFits ==
  ASSUME NEW value \in Nat
  PROVE  value % ReloadModulus \in 0 .. ReloadModulus - 1
  BY ReloadModulusAssumption

LEMMA InitInvariant == Init => IInv
  BY ReloadModulusAssumption
  DEF Init, SysTickInit, IInv, TypeOK, SysTickTypeOK, CounterWithinPeriod,
      CsrBits, WritableBits, Exceptions

LEMMA NextInvariant == IInv /\ [Next]_vars => IInv'
<1> SUFFICES ASSUME IInv, [Next]_vars
             PROVE  IInv'
  OBVIOUS
<1> USE ReloadModulusAssumption
        DEF IInv, TypeOK, SysTickTypeOK, CounterWithinPeriod, CsrBits,
            WritableBits, Exceptions, timerVars, SVCALL, SYSTICK
<1>1. CASE TimerTick
  <2>1. CASE TickDisabled
    BY <1>1, <2>1 DEF TimerTick, TickDisabled, TickReload
  <2>2. CASE TickReload
    BY <1>1, <2>2 DEF TimerTick, TickReload
  <2>3. CASE TickCount
    BY <1>1, <2>3 DEF TimerTick, TickCount, TickReload
  <2> QED BY <1>1, <2>1, <2>2, <2>3 DEF TimerTick, Tick
<1>2. CASE FirmwareCSR
  BY <1>2 DEF FirmwareCSR, WriteCSR
<1>3. CASE FirmwareRVR
  <2>1. PICK value \in 0 .. ReloadModulus : WriteRVR(value) /\ UNCHANGED loaded
    BY <1>3 DEF FirmwareRVR
  <2>2. SYST_RVR' \in 0 .. ReloadModulus - 1
    BY <2>1, MaskedValueFits DEF WriteRVR
  <2> QED BY <2>1, <2>2 DEF WriteRVR
<1>4. CASE FirmwareCVR
  BY <1>4 DEF FirmwareCVR, WriteCVR
<1>5. CASE FirmwareReadCSR
  BY <1>5 DEF FirmwareReadCSR, ReadCSR
<1>6. CASE PendSVCall
  BY <1>6 DEF PendSVCall
<1>7. CASE TakeException
  BY <1>7 DEF TakeException
<1>8. CASE UNCHANGED vars
  BY <1>8 DEF vars
<1> QED BY <1>1, <1>2, <1>3, <1>4, <1>5, <1>6, <1>7, <1>8 DEF Next

LEMMA Invariant == Spec => []IInv
  BY InitInvariant, NextInvariant, PTL DEF Spec

(* The registers stay within their widths: SCS::write32 masks what it      *)
(* stores and tick never counts below zero.                                *)
THEOREM TypeCorrect == Spec => []TypeOK
  BY Invariant, PTL DEF IInv

(* Reprogramming SYST_RVR never stretches the period under way.            *)
THEOREM PeriodBounded == Spec => []CounterWithinPeriod
  BY Invariant, PTL DEF IInv

-----------------------------------------------------------------------------
LEMMA InitRefines == Init => Timer!Init
  BY ReloadModulusAssumption DEF Init, SysTickInit, Timer!Init

(* Every call of tick is a step of the period, its end, or, when the timer *)
(* is disabled, no step at all.                                            *)
LEMMA TickRefines ==
  ASSUME IInv, TimerTick
  PROVE  [Timer!Next]_(Timer!vars)
<1> USE DEF IInv, TypeOK, SysTickTypeOK, CounterWithinPeriod
<1>1. CASE TickDisabled
  BY <1>1 DEF TimerTick, TickDisabled, TickReload, Timer!vars, timerVars
<1>2. CASE TickReload
  <2>1. ("TICKINT" \in SYST_CSR)' = ("TICKINT" \in SYST_CSR)
    BY <1>2 DEF TickReload
  <2>2. (SYSTICK \in exceptionPending)'
           = (SYSTICK \in exceptionPending \/ "TICKINT" \in SYST_CSR)
    BY <1>2 DEF TickReload
  <2>3. Timer!Expire
    BY <1>2, <2>1, <2>2 DEF TimerTick, TickReload, Timer!Expire
  <2> QED BY <2>3 DEF Timer!Next
<1>3. CASE TickCount
  <2>1. Timer!Advance
    BY <1>3 DEF TimerTick, TickCount, TickReload, Timer!Advance
  <2> QED BY <2>1 DEF Timer!Next
<1> QED BY <1>1, <1>2, <1>3 DEF TimerTick, Tick

LEMMA NextRefines ==
  IInv /\ [Next]_vars => [Timer!Next]_(Timer!vars)
<1> SUFFICES ASSUME IInv, [Next]_vars
             PROVE  [Timer!Next]_(Timer!vars)
  OBVIOUS
<1> USE DEF IInv, TypeOK, SysTickTypeOK, CounterWithinPeriod
<1>1. CASE TimerTick
  BY <1>1, TickRefines
<1>2. CASE FirmwareCSR
  <2>1. Timer!Configure
    BY <1>2 DEF FirmwareCSR, WriteCSR, Timer!Configure
  <2> QED BY <2>1 DEF Timer!Next
<1>3. CASE FirmwareRVR
  <2>1. PICK value \in 0 .. ReloadModulus : WriteRVR(value) /\ UNCHANGED loaded
    BY <1>3 DEF FirmwareRVR
  <2>2. SYST_RVR' \in Nat
    BY <2>1, MaskedValueFits, ReloadModulusAssumption DEF WriteRVR
  <2>3. Timer!Program
    BY <2>1, <2>2 DEF WriteRVR, Timer!Program
  <2> QED BY <2>3 DEF Timer!Next
<1>4. CASE FirmwareCVR
  <2>1. Timer!Restart
    BY <1>4 DEF FirmwareCVR, WriteCVR, Timer!Restart
  <2> QED BY <2>1 DEF Timer!Next
<1>5. CASE FirmwareReadCSR
  BY <1>5 DEF FirmwareReadCSR, ReadCSR, Timer!vars
<1>6. CASE PendSVCall
  BY <1>6 DEF PendSVCall, Timer!vars, timerVars, SVCALL, SYSTICK
<1>7. CASE TakeException
  <2>1. PICK n \in exceptionPending :
          exceptionPending' = exceptionPending \ {n}
    BY <1>7 DEF TakeException
  <2>2. CASE n = SYSTICK
    <3>1. Timer!Take
      BY <1>7, <2>1, <2>2 DEF TakeException, timerVars, Timer!Take
    <3> QED BY <3>1 DEF Timer!Next
  <2>3. CASE n # SYSTICK
    BY <1>7, <2>1, <2>3 DEF TakeException, timerVars, Timer!vars
  <2> QED BY <2>2, <2>3
<1>8. CASE UNCHANGED vars
  BY <1>8 DEF vars, timerVars, Timer!vars
<1> QED BY <1>1, <1>2, <1>3, <1>4, <1>5, <1>6, <1>7, <1>8 DEF Next

(* SysTick as coded, under any firmware, is a PeriodicTimer: a request is  *)
(* raised exactly when a whole period has elapsed on a timer that wants    *)
(* requests, and stays until it is taken.                                  *)
THEOREM TimerRefinement == Spec => ImplementsPeriodicTimer
<1>1. Init => Timer!Init
  BY InitRefines
<1>2. IInv /\ [Next]_vars => [Timer!Next]_(Timer!vars)
  BY NextRefines
<1> QED
  BY <1>1, <1>2, Invariant, PTL DEF Spec, Timer!Spec, ImplementsPeriodicTimer

-----------------------------------------------------------------------------
NVICIInv == NVICTypeOK /\ NoSpuriousInterrupt

(* The whole of updateNVIC's case analysis: an interrupt is pending        *)
(* afterwards exactly if its line is high.                                 *)
LEMMA UpdateSamplesLines ==
  ASSUME NVICTypeOK, updateNVIC
  PROVE  pending' = line
  BY DEF NVICTypeOK, updateNVIC, setPend, clearPend, edge

LEMMA NVICInitInvariant == NVICInit => NVICIInv
  BY DEF NVICInit, NVICIInv, NVICTypeOK, NoSpuriousInterrupt

LEMMA NVICNextInvariant == NVICIInv /\ [NVICNext]_nvicVars => NVICIInv'
<1> SUFFICES ASSUME NVICIInv, [NVICNext]_nvicVars
             PROVE  NVICIInv'
  OBVIOUS
<1> USE DEF NVICIInv, NVICTypeOK, NoSpuriousInterrupt
<1>1. ASSUME NEW irq \in IRQs, assertIRQ(irq)
      PROVE  NVICIInv'
  BY <1>1 DEF assertIRQ
<1>2. ASSUME NEW irq \in IRQs, deassertIRQ(irq)
      PROVE  NVICIInv'
  BY <1>2 DEF deassertIRQ
<1>3. ASSUME NEW irq \in IRQs, setPending(irq)
      PROVE  NVICIInv'
  BY <1>3 DEF setPending
<1>4. ASSUME NEW irq \in IRQs, clearPending(irq)
      PROVE  NVICIInv'
  BY <1>4 DEF clearPending
<1>5. ASSUME NEW irq \in IRQs, writeEnabled(irq)
      PROVE  NVICIInv'
  BY <1>5 DEF writeEnabled
<1>6. ASSUME NEW irq \in IRQs, ExceptionReturn(irq)
      PROVE  NVICIInv'
  BY <1>6 DEF ExceptionReturn
<1>7. CASE updateNVIC
  BY <1>7, UpdateSamplesLines DEF updateNVIC
<1>8. CASE checkInterrupts
  BY <1>8 DEF checkInterrupts, Eligible
<1>9. CASE UNCHANGED nvicVars
  BY <1>9 DEF nvicVars
<1> QED BY <1>1, <1>2, <1>3, <1>4, <1>5, <1>6, <1>7, <1>8, <1>9 DEF NVICNext

LEMMA NVICInvariant == NVICSpec => []NVICIInv
  BY NVICInitInvariant, NVICNextInvariant, PTL DEF NVICSpec

(* The five arrays only ever speak of interrupts the controller has. *)
THEOREM NVICTypeCorrect == NVICSpec => []NVICTypeOK
  BY NVICInvariant, PTL DEF NVICIInv

(* What checkInterrupts finds pending had its line high at the last call   *)
(* of updateNVIC or was requested by software.                             *)
THEOREM NoSpurious == NVICSpec => []NoSpuriousInterrupt
  BY NVICInvariant, PTL DEF NVICIInv

-----------------------------------------------------------------------------
LEMMA NVICInitRefines == NVICInit => Level!Init
  BY DEF NVICInit, Level!Init

LEMMA NVICNextRefines == NVICIInv /\ [NVICNext]_nvicVars => [Level!Next]_(Level!vars)
<1> SUFFICES ASSUME NVICIInv, [NVICNext]_nvicVars
             PROVE  [Level!Next]_(Level!vars)
  OBVIOUS
<1>1. ASSUME NEW irq \in IRQs, assertIRQ(irq) \/ deassertIRQ(irq)
      PROVE  Level!Next
  <2>1. Level!Move(irq)
    BY <1>1 DEF assertIRQ, deassertIRQ, Level!Move, Level!Flip
  <2> QED BY <2>1 DEF Level!Next
<1>2. ASSUME NEW irq \in IRQs, setPending(irq) \/ clearPending(irq)
      PROVE  Level!Next
  <2>1. Level!WritePending(irq)
    BY <1>2 DEF setPending, clearPending, Level!WritePending, Level!Flip
  <2> QED BY <2>1 DEF Level!Next
<1>3. ASSUME NEW irq \in IRQs, writeEnabled(irq)
      PROVE  Level!Next
  <2>1. Level!WriteEnabled(irq)
    BY <1>3 DEF writeEnabled, Level!WriteEnabled, Level!Flip
  <2> QED BY <2>1 DEF Level!Next
<1>4. ASSUME NEW irq \in IRQs, ExceptionReturn(irq)
      PROVE  Level!Next
  <2>1. Level!Return(irq)
    BY <1>4 DEF ExceptionReturn, Level!Return
  <2> QED BY <2>1 DEF Level!Next
<1>5. CASE updateNVIC
  <2>1. Level!Sample
    BY <1>5, UpdateSamplesLines DEF NVICIInv, updateNVIC, Level!Sample
  <2> QED BY <2>1 DEF Level!Next
<1>6. CASE checkInterrupts
  <2>1. Level!Accept
    BY <1>6 DEF checkInterrupts, Eligible, Level!Accept
  <2> QED BY <2>1 DEF Level!Next
<1>7. CASE UNCHANGED nvicVars
  BY <1>7 DEF nvicVars, Level!vars
<1> QED BY <1>1, <1>2, <1>3, <1>4, <1>5, <1>6, <1>7 DEF NVICNext

(* edge, prevLine and the contradictory branch of updateNVIC decide        *)
(* nothing: the controller is level-sensitive.                             *)
THEOREM LevelRefinement == NVICSpec => ImplementsLevelInterrupts
  BY NVICInitRefines, NVICNextRefines, NVICInvariant, PTL
  DEF NVICSpec, Level!Spec, ImplementsLevelInterrupts
=============================================================================
