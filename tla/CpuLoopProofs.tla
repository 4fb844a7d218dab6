---------------------------- MODULE CpuLoopProofs ----------------------------
(***************************************************************************)
(* The safety properties of CpuLoop hold for every firmware image, every   *)
(* size of flash and RAM and every number of iterations.                   *)
(***************************************************************************)
EXTENDS CpuLoop, TLAPS

FetchedPhases == {"tick1", "async1", "decode", "tick2", "async2", "execute",
                  "tick3", "sync", "async3"}
DecodedPhases == {"tick2", "async2", "execute", "tick3", "sync", "async3"}
AssignedPhases == {"async2", "execute", "tick3", "sync", "async3"}

(* How far the iteration has come.  The third-last conjunct is the reason  *)
(* why no unassigned address is ever stacked: only an instruction that has *)
(* been executed can enable the SysTick.                                   *)
LoopState ==
  /\ pc % 2 = 0
  /\ lastBL # Uninit => lastBL % 2 = 0
  /\ phase \in FetchedPhases =>
       /\ i < MaxIter
       /\ currentInstrAddr \in 0 .. FlashSize - 4
       /\ currentInstrAddr % 2 = 0
       /\ instr = CodeAt(currentInstrAddr)
  /\ phase \in DecodedPhases =>
       decodedInstructionSize = IF instr.op \in {"bl", "wide"} THEN 4 ELSE 2
  /\ phase \in AssignedPhases =>
       nextInstrAddr = currentInstrAddr + decodedInstructionSize
  /\ nextInstrAddr # Uninit =>
       nextInstrAddr \in 2 .. FlashSize /\ nextInstrAddr % 2 = 0
  /\ nextInstrAddr = Uninit => SYST_CSR = {} /\ exceptionPending = {}
  /\ SVCALL \in exceptionPending => instr.op = "svc"
  /\ (phase \in FetchedPhases \ {"tick3", "sync", "async3"}
        /\ ~EnteredThisIteration)
       => pc = currentInstrAddr
  /\ \A k \in 1 .. Len(takenAt) :
       takenAt[k] <= i /\ (phase = "fetch" => takenAt[k] < i)

StackInv == /\ ExceptionChain
            /\ MainStackAccounting
            /\ ReturnAddressIsValid
            /\ SvcReturnsPastSvc

IInv == TypeOK /\ RequestsServedAtOnce /\ StackInv /\ LoopState

-----------------------------------------------------------------------------
(* Rounding a stack pointer down to eight bytes commutes with making room  *)
(* for a frame, so that only the first entry loses bytes to alignment.     *)
LEMMA Align8Facts ==
  ASSUME NEW a \in Int
  PROVE  /\ Align8(a) \in Int
         /\ Align8(a - 32) = Align8(a) - 32
  BY DEF Align8

LEMMA Align8Again ==
  ASSUME NEW a \in Int, NEW n \in Nat
  PROVE  Align8((Align8(a) - 32 * n) - 32) = (Align8(a) - 32 * n) - 32
<1> DEFINE b == Align8(a)
<1>1. b \in Int /\ b % 8 = 0
  BY DEF Align8
<1>2. ((b - 32 * n) - 32) % 8 = 0
  BY <1>1
<1> HIDE DEF b
<1> QED BY <1>1, <1>2 DEF Align8

LEMMA Align2Facts ==
  ASSUME NEW a \in Int
  PROVE  /\ Align2(a) \in Int
         /\ Align2(a) % 2 = 0
         /\ a % 2 = 0 => Align2(a) = a
  BY DEF Align2

LEMMA ElementOfSeq ==
  ASSUME NEW S, NEW s \in Seq(S), NEW k \in 1 .. Len(s)
  PROVE  s[k] \in S
  OBVIOUS

(* Whatever address is fetched from, what is found is an instruction the   *)
(* model knows.                                                            *)
LEMMA CodeIsWellFormed ==
  ASSUME firmware \in DOMAIN Images, NEW a
  PROVE  CodeAt(a) \in Instr /\ WellFormed(CodeAt(a))
<1>1. CASE a \in DOMAIN image.code
  BY <1>1, ImagesAssumption DEF image, CodeAt
<1>2. CASE a \notin DOMAIN image.code
  BY <1>2 DEF CodeAt, Alu, Instr, Ops, WellFormed, Branches
<1> QED BY <1>1, <1>2

LEMMA ImageTypes ==
  ASSUME firmware \in DOMAIN Images
  PROVE  /\ image.sp \in Nat
         /\ image.entry \in Nat
         /\ image.vector \in [Exceptions -> Nat]
  BY ImagesAssumption DEF image

-----------------------------------------------------------------------------
LEMMA InitInvariant == Init => IInv
<1> SUFFICES ASSUME Init
             PROVE  IInv
  OBVIOUS
<1> USE DEF Init, SysTickInit
<1>1. TypeOK
  <2>1. image.entry \in Nat /\ image.sp \in Nat
    BY ImageTypes
  <2>2. pc \in Int
    BY <2>1, Align2Facts
  <2>3. SysTickTypeOK
    BY ReloadModulusAssumption DEF SysTickTypeOK
  <2>4. instr \in Instr /\ WellFormed(instr)
    BY DEF Alu, Instr, Ops, WellFormed, Branches
  <2>5. frames \in Seq(FrameRecord) /\ takenAt \in Seq(0 .. MaxIter)
    OBVIOUS
  <2>6. scratch \in [Roles -> Origins]
    BY DEF Roles, Origins
  <2> QED
    BY <2>1, <2>2, <2>3, <2>4, <2>5, <2>6, SizesAssumption DEF TypeOK, Phases
<1>2. RequestsServedAtOnce
  BY DEF RequestsServedAtOnce
<1>3. StackInv
  BY DEF StackInv, ExceptionChain, MainStackAccounting, ReturnAddressIsValid,
         SvcReturnsPastSvc
<1>4. LoopState
  <2>1. pc % 2 = 0
    BY ImageTypes, Align2Facts
  <2> QED BY <2>1, UninitAssumption DEF LoopState, FetchedPhases,
             DecodedPhases, AssignedPhases, Alu
<1> QED BY <1>1, <1>2, <1>3, <1>4 DEF IInv

(* A step that enters no exception leaves everything stacked as it is. *)
LEMMA StackKept ==
  ASSUME StackInv,
         UNCHANGED <<firmware, msp, psp, SPSEL, currentMode, ipsr,
                     exceptionActive, frames, takenAt>>
  PROVE  StackInv'
  BY DEF StackInv, ExceptionChain, MainStackAccounting, ReturnAddressIsValid,
         SvcReturnsPastSvc, CodeAt, image

LEMMA FetchStep ==
  ASSUME IInv, Fetch
  PROVE  IInv'
<1> USE DEF Fetch
<1>0. CodeAt(pc) \in Instr /\ WellFormed(CodeAt(pc))
  BY CodeIsWellFormed DEF IInv, TypeOK
<1>1. TypeOK'
  BY <1>0 DEF IInv, TypeOK, excVars, timerVars, SysTickTypeOK, Phases
<1>2. RequestsServedAtOnce'
  BY DEF IInv, RequestsServedAtOnce
<1>3. StackInv'
  BY StackKept DEF IInv, excVars
<1>4. LoopState'
  <2> USE DEF IInv, TypeOK, LoopState, RequestsServedAtOnce, FetchedPhases,
              DecodedPhases, AssignedPhases, excVars, timerVars
  <2>1. CASE pc \in 0 .. FlashSize - 4
    BY <2>1, SizesAssumption DEF CodeAt, image, EnteredThisIteration
  <2>2. CASE pc \notin 0 .. FlashSize - 4
    BY <2>2, SizesAssumption
  <2> QED BY <2>1, <2>2
<1> QED BY <1>1, <1>2, <1>3, <1>4 DEF IInv

LEMMA TickStep ==
  ASSUME IInv, TickPhase
  PROVE  IInv'
<1>1. PICK here \in {"tick1", "tick2", "tick3"},
           there \in {"async1", "async2", "sync"} :
        /\ TickAt(here, there)
        /\ here = "tick1" <=> there = "async1"
        /\ here = "tick2" <=> there = "async2"
  BY DEF TickPhase
<1> USE <1>1 DEF TickAt
<1>2. SysTickTypeOK'
  <2> USE ReloadModulusAssumption
          DEF IInv, TypeOK, SysTickTypeOK, CsrBits, Exceptions, SYSTICK,
              timerVars
  <2>1. CASE TickDisabled
    BY <2>1 DEF TickDisabled
  <2>2. CASE TickReload
    BY <2>2 DEF TickReload
  <2>3. CASE TickCount
    BY <2>3 DEF TickCount
  <2> QED BY <2>1, <2>2, <2>3 DEF Tick
<1>3. TypeOK'
  <2>1. here = "tick2" =>
          /\ currentInstrAddr \in Int
          /\ decodedInstructionSize \in Int
    BY DEF IInv, TypeOK, LoopState, FetchedPhases, DecodedPhases
  <2>2. nextInstrAddr' \in Int \cup {Uninit}
    BY <2>1 DEF IInv, TypeOK
  <2> QED BY <1>2, <2>2 DEF IInv, TypeOK, excVars, Phases
<1>4. RequestsServedAtOnce'
  BY DEF IInv, RequestsServedAtOnce, Tick, TickDisabled, TickReload, TickCount,
         SVCALL, SYSTICK, timerVars
<1>5. StackInv'
  BY StackKept DEF IInv, excVars
<1>6. LoopState'
  <2>1. /\ SVCALL \in exceptionPending' => SVCALL \in exceptionPending
        /\ SYST_CSR = {} => UNCHANGED <<SYST_CSR, exceptionPending>>
    BY DEF Tick, TickDisabled, TickReload, TickCount, SVCALL, SYSTICK,
           timerVars
  <2>2. CASE here = "tick2"
    <3>1. /\ currentInstrAddr \in 0 .. FlashSize - 4
          /\ currentInstrAddr % 2 = 0
          /\ decodedInstructionSize \in {2, 4}
      BY <2>2 DEF IInv, LoopState, FetchedPhases, DecodedPhases
    <3>2. /\ nextInstrAddr' = currentInstrAddr + decodedInstructionSize
          /\ nextInstrAddr' \in 2 .. FlashSize
          /\ nextInstrAddr' % 2 = 0
          /\ nextInstrAddr' # Uninit
      BY <2>2, <3>1, SizesAssumption, UninitAssumption
    <3> QED
      BY <2>1, <2>2, <3>1, <3>2
      DEF IInv, LoopState, FetchedPhases, DecodedPhases, AssignedPhases,
          excVars, EnteredThisIteration, CodeAt, image
  <2>3. CASE here # "tick2"
    BY <2>1, <2>3
    DEF IInv, LoopState, FetchedPhases, DecodedPhases, AssignedPhases,
        excVars, EnteredThisIteration, CodeAt, image
  <2> QED BY <2>2, <2>3
<1> QED BY <1>3, <1>4, <1>5, <1>6 DEF IInv

LEMMA DecodeStep ==
  ASSUME IInv, Decode
  PROVE  IInv'
<1> USE DEF Decode
<1>1. TypeOK'
  <2>1. instr.arg \in Int
    BY DEF IInv, TypeOK, Instr
  <2> QED
    BY <2>1 DEF IInv, TypeOK, excVars, timerVars, SysTickTypeOK, Phases
<1>2. RequestsServedAtOnce'
  BY DEF IInv, RequestsServedAtOnce
<1>3. StackInv'
  BY StackKept DEF IInv, excVars
<1>4. LoopState'
  <2>1. lastBL' # Uninit => lastBL' % 2 = 0
    BY DEF IInv, TypeOK, LoopState, WellFormed, Branches
  <2> QED
    BY <2>1
    DEF IInv, LoopState, FetchedPhases, DecodedPhases, AssignedPhases,
        excVars, timerVars, EnteredThisIteration, CodeAt, image
<1> QED BY <1>1, <1>2, <1>3, <1>4 DEF IInv

LEMMA HaltStep ==
  ASSUME IInv, Halt
  PROVE  IInv'
<1> USE DEF Halt
<1>1. TypeOK'
  BY DEF IInv, TypeOK, excVars, timerVars, SysTickTypeOK, Phases
<1>2. RequestsServedAtOnce'
  BY DEF IInv, RequestsServedAtOnce
<1>3. StackInv'
  BY StackKept DEF IInv, excVars
<1>4. LoopState'
  BY DEF IInv, LoopState, FetchedPhases, DecodedPhases, AssignedPhases,
         excVars, timerVars
<1> QED BY <1>1, <1>2, <1>3, <1>4 DEF IInv

-----------------------------------------------------------------------------
(* What an instruction may do to the part of the state it shares with the  *)
(* rest of the loop: the PC keeps its parity and nothing that executes     *)
(* disturbs the timer before the first nextInstrAddr is known.             *)
LEMMA ExecuteEffects ==
  ASSUME IInv, Execute
  PROVE  /\ SysTickTypeOK'
         /\ pc' \in Int /\ pc' % 2 = 0
         /\ lr' \in Int /\ sp' \in Int
         /\ scratch' \in [Roles -> Origins]
         /\ phase' \in {"tick3", "undefined"}
         /\ \/ UNCHANGED exceptionPending
            \/ /\ exceptionPending' = exceptionPending \cup {SVCALL}
               /\ instr.op = "svc"
<1> USE DEF Advance, Executed
<1>0. /\ instr \in Instr /\ WellFormed(instr)
      /\ pc \in Int /\ pc % 2 = 0 /\ lr \in Int /\ sp \in Int
      /\ instr.arg \in Int
      /\ scratch \in [Roles -> Origins]
      /\ SysTickTypeOK
      /\ lastBL # Uninit => lastBL \in Int /\ lastBL % 2 = 0
  BY DEF IInv, TypeOK, LoopState, Instr
<1>1. CASE ExecuteStraight
  <2>1. scratch' \in [Roles -> Origins]
    BY <1>0, <1>1 DEF ExecuteStraight, Literal, Origins, Roles
  <2> QED BY <1>0, <1>1, <2>1 DEF ExecuteStraight, timerVars, SysTickTypeOK
<1>2. CASE ExecuteBranch
  BY <1>0, <1>2 DEF ExecuteBranch, timerVars, SysTickTypeOK, WellFormed,
                    Branches
<1>3. CASE ExecuteBL
  BY <1>0, <1>3 DEF ExecuteBL, timerVars, SysTickTypeOK
<1>4. CASE ExecuteSVC
  BY <1>0, <1>4 DEF ExecuteSVC, timerVars, SysTickTypeOK, Exceptions
<1>5. CASE ExecuteAddSubSP
  BY <1>0, <1>5 DEF ExecuteAddSubSP, timerVars, SysTickTypeOK
<1>6. CASE ExecutePUSH
  BY <1>0, <1>6 DEF ExecutePUSH, PushBase, timerVars, SysTickTypeOK
<1>7. CASE ExecutePOP
  BY <1>0, <1>7 DEF ExecutePOP, timerVars, SysTickTypeOK
<1>8. CASE ExecuteStore
  <2>1. UNCHANGED exceptionPending
    BY <1>8 DEF ExecuteStore, WriteCSR, WriteRVR, WriteCVR
  <2>2. SysTickTypeOK'
    <3> USE ReloadModulusAssumption DEF SysTickTypeOK
    <3>1. CASE WriteCSR(StoredBits)
      BY <1>0, <3>1 DEF WriteCSR, CsrBits
    <3>2. CASE instr.op = "strRVR" /\ WriteRVR(StoredValue)
      <4>1. scratch["value"] \in Origins
        BY <1>0 DEF Roles
      <4>2. StoredValue \in Nat
        BY <1>0, <3>2, <4>1 DEF StoredValue, WellFormed, Origins
      <4>3. StoredValue % ReloadModulus \in 0 .. ReloadModulus - 1
        BY <4>2
      <4> QED BY <1>0, <3>2, <4>3 DEF WriteRVR
    <3>3. CASE WriteCVR
      BY <1>0, <3>3 DEF WriteCVR
    <3>4. CASE UNCHANGED <<timerVars, exceptionPending>>
      BY <1>0, <3>4 DEF timerVars
    <3> QED BY <1>8, <3>1, <3>2, <3>3, <3>4 DEF ExecuteStore
  <2> QED BY <1>0, <1>8, <2>1, <2>2 DEF ExecuteStore
<1>9. CASE ExecuteUndefined
  BY <1>0, <1>9 DEF ExecuteUndefined, timerVars, SysTickTypeOK
<1> QED BY <1>1, <1>2, <1>3, <1>4, <1>5, <1>6, <1>7, <1>8, <1>9 DEF Execute

LEMMA ExecuteStep ==
  ASSUME IInv, Execute
  PROVE  IInv'
<1> USE ExecuteEffects
<1>1. TypeOK'
  BY DEF Execute, IInv, TypeOK, Phases
<1>2. RequestsServedAtOnce'
  <2>1. SYSTICK \notin exceptionPending
    BY DEF Execute, IInv, RequestsServedAtOnce
  <2> QED BY <2>1 DEF RequestsServedAtOnce, SYSTICK, SVCALL
<1>3. StackInv'
  BY StackKept DEF Execute, IInv
<1>4. LoopState'
  <2>1. nextInstrAddr # Uninit
    BY UninitAssumption
    DEF Execute, IInv, TypeOK, LoopState, FetchedPhases, DecodedPhases,
        AssignedPhases
  <2> QED
    BY <2>1
    DEF Execute, IInv, LoopState, FetchedPhases, DecodedPhases,
        AssignedPhases, EnteredThisIteration, CodeAt, image
<1> QED BY <1>1, <1>2, <1>3, <1>4 DEF IInv

-----------------------------------------------------------------------------
(* An entry adds its frame to those that are stacked. *)
LEMMA EntryAppends ==
  ASSUME TypeOK, NEW n \in Exceptions, NEW there, TakeException(n, there)
  PROVE  /\ Frame(n) \in FrameRecord
         /\ frames' = Append(frames, Frame(n))
         /\ frames' \in Seq(FrameRecord)
         /\ Len(frames') = Len(frames) + 1
         /\ \A k \in 1 .. Len(frames) : frames'[k] = frames[k]
         /\ frames'[Len(frames) + 1] = Frame(n)
         /\ takenAt' \in Seq(0 .. MaxIter)
         /\ Len(takenAt') = Len(takenAt) + 1
         /\ \A k \in 1 .. Len(takenAt) : takenAt'[k] = takenAt[k]
         /\ takenAt'[Len(takenAt) + 1] = i
<1>1. Frame(n) \in FrameRecord
  <2>1. ActiveSP \in Int
    BY DEF TypeOK, ActiveSP
  <2>2. FrameBase \in Int /\ (ActiveSP \div 4) % 2 \in {0, 1}
    BY <2>1, Align8Facts DEF FrameBase, FrameSize, Align8
  <2>3. ReturnAddress \in Int \cup {Uninit}
    BY Align2Facts DEF TypeOK, ReturnAddress
  <2> QED BY <2>2, <2>3 DEF TypeOK, Frame, FrameRecord
<1>2. frames' = Append(frames, Frame(n)) /\ takenAt' = Append(takenAt, i)
  BY DEF TakeException, exceptionEntry, pushStack
<1>3. frames \in Seq(FrameRecord)
  BY DEF TypeOK
<1>4. takenAt \in Seq(0 .. MaxIter) /\ i \in 0 .. MaxIter
  BY DEF TypeOK
<1> HIDE DEF Frame, FrameRecord
<1> QED BY <1>1, <1>2, <1>3, <1>4

(* The frame is stacked right below the one before it, however the stack   *)
(* pointer was aligned at first.                                           *)
LEMMA EntryFrameBase ==
  ASSUME TypeOK, MainStackAccounting
  PROVE  /\ ~ProcessStack
         /\ FrameBase = Align8(image.sp) - FrameSize * (Len(frames) + 1)
<1>1. ~ProcessStack /\ ActiveSP = msp
  BY DEF MainStackAccounting, ProcessStack, ActiveSP
<1>2. image.sp \in Int /\ Len(frames) \in Nat
  BY ImageTypes DEF TypeOK
<1>3. Align8(image.sp) \in Int /\ Align8(image.sp - 32) = Align8(image.sp) - 32
  BY <1>2, Align8Facts
<1>4. CASE frames = <<>>
  <2>1. Len(frames) = 0 /\ FrameBase = Align8(image.sp - 32)
    BY <1>1, <1>4 DEF MainStackAccounting, FrameBase, FrameSize
  <2> QED BY <1>1, <1>3, <2>1 DEF FrameSize
<1>5. CASE frames # <<>>
  <2>1. msp = Align8(image.sp) - 32 * Len(frames)
    BY <1>5 DEF MainStackAccounting, FrameSize
  <2>2. FrameBase = (Align8(image.sp) - 32 * Len(frames)) - 32
    BY <1>1, <1>2, <2>1, Align8Again DEF FrameBase, FrameSize
  <2> QED BY <1>1, <1>2, <1>3, <2>2 DEF FrameSize
<1> QED BY <1>4, <1>5

(* The four checks for exceptions: which one each makes, and where. *)
CheckOf(n, here, there) ==
  \/ n = SYSTICK /\ here = "async1" /\ there = "decode"
  \/ n = SYSTICK /\ here = "async2" /\ there = "execute"
  \/ n = SYSTICK /\ here = "async3" /\ there = "fetch"
  \/ n = SVCALL /\ here = "sync" /\ there = "async3"

LEMMA EntryStack ==
  ASSUME IInv, NEW n, NEW here, NEW there, CheckOf(n, here, there),
         HandleException(n, here, there), TakeException(n, there)
  PROVE  StackInv'
<1>0. /\ n \in Exceptions /\ n # 0
      /\ firmware' = firmware /\ Len(frames) \in Nat
      /\ Len(takenAt) = Len(frames)
  BY DEF CheckOf, Exceptions, SYSTICK, SVCALL, HandleException, IInv, TypeOK,
         StackInv, MainStackAccounting
<1>1. /\ frames' \in Seq(FrameRecord)
      /\ Len(frames') = Len(frames) + 1
      /\ \A k \in 1 .. Len(frames) : frames'[k] = frames[k]
      /\ frames'[Len(frames) + 1] = Frame(n)
      /\ Len(takenAt') = Len(takenAt) + 1
  BY <1>0, EntryAppends DEF IInv
<1>2. frames' # <<>>
  BY <1>0, <1>1
<1>3. ExceptionChain'
  <2>1. currentMode' = "HANDLER" /\ ipsr' = n
        /\ exceptionActive' = exceptionActive \cup {n}
    BY DEF TakeException, exceptionEntry, exceptionTaken
  <2>2. frames'[Len(frames')].exc = n
    BY <1>1 DEF Frame
  <2>3. exceptionActive' = {frames'[k].exc : k \in 1 .. Len(frames')}
    <3>1. exceptionActive = {frames[k].exc : k \in 1 .. Len(frames)}
      BY DEF IInv, StackInv, ExceptionChain
    <3>2. 1 .. Len(frames') = (1 .. Len(frames)) \cup {Len(frames')}
      BY <1>0, <1>1
    <3> QED BY <1>0, <1>1, <2>1, <2>2, <3>1, <3>2
  <2>4. ASSUME NEW k \in 1 .. Len(frames')
        PROVE  frames'[k].ipsr = IF k = 1 THEN 0 ELSE frames'[k - 1].exc
    <3>1. CASE k \in 1 .. Len(frames)
      BY <1>0, <1>1, <3>1 DEF IInv, StackInv, ExceptionChain
    <3>2. CASE k = Len(frames) + 1
      <4>1. frames'[k].ipsr = ipsr
        BY <1>1, <3>2 DEF Frame
      <4>2. CASE frames = <<>>
        BY <1>0, <3>2, <4>1, <4>2 DEF IInv, StackInv, ExceptionChain
      <4>3. CASE frames # <<>>
        <5>1. Len(frames) >= 1 /\ k # 1 /\ k - 1 = Len(frames)
          BY <1>0, <3>2, <4>3 DEF IInv, TypeOK
        <5>2. ipsr = frames[Len(frames)].exc
          BY <4>3 DEF IInv, StackInv, ExceptionChain
        <5> QED BY <1>1, <4>1, <5>1, <5>2
      <4> QED BY <4>2, <4>3
    <3> QED BY <1>0, <1>1, <3>1, <3>2
  <2> QED BY <1>2, <2>1, <2>2, <2>3, <2>4 DEF ExceptionChain
<1>4. MainStackAccounting'
  <2>1. ~ProcessStack
        /\ FrameBase = Align8(image.sp) - FrameSize * (Len(frames) + 1)
    BY EntryFrameBase DEF IInv, StackInv
  <2>2. /\ FrameFits /\ SPSEL' = 0 /\ psp' = 0 /\ msp' = FrameBase
    BY <2>1 DEF TakeException, exceptionEntry, pushStack, exceptionTaken,
                IInv, StackInv, MainStackAccounting
  <2>3. image' = image
    BY <1>0 DEF image
  <2>4. ASSUME NEW k \in 1 .. Len(frames')
        PROVE  /\ frames'[k].base = Align8(image.sp) - FrameSize * k
               /\ InRam(frames'[k].base, FrameSize)
    <3>1. CASE k \in 1 .. Len(frames)
      BY <1>1, <3>1 DEF IInv, StackInv, MainStackAccounting
    <3>2. CASE k = Len(frames) + 1
      BY <1>1, <2>1, <2>2, <3>2 DEF Frame, FrameFits
    <3> QED BY <1>0, <1>1, <3>1, <3>2
  <2> QED BY <1>0, <1>1, <1>2, <2>1, <2>2, <2>3, <2>4
          DEF MainStackAccounting, InRam
<1>5. /\ ReturnAddress \in 2 .. FlashSize /\ ReturnAddress % 2 = 0
      /\ ReturnAddress = nextInstrAddr
  <2>1. n \in exceptionPending
    BY DEF TakeException
  <2>2. nextInstrAddr # Uninit
    BY <2>1 DEF IInv, LoopState
  <2>3. nextInstrAddr \in 2 .. FlashSize /\ nextInstrAddr % 2 = 0
    BY <2>2 DEF IInv, LoopState
  <2>4. Align2(nextInstrAddr) = nextInstrAddr
    BY <2>3, Align2Facts
  <2> QED BY <2>2, <2>3, <2>4 DEF ReturnAddress
<1>6. ReturnAddressIsValid'
  BY <1>0, <1>1, <1>5
  DEF ReturnAddressIsValid, Frame, IInv, StackInv
<1>7. SvcReturnsPastSvc'
  <2>1. n = SVCALL => CodeAt(ReturnAddress - 2).op = "svc"
    <3> SUFFICES ASSUME n = SVCALL
                 PROVE  CodeAt(ReturnAddress - 2).op = "svc"
      OBVIOUS
    <3>1. instr.op = "svc" /\ phase = "sync"
      BY DEF TakeException, HandleException, CheckOf, IInv, LoopState, SVCALL,
             SYSTICK
    <3>2. /\ currentInstrAddr \in 0 .. FlashSize - 4
          /\ instr = CodeAt(currentInstrAddr)
          /\ nextInstrAddr = currentInstrAddr + 2
      BY <3>1 DEF IInv, LoopState, FetchedPhases, DecodedPhases,
                  AssignedPhases
    <3> QED BY <1>5, <3>1, <3>2, SizesAssumption
  <2>2. \A a : CodeAt(a)' = CodeAt(a)
    BY <1>0 DEF CodeAt, image
  <2>3. ASSUME NEW k \in 1 .. Len(frames'), frames'[k].exc = SVCALL
        PROVE  CodeAt(frames'[k].pc - 2).op = "svc"
    <3>1. CASE k \in 1 .. Len(frames)
      BY <1>1, <2>3, <3>1 DEF IInv, StackInv, SvcReturnsPastSvc
    <3>2. CASE k = Len(frames) + 1
      BY <1>1, <2>1, <2>3, <3>2 DEF Frame
    <3> QED BY <1>0, <1>1, <3>1, <3>2
  <2> QED BY <1>0, <2>3 DEF SvcReturnsPastSvc, CodeAt, image
<1> QED BY <1>3, <1>4, <1>6, <1>7 DEF StackInv

(* What an entry leaves in the processor. *)
LEMMA EntryEffects ==
  ASSUME TypeOK, NEW n \in Exceptions, NEW there, TakeException(n, there)
  PROVE  /\ pc' \in Int /\ pc' % 2 = 0
         /\ lr' \in Int /\ msp' \in Int /\ psp' \in Int
         /\ scratch' \in [Roles -> Origins]
         /\ SPSEL' = 0 /\ currentMode' = "HANDLER" /\ ipsr' = n
         /\ exceptionActive' \subseteq Exceptions
<1>1. pushStack(n) /\ exceptionTaken(n, image.vector[n])
  BY DEF TakeException, exceptionEntry
<1>2. pc' \in Int /\ pc' % 2 = 0
  <2>1. image.vector[n] \in Int
    BY ImageTypes DEF TypeOK
  <2>2. pc' = Align2(image.vector[n])
    BY <1>1 DEF exceptionTaken
  <2> QED BY <2>1, <2>2, Align2Facts
<1>3. lr' \in Int
  BY <1>1 DEF pushStack, ExcReturn, EXC_RETURN_HANDLER, EXC_RETURN_MSP,
              EXC_RETURN_PSP
<1>4. msp' \in Int /\ psp' \in Int
  <2>1. msp \in Int /\ psp \in Int /\ ActiveSP \in Int
    BY DEF ActiveSP, TypeOK
  <2>2. FrameBase \in Int
    BY <2>1, Align8Facts DEF FrameBase, FrameSize
  <2>3. \/ psp' = FrameBase /\ msp' = msp
        \/ msp' = FrameBase /\ psp' = psp
    BY <1>1 DEF pushStack, ProcessStack
  <2> QED BY <2>1, <2>2, <2>3
<1>5. /\ scratch' \in [Roles -> Origins]
      /\ SPSEL' = 0 /\ currentMode' = "HANDLER" /\ ipsr' = n
      /\ exceptionActive' \subseteq Exceptions
  BY <1>1 DEF exceptionTaken, Origins, TypeOK
<1> QED BY <1>2, <1>3, <1>4, <1>5

(* What a check for exceptions does to the loop, whatever it finds. *)
LEMMA CheckEffects ==
  ASSUME IInv, NEW n, NEW here, NEW there, CheckOf(n, here, there),
         HandleException(n, here, there)
  PROVE  /\ n \in Exceptions
         /\ phase = here /\ phase' \in {there, "undefined"}
         /\ phase' \in Phases
         /\ i < MaxIter /\ i' \in 0 .. MaxIter
         /\ i' = IF phase' = "fetch" THEN i + 1 ELSE i
         /\ exceptionPending' \subseteq exceptionPending
         /\ phase' # "undefined" => n \notin exceptionPending'
         /\ UNCHANGED <<firmware, instr, decodedInstructionSize, lastBL, sp,
                        currentInstrAddr, nextInstrAddr, timerVars>>
<1>1. /\ n \in Exceptions /\ here \in FetchedPhases
      /\ {there, "undefined"} \subseteq Phases
  BY DEF CheckOf, Exceptions, FetchedPhases, Phases
<1>2. /\ phase = here /\ phase' \in {there, "undefined"}
      /\ i' = IF phase' = "fetch" THEN i + 1 ELSE i
      /\ exceptionPending' \subseteq exceptionPending
      /\ phase' # "undefined" => n \notin exceptionPending'
      /\ UNCHANGED <<firmware, instr, decodedInstructionSize, lastBL, sp,
                     currentInstrAddr, nextInstrAddr, timerVars>>
  BY DEF HandleException, TakeException, NothingPending, StackingOverrun
<1>3. i \in 0 .. MaxIter /\ i < MaxIter
  BY <1>1, <1>2 DEF IInv, TypeOK, LoopState
<1> QED BY <1>1, <1>2, <1>3, SizesAssumption

LEMMA CheckRequests ==
  ASSUME IInv, NEW n, NEW here, NEW there, CheckOf(n, here, there),
         HandleException(n, here, there)
  PROVE  RequestsServedAtOnce'
  BY CheckEffects
  DEF IInv, RequestsServedAtOnce, CheckOf, SYSTICK, SVCALL

LEMMA EntryStep ==
  ASSUME IInv, NEW n, NEW here, NEW there, CheckOf(n, here, there),
         HandleException(n, here, there), TakeException(n, there)
  PROVE  IInv'
<1>0. phase' = there /\ n \in exceptionPending
  BY DEF TakeException
<1>1. /\ frames' \in Seq(FrameRecord)
      /\ takenAt' \in Seq(0 .. MaxIter)
      /\ Len(takenAt) \in Nat
      /\ Len(takenAt') = Len(takenAt) + 1
      /\ \A k \in 1 .. Len(takenAt) : takenAt'[k] = takenAt[k]
      /\ takenAt'[Len(takenAt) + 1] = i
  BY CheckEffects, EntryAppends DEF IInv, TypeOK
<1>2. TypeOK'
  <2>1. SysTickTypeOK'
    BY CheckEffects DEF IInv, TypeOK, SysTickTypeOK, timerVars
  <2> QED BY <1>1, <2>1, CheckEffects, EntryEffects DEF IInv, TypeOK
<1>3. RequestsServedAtOnce'
  BY CheckRequests
<1>4. StackInv'
  BY EntryStack
<1>5. LoopState'
  <2>1. pc' % 2 = 0
    BY CheckEffects, EntryEffects DEF IInv
  <2>2. takenAt' # <<>> /\ takenAt'[Len(takenAt')] = i
    BY <1>1
  <2>3. phase' # "fetch" => EnteredThisIteration'
    BY <2>2, CheckEffects DEF EnteredThisIteration
  <2>4. ASSUME NEW k \in 1 .. Len(takenAt')
        PROVE  takenAt'[k] <= i' /\ (phase' = "fetch" => takenAt'[k] < i')
    <3>1. i \in Nat /\ i' = IF phase' = "fetch" THEN i + 1 ELSE i
      BY CheckEffects DEF IInv, TypeOK
    <3>2. CASE k \in 1 .. Len(takenAt)
      <4>1. takenAt[k] \in 0 .. MaxIter
        <5>1. takenAt \in Seq(0 .. MaxIter)
          BY DEF IInv, TypeOK
        <5> QED BY <3>2, <5>1, ElementOfSeq
      <4>2. takenAt'[k] = takenAt[k] /\ takenAt[k] <= i
        BY <1>1, <3>2 DEF IInv, LoopState
      <4> QED BY <3>1, <4>1, <4>2, SizesAssumption
    <3>3. CASE k = Len(takenAt) + 1
      BY <1>1, <3>1, <3>3
    <3> QED BY <1>1, <3>2, <3>3
  <2>5. nextInstrAddr # Uninit
    BY <1>0 DEF IInv, LoopState
  <2>6. /\ phase' \in FetchedPhases => phase \in FetchedPhases
        /\ phase' \in DecodedPhases => phase \in DecodedPhases
        /\ phase' \in AssignedPhases => phase \in AssignedPhases
    BY CheckEffects
    DEF CheckOf, FetchedPhases, DecodedPhases, AssignedPhases
  <2>7. SVCALL \in exceptionPending' => instr'.op = "svc"
    BY CheckEffects DEF IInv, LoopState
  <2>8. phase' \in FetchedPhases =>
          /\ i' < MaxIter
          /\ currentInstrAddr' \in 0 .. FlashSize - 4
          /\ currentInstrAddr' % 2 = 0
          /\ instr' = CodeAt(currentInstrAddr)'
    BY <2>6, CheckEffects
    DEF IInv, LoopState, FetchedPhases, CodeAt, image
  <2> QED
    BY <2>1, <2>3, <2>4, <2>5, <2>6, <2>7, <2>8, CheckEffects
    DEF IInv, LoopState, FetchedPhases
<1> QED BY <1>2, <1>3, <1>4, <1>5 DEF IInv

LEMMA NothingStep ==
  ASSUME IInv, NEW n, NEW here, NEW there, CheckOf(n, here, there),
         HandleException(n, here, there),
         NothingPending(n, there) \/ StackingOverrun(n)
  PROVE  IInv'
<1>0. UNCHANGED <<excVars, exceptionPending, takenAt>>
  BY DEF NothingPending, StackingOverrun
<1>1. TypeOK'
  BY <1>0, CheckEffects DEF IInv, TypeOK, SysTickTypeOK, excVars, timerVars
<1>2. RequestsServedAtOnce'
  BY CheckRequests
<1>3. StackInv'
  BY <1>0, StackKept, CheckEffects DEF IInv, excVars
<1>4. LoopState'
  <2>1. /\ phase' \in FetchedPhases => phase \in FetchedPhases
        /\ phase' \in DecodedPhases => phase \in DecodedPhases
        /\ phase' \in AssignedPhases => phase \in AssignedPhases
        /\ phase' \in FetchedPhases \ {"tick3", "sync", "async3"}
             => phase \in FetchedPhases \ {"tick3", "sync", "async3"}
        /\ phase' # "fetch" => i' = i
    BY CheckEffects
    DEF CheckOf, FetchedPhases, DecodedPhases, AssignedPhases
  <2>2. ASSUME NEW k \in 1 .. Len(takenAt)
        PROVE  takenAt[k] <= i' /\ (phase' = "fetch" => takenAt[k] < i')
    <3>1. takenAt[k] \in 0 .. MaxIter /\ i \in 0 .. MaxIter
      <4>1. takenAt \in Seq(0 .. MaxIter) /\ i \in 0 .. MaxIter
        BY DEF IInv, TypeOK
      <4> QED BY <4>1, ElementOfSeq
    <3>2. takenAt[k] <= i
      BY DEF IInv, LoopState
    <3> QED BY <3>1, <3>2, CheckEffects, SizesAssumption
  <2>3. /\ pc' = pc /\ takenAt' = takenAt
        /\ exceptionPending' = exceptionPending /\ SYST_CSR' = SYST_CSR
    BY <1>0, CheckEffects DEF excVars, timerVars
  <2>4. phase' \in FetchedPhases \ {"tick3", "sync", "async3"}
          /\ ~EnteredThisIteration' => pc' = currentInstrAddr'
    BY <2>1, <2>3, CheckEffects
    DEF IInv, LoopState, EnteredThisIteration, FetchedPhases
  <2>5. phase' \in FetchedPhases =>
          /\ i' < MaxIter
          /\ currentInstrAddr' \in 0 .. FlashSize - 4
          /\ currentInstrAddr' % 2 = 0
          /\ instr' = CodeAt(currentInstrAddr)'
    BY <2>1, CheckEffects
    DEF IInv, LoopState, FetchedPhases, CodeAt, image
  <2> QED
    BY <2>1, <2>2, <2>3, <2>4, <2>5, CheckEffects DEF IInv, LoopState
<1> QED BY <1>1, <1>2, <1>3, <1>4 DEF IInv

-----------------------------------------------------------------------------
LEMMA NextInvariant == IInv /\ [Next]_vars => IInv'
<1> SUFFICES ASSUME IInv, [Next]_vars
             PROVE  IInv'
  OBVIOUS
<1>1. CASE Fetch
  BY <1>1, FetchStep
<1>2. CASE TickPhase
  BY <1>2, TickStep
<1>3. CASE HandleAsync \/ HandleSync
  <2>1. PICK n, here, there :
          CheckOf(n, here, there) /\ HandleException(n, here, there)
    BY <1>3 DEF HandleAsync, HandleSync, CheckOf
  <2>2. CASE TakeException(n, there)
    BY <2>1, <2>2, EntryStep
  <2>3. CASE NothingPending(n, there) \/ StackingOverrun(n)
    BY <2>1, <2>3, NothingStep
  <2> QED BY <2>1, <2>2, <2>3 DEF HandleException
<1>4. CASE Decode
  BY <1>4, DecodeStep
<1>5. CASE Execute
  BY <1>5, ExecuteStep
<1>6. CASE Halt
  BY <1>6, HaltStep
<1>7. CASE UNCHANGED vars
  <2>1. StackInv'
    BY <1>7, StackKept DEF vars, loopVars, excVars, IInv
  <2> QED
    BY <1>7, <2>1
    DEF vars, loopVars, excVars, timerVars, IInv, TypeOK, SysTickTypeOK,
        RequestsServedAtOnce, LoopState, CodeAt, image, EnteredThisIteration
<1> QED BY <1>1, <1>2, <1>3, <1>4, <1>5, <1>6, <1>7 DEF Next

LEMMA Invariant == Spec => []IInv
  BY InitInvariant, NextInvariant, PTL DEF Spec

-----------------------------------------------------------------------------
(* OneTickEntryPerIteration is no consequence of IInv: it takes the value  *)
(* the counter has when the SysTick has just preempted.  An iteration ticks *)
(* three times; the entry after one of them leaves a counter that the ones *)
(* to come do not exhaust.                                                 *)
Preempted ==
  /\ frames # <<>> /\ frames[Len(frames)].exc = SYSTICK
  /\ EnteredThisIteration
  /\ SYST_RVR >= 2 /\ instr.op \notin {"strCVR", "strRVR"}

RequestMeansReload ==
  (SYSTICK \in exceptionPending /\ phase # "undefined") => SYST_CVR = SYST_RVR

TicksLeft ==
  (Preempted /\ phase # "undefined") =>
    /\ SYSTICK \notin exceptionPending
    /\ phase \in {"decode", "tick2", "async2", "execute", "tick3", "sync", "async3"}
    /\ phase \in {"decode", "tick2"} => SYST_CVR >= 2
    /\ phase \in {"async2", "execute", "tick3"} => SYST_CVR >= 1

TickInv == RequestMeansReload /\ TicksLeft

(* The newest entry, looked at before and after a step that adds none.     *)
LEMMA PreemptedKept ==
  ASSUME IInv,
         UNCHANGED <<i, instr, frames, takenAt, SYST_RVR>>
  PROVE  Preempted' <=> Preempted
  BY DEF Preempted, EnteredThisIteration

(* At the start of an iteration nothing has been entered in it.            *)
LEMMA FreshIteration == IInv /\ phase = "fetch" => ~EnteredThisIteration
<1> SUFFICES ASSUME IInv, phase = "fetch"
             PROVE  ~EnteredThisIteration
  OBVIOUS
<1>1. takenAt \in Seq(0 .. MaxIter) /\ i \in 0 .. MaxIter
  BY DEF IInv, TypeOK
<1>2. ASSUME takenAt # <<>>
      PROVE  takenAt[Len(takenAt)] < i
  <2>1. Len(takenAt) \in 1 .. Len(takenAt)
    BY <1>1, <1>2
  <2> QED
    BY <2>1 DEF IInv, LoopState
<1> QED
  BY <1>1, <1>2, ElementOfSeq DEF EnteredThisIteration

LEMMA TickInvInit == Init => TickInv
  BY DEF Init, SysTickInit, TickInv, RequestMeansReload, TicksLeft, Preempted

LEMMA TickInvTick ==
  ASSUME IInv, TickInv, TickPhase
  PROVE  TickInv'
<1>1. PICK here \in {"tick1", "tick2", "tick3"},
           there \in {"async1", "async2", "sync"} :
        /\ TickAt(here, there)
        /\ here = "tick1" <=> there = "async1"
        /\ here = "tick2" <=> there = "async2"
  BY DEF TickPhase
<1>2. /\ phase = here /\ phase' = there /\ Tick
      /\ UNCHANGED <<i, instr, frames, takenAt>>
  BY <1>1 DEF TickAt, excVars
<1>3. /\ SYST_CVR \in Nat /\ SYST_RVR \in Nat
      /\ SYSTICK \notin exceptionPending
  BY <1>2, ReloadModulusAssumption
  DEF IInv, TypeOK, SysTickTypeOK, RequestsServedAtOnce
<1>4. SYST_RVR' = SYST_RVR
  BY <1>2 DEF Tick, TickDisabled, TickReload, TickCount, timerVars
<1>5. RequestMeansReload'
  BY <1>2, <1>3
  DEF Tick, TickDisabled, TickReload, TickCount, timerVars, RequestMeansReload
<1>6. TicksLeft'
  <2> SUFFICES ASSUME Preempted'
               PROVE  /\ SYSTICK \notin exceptionPending'
                      /\ there \in {"async2", "sync"}
                      /\ there = "async2" => SYST_CVR' >= 1
    BY <1>2 DEF TicksLeft
  <2>1. Preempted
    BY <1>2, <1>4, PreemptedKept
  <2>2. /\ here \in {"tick2", "tick3"} /\ there \in {"async2", "sync"}
        /\ here = "tick2" => SYST_CVR >= 2
        /\ SYST_CVR >= 1
    BY <1>1, <1>2, <1>3, <2>1 DEF TickInv, TicksLeft
  <2>3. TickDisabled \/ TickCount
    BY <1>2, <2>2 DEF Tick, TickReload
  <2> QED
    BY <1>1, <1>3, <2>2, <2>3 DEF TickDisabled, TickCount, timerVars
<1> QED
  BY <1>5, <1>6 DEF TickInv

(* Only stores to the counter and the reload value disturb the count.      *)
LEMMA TickInvExecute ==
  ASSUME IInv, TickInv, Execute
  PROVE  TickInv'
<1>1. /\ phase = "execute" /\ phase' \in {"tick3", "undefined"}
      /\ UNCHANGED <<i, instr, frames, takenAt>>
  BY ExecuteEffects DEF Execute
<1>2. SYSTICK \notin exceptionPending /\ SYSTICK \notin exceptionPending'
  BY <1>1, ExecuteEffects DEF IInv, RequestsServedAtOnce, SYSTICK, SVCALL
<1>3. instr.op \notin {"strCVR", "strRVR"} => UNCHANGED <<SYST_CVR, SYST_RVR>>
  <2>1. CASE ExecuteStore
    BY <2>1 DEF ExecuteStore, WriteCSR, timerVars
  <2>2. CASE ~ExecuteStore
    BY <2>2
    DEF Execute, ExecuteStraight, ExecuteBranch, ExecuteBL, ExecuteSVC,
        ExecuteAddSubSP, ExecutePUSH, ExecutePOP, ExecuteUndefined, timerVars
  <2> QED BY <2>1, <2>2
<1>4. Preempted' => Preempted /\ SYST_CVR' = SYST_CVR
  BY <1>1, <1>3 DEF Preempted, EnteredThisIteration
<1> QED
  BY <1>1, <1>2, <1>4 DEF TickInv, RequestMeansReload, TicksLeft

LEMMA TickInvCheck ==
  ASSUME IInv, TickInv, IInv', NEW n, NEW here, NEW there,
         CheckOf(n, here, there), HandleException(n, here, there)
  PROVE  TickInv'
<1>1. /\ n \in Exceptions
      /\ phase = here /\ phase' \in {there, "undefined"}
      /\ i' = IF phase' = "fetch" THEN i + 1 ELSE i
      /\ exceptionPending' \subseteq exceptionPending
      /\ phase' # "undefined" => n \notin exceptionPending'
      /\ UNCHANGED <<instr, timerVars>>
  BY CheckEffects
<1>2. phase # "undefined"
  BY <1>1 DEF CheckOf
<1>3. RequestMeansReload'
  BY <1>1, <1>2 DEF TickInv, RequestMeansReload, timerVars
<1>4. TicksLeft'
  <2> SUFFICES ASSUME Preempted', phase' # "undefined"
               PROVE  TicksLeft'
    BY DEF TicksLeft
  <2>0. (IInv /\ phase = "fetch" => ~EnteredThisIteration)'
    BY FreshIteration, PTL
  <2>1. phase' = there /\ phase' # "fetch" /\ i' = i
    BY <1>1, <2>0 DEF Preempted
  <2>2. CASE TakeException(n, there)
    <3>1. n = SYSTICK
      <4>1. TypeOK
        BY DEF IInv
      <4>2. frames'[Len(frames')] = Frame(n)
        BY <1>1, <2>2, <4>1, EntryAppends
      <4> QED
        BY <4>2 DEF Preempted, Frame
    <3>2. SYST_CVR = SYST_RVR /\ SYST_RVR >= 2 /\ UNCHANGED timerVars
      BY <1>1, <1>2, <2>2, <3>1
      DEF TakeException, TickInv, RequestMeansReload, Preempted, timerVars
    <3>3. there \in {"decode", "execute"}
      BY <2>1, <3>1 DEF CheckOf, SYSTICK, SVCALL
    <3> QED
      BY <1>1, <2>1, <3>1, <3>2, <3>3, ReloadModulusAssumption
      DEF TicksLeft, timerVars, IInv, TypeOK, SysTickTypeOK
  <2>3. CASE ~TakeException(n, there)
    <3>1. UNCHANGED <<frames, takenAt>>
      BY <2>3
      DEF HandleException, NothingPending, StackingOverrun, excVars
    <3>2. Preempted
      BY <1>1, <2>1, <3>1, PreemptedKept DEF timerVars
    <3>3. here \in {"async2", "sync"} /\ there \in {"execute", "async3"}
      BY <1>1, <1>2, <2>1, <3>2 DEF CheckOf, TickInv, TicksLeft
    <3> QED
      BY <1>1, <1>2, <2>1, <3>2, <3>3
      DEF CheckOf, TickInv, TicksLeft, timerVars
  <2> QED BY <2>2, <2>3
<1> QED
  BY <1>3, <1>4 DEF TickInv

LEMMA TickInvNext == IInv /\ TickInv /\ IInv' /\ [Next]_vars => TickInv'
<1> SUFFICES ASSUME IInv, TickInv, IInv', [Next]_vars
             PROVE  TickInv'
  OBVIOUS
<1>1. CASE Fetch
  <2>1. ~EnteredThisIteration /\ ~EnteredThisIteration'
    BY <1>1, FreshIteration DEF Fetch, EnteredThisIteration
  <2>2. SYSTICK \notin exceptionPending'
    BY <1>1 DEF Fetch, IInv, RequestsServedAtOnce
  <2> QED
    BY <2>1, <2>2 DEF TickInv, RequestMeansReload, TicksLeft, Preempted
<1>2. CASE TickPhase
  BY <1>2, TickInvTick
<1>3. CASE HandleAsync \/ HandleSync
  <2>1. PICK n, here, there :
          CheckOf(n, here, there) /\ HandleException(n, here, there)
    BY <1>3 DEF HandleAsync, HandleSync, CheckOf
  <2> QED BY <2>1, TickInvCheck
<1>4. CASE Decode
  <2>1. Preempted' <=> Preempted
    BY <1>4, PreemptedKept DEF Decode, excVars, timerVars
  <2> QED
    BY <1>4, <2>1
    DEF Decode, TickInv, RequestMeansReload, TicksLeft, timerVars
<1>5. CASE Execute
  BY <1>5, TickInvExecute
<1>6. CASE Halt
  <2>1. ~EnteredThisIteration /\ ~EnteredThisIteration'
    BY <1>6, FreshIteration DEF Halt, EnteredThisIteration
  <2> QED
    BY <1>6, <2>1
    DEF Halt, TickInv, RequestMeansReload, TicksLeft, Preempted, timerVars
<1>7. CASE UNCHANGED vars
  <2>1. Preempted' <=> Preempted
    BY <1>7, PreemptedKept DEF vars, loopVars, excVars, timerVars
  <2> QED
    BY <1>7, <2>1
    DEF vars, loopVars, timerVars, TickInv, RequestMeansReload, TicksLeft
<1> QED BY <1>1, <1>2, <1>3, <1>4, <1>5, <1>6, <1>7 DEF Next

(* A step that adds a frame is an exception entry. *)
LEMMA OnlyEntriesAddFrames ==
  ASSUME IInv, Next, Len(frames') > Len(frames)
  PROVE  \E n \in Exceptions :
           /\ n \in exceptionPending /\ phase # "undefined"
           /\ frames'[Len(frames')].exc = n
<1>1. frames' # frames
  <2>1. Len(frames) \in Nat
    BY DEF IInv, TypeOK
  <2> QED BY <2>1
<1>2. PICK n, here, there :
        CheckOf(n, here, there) /\ HandleException(n, here, there)
  BY <1>1
  DEF Next, Fetch, TickPhase, TickAt, Decode, Execute, Halt, HandleAsync,
      HandleSync, CheckOf, excVars
<1>3. TakeException(n, there)
  BY <1>1, <1>2 DEF HandleException, NothingPending, StackingOverrun, excVars
<1>4. n \in Exceptions /\ phase # "undefined"
  BY <1>2, CheckEffects DEF CheckOf
<1>5. frames'[Len(frames')] = Frame(n)
  <2>1. TypeOK
    BY DEF IInv
  <2> QED BY <1>3, <1>4, <2>1, EntryAppends
<1> QED
  BY <1>3, <1>4, <1>5 DEF TakeException, Frame

-----------------------------------------------------------------------------
(* Every member of the processor holds a value of its type, whatever the   *)
(* firmware does up to the first undefined access.                         *)
THEOREM TypeCorrect == Spec => []TypeOK
  BY Invariant, PTL DEF IInv

(* No request of the SysTick or of an SVC outlives the iteration that      *)
(* raised it, and none merges into another (startCpu's order of calls).    *)
THEOREM NoRequestLost == Spec => []RequestsServedAtOnce
  BY Invariant, PTL DEF IInv

(* Mode, exception number, active bits and stacked exception numbers agree *)
(* at every nesting depth (pushStack and exceptionTaken).                  *)
THEOREM ChainConsistent == Spec => []ExceptionChain
  BY Invariant, PTL DEF IInv, StackInv

(* The exception frames fill RAM downwards from the aligned initial stack  *)
(* pointer, 32 bytes each, disjoint and inside RAM (pushStack).            *)
THEOREM StackAccounted == Spec => []MainStackAccounting
  BY Invariant, PTL DEF IInv, StackInv

(* No unassigned or odd return address is ever stacked, and none outside   *)
(* flash (returnAddress against the assignment in startCpu).               *)
THEOREM ReturnAddressesValid == Spec => []ReturnAddressIsValid
  BY Invariant, PTL DEF IInv, StackInv

(* The frame of every SVC returns to the instruction that follows it.      *)
THEOREM SvcReturns == Spec => []SvcReturnsPastSvc
  BY Invariant, PTL DEF IInv, StackInv

(* Without an entry in the same iteration, execute() moves the PC of the   *)
(* instruction it executes.                                                *)
THEOREM PCMatches == Spec => []InstructionMatchesPC
<1>1. IInv => InstructionMatchesPC
  BY DEF IInv, LoopState, InstructionMatchesPC, FetchedPhases
<1> QED BY <1>1, Invariant, PTL

(* With a reload value of two or more, the SysTick preempts itself at most *)
(* once in an iteration whose instruction leaves the counter alone: none   *)
(* of the ticks that are left (startCpu calls tick three times) finds the  *)
(* counter at zero.                                                        *)
THEOREM OneTickEntry == Spec => OneTickEntryPerIteration
<1>1. IInv /\ TickInv /\ [Next]_vars
        => [(/\ Len(frames') > Len(frames)
             /\ frames'[Len(frames')].exc = SYSTICK
             /\ EnteredThisIteration
             /\ frames[Len(frames)].exc = SYSTICK)
              => SYST_RVR < 2 \/ instr.op \in {"strCVR", "strRVR"}]_vars
  <2> SUFFICES ASSUME IInv, TickInv, Next,
                      Len(frames') > Len(frames),
                      frames'[Len(frames')].exc = SYSTICK,
                      EnteredThisIteration,
                      frames[Len(frames)].exc = SYSTICK
               PROVE  SYST_RVR < 2 \/ instr.op \in {"strCVR", "strRVR"}
    OBVIOUS
  <2>1. SYSTICK \in exceptionPending /\ phase # "undefined"
    BY OnlyEntriesAddFrames
  <2>2. ~Preempted
    BY <2>1 DEF TickInv, TicksLeft
  <2>3. frames # <<>>
    BY DEF EnteredThisIteration, IInv, TypeOK, StackInv, MainStackAccounting
  <2>4. SYST_RVR \in Int
    BY DEF IInv, TypeOK, SysTickTypeOK
  <2> QED
    BY <2>2, <2>3, <2>4 DEF Preempted
<1>2. Spec => []TickInv
  BY Invariant, TickInvInit, TickInvNext, PTL DEF Spec
<1> QED
  BY <1>1, <1>2, Invariant, PTL DEF Spec, OneTickEntryPerIteration
=============================================================================
