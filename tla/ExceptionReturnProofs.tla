------------------------ MODULE ExceptionReturnProofs ------------------------
(* Theorems about ExceptionReturn, for every image and every stack top.    *)
EXTENDS ExceptionReturn, FiniteSetTheorems, SequenceTheorems, TLAPS

USE DEF Roles, Origins, EXC_RETURN_HANDLER, EXC_RETURN_MSP, EXC_RETURN_PSP

(* Moving an address down to a multiple of eight. *)
LEMMA Align8Bounds ==
  ASSUME NEW a \in Int
  PROVE  Align8(a) \in Int /\ Align8(a) <= a /\ a < Align8(a) + 8
         /\ Align8(a) % 8 = 0
BY DEF Align8

(* A return frees 32 bytes, and four more at most up to a multiple of      *)
(* eight plus four.                                                        *)
LEMMA FreedBounds ==
  ASSUME NEW a \in Int, a % 4 = 0, NEW bit \in {0, 1}, NEW top \in Int,
         top % 8 = 0, a <= top + 4
  PROVE  /\ Freed(a, bit) \in Int
         /\ Freed(a, bit) % 4 = 0
         /\ Freed(a, bit) <= top + 4 + FrameSize
<1> DEFINE b == a + 32
<1>1. b \in Int /\ b % 4 = 0 /\ b <= top + 36
  OBVIOUS
<1>2. CASE (b \div 4) % 2 = 0
  <2>1. b % 8 = 0
    BY <1>1, <1>2
  <2>2. b <= top + 32
    BY <1>1, <2>1
  <2> QED
    BY <1>1, <2>1, <2>2 DEF Freed, FrameSize
<1>3. CASE (b \div 4) % 2 # 0
  BY <1>1, <1>3 DEF Freed, FrameSize
<1> QED
  BY <1>2, <1>3

LEMMA MultipleOfEight ==
  ASSUME NEW a \in Int, a % 8 = 0
  PROVE  a % 4 = 0
OBVIOUS

LEMMA WithoutLast ==
  ASSUME NEW S, NEW s \in Seq(S), Len(s) >= 1
  PROVE  Len(SubSeq(s, 1, Len(s) - 1)) = Len(s) - 1
<1> DEFINE m == Len(s) - 1
<1>1. m \in Nat /\ \A k \in 1 .. m : s[k] \in S
  OBVIOUS
<1> HIDE DEF m
<1>2. Len(SubSeq(s, 1, m)) = IF 1 <= m THEN m - 1 + 1 ELSE 0
  BY <1>1, SubSeqProperties
<1>3. Len(SubSeq(s, 1, m)) = m
  BY <1>1, <1>2
<1> QED
  BY <1>3 DEF m

(* Sets of exceptions are finite, and their sizes move by at most one. *)
LEMMA ActiveCount ==
  ASSUME NEW S, S \subseteq Exceptions, NEW n \in Exceptions
  PROVE  /\ IsFiniteSet(S) /\ Cardinality(S) \in Nat
         /\ Cardinality(S \cup {n}) \in Nat
         /\ Cardinality(S \cup {n}) <= Cardinality(S) + 1
         /\ n \in S => /\ Cardinality(S \ {n}) = Cardinality(S) - 1
                       /\ Cardinality(S) >= 1
         /\ Cardinality(S) = 1 => (n \in S => S = {n})
         /\ Cardinality(S) # 1 => (n \in S => S # {n})
<1>1. IsFiniteSet({11})
  BY FS_Singleton
<1>2. IsFiniteSet({11} \cup {15})
  BY <1>1, FS_AddElement
<1>3. IsFiniteSet(Exceptions)
  <2>1. Exceptions = {11} \cup {15}
    BY DEF Exceptions
  <2> QED
    BY <1>2, <2>1
<1>4. IsFiniteSet(S)
  BY <1>3, FS_Subset
<1>5. Cardinality(S) \in Nat
  BY <1>4, FS_CardinalityType
<1>6. Cardinality(S \cup {n}) = IF n \in S THEN Cardinality(S)
                                ELSE Cardinality(S) + 1
  BY <1>4, FS_AddElement
<1>7. Cardinality(S \ {n}) = IF n \in S THEN Cardinality(S) - 1
                             ELSE Cardinality(S)
  BY <1>4, FS_RemoveElement
<1>8. n \in S => Cardinality(S) >= 1
  BY <1>4, <1>5, FS_EmptySet
<1>9. (Cardinality(S) = 1) <=> (\E x : S = {x})
  BY <1>4, FS_Singleton
<1> QED
  BY <1>4, <1>5, <1>6, <1>7, <1>8, <1>9

(* What a frame of flash holds. *)
LEMMA FlashFrameTypes ==
  ASSUME NEW frame \in FlashFrames
  PROVE  /\ frame.lr \in Int /\ frame.pc \in Nat /\ frame.align \in {0, 1}
         /\ frame.exception % 64 \in 0 .. 63
<1>1. frame \in [lr : Int, pc : Nat, exception : 0 .. 511, align : {0, 1}]
  BY FlashFramesAssumption
<1>2. frame.exception \in Int
  BY <1>1
<1> QED
  BY <1>1, <1>2

LEMMA FreedIsNat ==
  ASSUME NEW a \in Nat, NEW bit \in {0, 1}
  PROVE  Freed(a, bit) \in Nat
BY DEF Freed, FrameSize

-----------------------------------------------------------------------------
(* The frame an entry leaves, and where it leaves it. *)
LEMMA EntryTypes ==
  ASSUME TypeOK
  PROVE  /\ FrameBase \in Int
         /\ \A n \in Exceptions :
              Frame(n) \in [exc : Exceptions, base : Int, align : {0, 1},
                            scratch : [Roles -> Origins], lr : Int, pc : Int,
                            ipsr : 0 .. 63]
<1>1. ActiveSP \in Int
  BY DEF TypeOK, ActiveSP
<1>2. FrameBase \in Int
  BY <1>1, Align8Bounds DEF FrameBase, FrameSize
<1>3. ReturnAddress \in Int
  BY UninitAssumption DEF TypeOK, ReturnAddress, Align2
<1>4. (ActiveSP \div 4) % 2 \in {0, 1}
  BY <1>1
<1> QED
  BY <1>2, <1>3, <1>4 DEF Frame, TypeOK

(* Type correctness is inductive. *)
LEMMA TypeStep ==
  ASSUME TypeOK, [Next]_vars
  PROVE  TypeOK'
<1> DEFINE F == [exc : Exceptions, base : Int, align : {0, 1},
                 scratch : [Roles -> Origins], lr : Int, pc : Int,
                 ipsr : 0 .. 63]
<1>1. CASE Run
  <2>1. pc' \in Nat
    BY <1>1, CodeAssumption DEF Run
  <2>2. currentInstrAddr' \in Nat /\ nextInstrAddr' \in Nat
    <3>1. currentInstrAddr' = pc' /\ nextInstrAddr' = pc' + 2
      BY <1>1 DEF Run
    <3>2. \A a \in Nat : a + 2 \in Nat
      OBVIOUS
    <3> QED
      BY <2>1, <3>1, <3>2, Zenon
  <2>3. UNCHANGED <<lr, scratch, msp, psp, SPSEL, currentMode, ipsr,
                    exceptionActive, frames>>
    BY <1>1 DEF Run
  <2>4. /\ lr' \in Int /\ scratch' \in [Roles -> Origins]
        /\ msp' \in Int /\ psp' \in Nat /\ SPSEL' \in {0, 1}
        /\ currentMode' \in {"HANDLER", "THREAD"}
        /\ ipsr' \in 0 .. 63 /\ exceptionActive' \subseteq Exceptions
    BY <2>3 DEF TypeOK
  <2>5. frames' \in Seq(F)
    BY <2>3 DEF TypeOK
  <2> QED
    BY <2>1, <2>2, <2>4, <2>5 DEF TypeOK
<1>2. CASE Enter
  <2>1. PICK n \in Exceptions, handler \in Code : exceptionEntry(n, handler)
    BY <1>2 DEF Enter
  <2>2. pc' \in Nat
    <3>1. handler \in Nat
      BY CodeAssumption
    <3> QED
      BY <2>1, <3>1 DEF exceptionEntry, exceptionTaken, Align2
  <2>3. msp' \in Int /\ psp' \in Nat
    <3>1. FrameBase >= 0
      BY <2>1 DEF exceptionEntry, FrameFits, InRam
    <3>2. FrameBase \in Nat
      BY <3>1, EntryTypes
    <3> QED
      BY <2>1, <3>2 DEF exceptionEntry, pushStack, TypeOK
  <2>4. lr' \in Int
    BY <2>1 DEF exceptionEntry, pushStack, ExcReturn
  <2>5. frames' \in Seq(F)
    <3>1. Frame(n) \in F
      BY EntryTypes
    <3>2. frames \in Seq(F)
      BY DEF TypeOK
    <3>3. frames' = Append(frames, Frame(n))
      BY <2>1 DEF exceptionEntry, pushStack
    <3> HIDE DEF F
    <3> QED
      BY <3>1, <3>2, <3>3
  <2>6. /\ scratch' \in [Roles -> Origins] /\ SPSEL' \in {0, 1}
        /\ currentMode' \in {"HANDLER", "THREAD"}
        /\ ipsr' \in 0 .. 63 /\ exceptionActive' \subseteq Exceptions
    BY <2>1 DEF exceptionEntry, exceptionTaken, TypeOK, Exceptions
  <2> QED
    BY <1>2, <2>2, <2>3, <2>4, <2>5, <2>6 DEF TypeOK, Enter
<1>3. CASE Return
  <2>1. PICK exc \in ExcReturns : exceptionReturn(exc)
    BY <1>3 DEF Return
  <2>2. PICK frame \in FlashFrames : PopStack(exc, frame)
    BY <2>1 DEF exceptionReturn
  <2>3. /\ pc' \in Nat /\ ipsr' \in 0 .. 63
        /\ lr' \in Int /\ scratch' \in [Roles -> Origins]
    BY <2>2, FlashFrameTypes DEF PopStack, Restore, TypeOK
  <2>4. msp' \in Int /\ psp' \in Nat
    <3>1. Freed(msp, frame.align) \in Int
      BY FlashFrameTypes DEF Freed, FrameSize, TypeOK
    <3>2. Freed(psp, frame.align) \in Nat
      BY FlashFrameTypes, FreedIsNat DEF TypeOK
    <3> QED
      BY <2>2, <3>1, <3>2 DEF PopStack, Restore, TypeOK
  <2>5. frames' \in Seq(F)
    <3>1. frames \in Seq(F)
      BY DEF TypeOK
    <3>2. frames' = SubSeq(frames, 1, Len(frames) - 1)
      BY <2>1 DEF exceptionReturn
    <3> HIDE DEF F
    <3> QED
      BY <3>1, <3>2
  <2>6. /\ SPSEL' \in {0, 1} /\ currentMode' \in {"HANDLER", "THREAD"}
        /\ exceptionActive' \subseteq Exceptions
        /\ currentInstrAddr' \in Nat /\ nextInstrAddr' \in Nat
    BY <2>1 DEF exceptionReturn, deActivate, TypeOK
  <2> QED
    BY <2>3, <2>4, <2>5, <2>6 DEF TypeOK
<1>4. CASE UNCHANGED vars
  BY <1>4 DEF vars, excVars, TypeOK
<1> QED
  BY <1>1, <1>2, <1>3, <1>4 DEF Next

LEMMA TypeInit == Init => TypeOK
<1> SUFFICES ASSUME Init PROVE TypeOK
  OBVIOUS
<1>1. pc \in Nat
  BY CodeAssumption DEF Init
<1> QED
  BY <1>1, InitialSPAssumption DEF Init, TypeOK

(* The registers, the mode and the record of entries keep their types,     *)
(* whatever flash holds (exceptionReturn, PopStack, pushStack).            *)
THEOREM TypeCorrect == Spec => []TypeOK
BY TypeInit, TypeStep, PTL DEF Spec

-----------------------------------------------------------------------------
(* A return is accepted for an active exception; it is the last one iff    *)
(* the return goes to thread mode.                                         *)
LEMMA AcceptedReturn ==
  ASSUME TypeOK, NEW exc \in ExcReturns, Accepted(exc)
  PROVE  /\ ipsr \in exceptionActive
         /\ exceptionActiveBitCount \in Nat
         /\ exceptionActiveBitCount >= 1
         /\ Cardinality(exceptionActive \ {ipsr}) = exceptionActiveBitCount - 1
         /\ exc = EXC_RETURN_HANDLER <=> exceptionActive \ {ipsr} # {}
<1>1. ipsr \in exceptionActive /\ exceptionActive \subseteq Exceptions
  BY DEF Accepted, TypeOK
<1>2. ipsr \in Exceptions
  BY <1>1
<1>3. (exc = EXC_RETURN_HANDLER) <=> Cardinality(exceptionActive) # 1
  BY DEF Accepted, exceptionActiveBitCount
<1>4. Cardinality(exceptionActive) = 1 <=> exceptionActive = {ipsr}
  BY <1>1, <1>2, ActiveCount
<1>5. exceptionActive = {ipsr} <=> exceptionActive \ {ipsr} = {}
  BY <1>1
<1>6. /\ Cardinality(exceptionActive) \in Nat
      /\ Cardinality(exceptionActive) >= 1
      /\ Cardinality(exceptionActive \ {ipsr}) = Cardinality(exceptionActive) - 1
  BY <1>1, <1>2, ActiveCount
<1> QED
  BY <1>1, <1>3, <1>4, <1>5, <1>6 DEF exceptionActiveBitCount

(* The processor is in handler mode exactly while an exception is active,  *)
(* whatever IPSR PopStack reads (exceptionReturn, deActivate).             *)
THEOREM ModeAgrees == Spec => []ModeMatchesActive
<1>1. Init => ModeMatchesActive
  BY DEF Init, ModeMatchesActive
<1>2. ASSUME TypeOK, ModeMatchesActive, [Next]_vars
      PROVE  ModeMatchesActive'
  <2>1. CASE Run
    BY <1>2, <2>1 DEF Run, ModeMatchesActive
  <2>2. CASE Enter
    BY <2>2 DEF Enter, exceptionEntry, exceptionTaken, ModeMatchesActive
  <2>3. CASE Return
    <3>1. PICK exc \in ExcReturns : exceptionReturn(exc)
      BY <2>3 DEF Return
    <3>2. exc = EXC_RETURN_HANDLER <=> exceptionActive \ {ipsr} # {}
      BY <1>2, <3>1, AcceptedReturn DEF exceptionReturn
    <3> QED
      BY <3>1, <3>2 DEF exceptionReturn, deActivate, ModeMatchesActive
  <2>4. CASE UNCHANGED vars
    BY <1>2, <2>4 DEF vars, excVars, ModeMatchesActive
  <2> QED
    BY <1>2, <2>1, <2>2, <2>3, <2>4 DEF Next
<1> QED
  BY <1>1, <1>2, TypeCorrect, PTL DEF Spec

-----------------------------------------------------------------------------
(* The bound needs the stack pointer to stay a multiple of four. *)
StackInv == msp % 4 = 0 /\ MainStackNeverClimbs

LEMMA Top == Align8(InitialSP) \in Int /\ Align8(InitialSP) % 8 = 0
             /\ InitialSP <= Align8(InitialSP) + 4
<1>1. InitialSP \in Int /\ InitialSP % 4 = 0
  BY InitialSPAssumption
<1> QED
  BY <1>1 DEF Align8

LEMMA StackInit == Init => StackInv
<1> SUFFICES ASSUME Init PROVE StackInv
  OBVIOUS
<1>1. exceptionActiveBitCount = 0 /\ Len(frames) = 0
  BY FS_EmptySet DEF Init, exceptionActiveBitCount
<1>2. msp = InitialSP /\ msp % 4 = 0
  BY InitialSPAssumption DEF Init
<1> QED
  BY <1>1, <1>2, Top DEF StackInv, MainStackNeverClimbs, FrameSize

LEMMA StackStep ==
  ASSUME TypeOK, SPSEL = 1 => currentMode = "THREAD", StackInv, [Next]_vars
  PROVE  StackInv'
<1> DEFINE top == Align8(InitialSP)
<1>0. /\ msp \in Int /\ Len(frames) \in Nat
      /\ msp % 4 = 0
      /\ exceptionActiveBitCount <= Len(frames)
      /\ msp <= top + 4 - 32 * Len(frames)
      /\ top \in Int /\ top % 8 = 0
  BY Top DEF TypeOK, StackInv, MainStackNeverClimbs, FrameSize
<1> HIDE DEF top
<1> SUFFICES /\ msp' % 4 = 0
             /\ exceptionActiveBitCount' <= Len(frames')
             /\ msp' <= top + 4 - 32 * Len(frames')
  BY DEF StackInv, MainStackNeverClimbs, top, FrameSize
<1>1. CASE Run
  BY <1>0, <1>1 DEF Run, exceptionActiveBitCount
<1>2. CASE Enter
  <2>1. PICK n \in Exceptions, handler \in Code : exceptionEntry(n, handler)
    BY <1>2 DEF Enter
  <2>2. msp' = Align8(msp - 32)
    BY <2>1 DEF exceptionEntry, pushStack, ProcessStack, ActiveSP, FrameBase,
                FrameSize
  <2>3. Len(frames') = Len(frames) + 1
    BY <2>1 DEF exceptionEntry, pushStack, TypeOK
  <2>4. exceptionActiveBitCount' <= exceptionActiveBitCount + 1
        /\ exceptionActiveBitCount' \in Nat /\ exceptionActiveBitCount \in Nat
    BY <2>1, ActiveCount DEF exceptionEntry, exceptionTaken, TypeOK,
                             exceptionActiveBitCount
  <2>5. /\ msp' \in Int /\ msp' % 8 = 0 /\ msp' <= msp - 32
    BY <1>0, <2>2, Align8Bounds
  <2>6. msp' % 4 = 0
    BY <2>5, MultipleOfEight
  <2>7. msp' <= top + 4 - 32 * Len(frames')
    BY <1>0, <2>3, <2>5
  <2> QED
    BY <1>0, <2>3, <2>4, <2>6, <2>7
<1>3. CASE Return
  <2>1. PICK exc \in ExcReturns : exceptionReturn(exc)
    BY <1>3 DEF Return
  <2>2. PICK frame \in FlashFrames : PopStack(exc, frame)
    BY <2>1 DEF exceptionReturn
  <2>3. /\ exceptionActiveBitCount \in Nat /\ exceptionActiveBitCount >= 1
        /\ exceptionActiveBitCount' = exceptionActiveBitCount - 1
    BY <2>1, AcceptedReturn DEF exceptionReturn, deActivate,
                                exceptionActiveBitCount
  <2>4. Len(frames') = Len(frames) - 1
    <3>1. Len(frames) >= 1
      BY <1>0, <2>3
    <3>2. frames' = SubSeq(frames, 1, Len(frames) - 1)
      BY <2>1 DEF exceptionReturn
    <3> QED
      BY <3>1, <3>2, WithoutLast DEF TypeOK
  <2>7. exceptionActiveBitCount' <= Len(frames')
    BY <1>0, <2>3, <2>4
  <2>5. CASE msp' = msp
    BY <1>0, <2>4, <2>5, <2>7
  <2>6. CASE msp' = Freed(msp, frame.align)
    <3> DEFINE above == top - 32 * Len(frames)
    <3>1. above \in Int /\ above % 8 = 0 /\ msp <= above + 4
      BY <1>0
    <3> HIDE DEF above
    <3>2. /\ msp' % 4 = 0 /\ msp' \in Int
          /\ msp' <= above + 4 + 32
      BY <1>0, <2>6, <3>1, FlashFrameTypes, FreedBounds DEF FrameSize
    <3>3. msp' <= top + 4 - 32 * Len(frames')
      BY <1>0, <2>4, <3>2 DEF above
    <3> QED
      BY <2>7, <3>2, <3>3
  <2> QED
    BY <2>2, <2>5, <2>6 DEF PopStack, Restore
<1>4. CASE UNCHANGED vars
  BY <1>0, <1>4 DEF vars, excVars, exceptionActiveBitCount
<1> QED
  BY <1>1, <1>2, <1>3, <1>4 DEF Next

(* No sequence of entries and returns moves the main stack above its       *)
(* aligned top and four bytes, whatever alignment bit PopStack reads       *)
(* (pushStack, PopStack, exceptionActiveBitCount).                         *)
THEOREM StackBounded == Spec => []MainStackNeverClimbs
<1> DEFINE SelInv == SPSEL = 1 => currentMode = "THREAD"
<1>1. Init => SelInv
  BY DEF Init
<1>2. SelInv /\ [Next]_vars => SelInv'
  BY DEF Next, vars, excVars, Run, Enter, exceptionEntry, exceptionTaken,
         Return, exceptionReturn
<1>3. TypeOK /\ SelInv /\ StackInv /\ [Next]_vars => StackInv'
  BY StackStep
<1>4. StackInv => MainStackNeverClimbs
  BY DEF StackInv
<1> HIDE DEF SelInv
<1> QED
  BY <1>1, <1>2, <1>3, <1>4, StackInit, TypeCorrect, PTL DEF Spec
=============================================================================
