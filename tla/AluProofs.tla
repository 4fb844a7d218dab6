------------------------------ MODULE AluProofs ------------------------------
(***************************************************************************)
(* Registers and flags keep to their range, and comparisons decide, for    *)
(* every width of the registers.                                           *)
(***************************************************************************)
EXTENDS Alu, TLAPS

(* What the flags say of the numbers compared. *)
FlagsTell ==
  compared # None =>
    /\ (C = 1) <=> compared.above
    /\ (N = V) <=> compared.signedAbove
    /\ compared.zero => ((Z = 1) <=> compared.equal)

IInv == TypeOK /\ FlagsTell

-----------------------------------------------------------------------------
LEMMA WordFacts ==
  ASSUME NEW x \in Word
  PROVE  /\ x \in Int /\ 0 <= x /\ x < Modulus
         /\ Inverted(x) \in Word
         /\ Half \in Int /\ Half > 0 /\ Modulus = 2 * Half /\ 0 \in Word
  BY HalfAssumption DEF Word, Modulus, Inverted

LEMMA SumType ==
  ASSUME NEW x \in Word, NEW y \in Word, NEW c \in {0, 1}
  PROVE  /\ addWithCarry(x, y, c).result \in Word
         /\ addWithCarry(x, y, c).carry_out \in {0, 1}
         /\ addWithCarry(x, y, c).overflow \in {0, 1}
<1> DEFINE sum == x + y + c
<1>1. (IF sum >= Modulus THEN sum - Modulus ELSE sum) \in Word
  BY WordFacts DEF Word
<1> QED
  BY <1>1 DEF addWithCarry, Bit

(* The inverse of a number stands for one less than its negation, so that  *)
(* a subtraction leaves the order of its operands in C, N and V.           *)
LEMMA SubtractionFlags ==
  ASSUME NEW x \in Word, NEW y \in Word, NEW c \in {0, 1}
  PROVE  LET difference == addWithCarry(x, Inverted(y), c)
         IN  /\ difference.carry_out = 1 <=> (x > y \/ (x = y /\ c = 1))
             /\ Negative(difference.result) = difference.overflow
                  <=> (Signed(x) > Signed(y) \/ (x = y /\ c = 1))
             /\ c = 1 => (difference.result = 0 <=> x = y)
<1> DEFINE sum    == x + Inverted(y) + c
           signed == Signed(x) + Signed(Inverted(y)) + c
           result == IF sum >= Modulus THEN sum - Modulus ELSE sum
<1>1. /\ x \in Int /\ 0 <= x /\ x < 2 * Half
      /\ y \in Int /\ 0 <= y /\ y < 2 * Half
      /\ Half \in Int /\ Half > 0 /\ Modulus = 2 * Half
  BY WordFacts
<1>2. sum = x - y + c - 1 + 2 * Half
  BY <1>1 DEF Inverted
<1>3. /\ Signed(x) = IF x >= Half THEN x - 2 * Half ELSE x
      /\ Signed(y) = IF y >= Half THEN y - 2 * Half ELSE y
      /\ Signed(Inverted(y)) = -Signed(y) - 1
  BY <1>1 DEF Signed, Inverted
<1>4. signed = Signed(x) - Signed(y) + c - 1
  BY <1>1, <1>3
<1> HIDE DEF sum, signed
<1>5. sum >= Modulus <=> (x > y \/ (x = y /\ c = 1))
  BY <1>1, <1>2
<1>6. signed >= 0 <=> (Signed(x) > Signed(y) \/ (x = y /\ c = 1))
  BY <1>1, <1>3, <1>4
<1>7. (result >= Half <=> (signed >= Half \/ signed < -Half)) <=> signed >= 0
  BY <1>1, <1>2, <1>3, <1>4
<1>8. c = 1 => (result = 0 <=> x = y)
  BY <1>1, <1>2
<1>9. addWithCarry(x, Inverted(y), c)
        = [result |-> result, carry_out |-> Bit(sum >= Modulus),
           overflow |-> Bit(signed >= Half \/ signed < -Half)]
  BY DEF addWithCarry, sum, signed
<1> HIDE DEF result
<1>10. Bit(sum >= Modulus) = 1 <=> (x > y \/ (x = y /\ c = 1))
  BY <1>5 DEF Bit
<1>11. Negative(result) = Bit(signed >= Half \/ signed < -Half)
         <=> (Signed(x) > Signed(y) \/ (x = y /\ c = 1))
  BY <1>6, <1>7 DEF Bit, Negative
<1> QED
  BY <1>8, <1>9, <1>10, <1>11

LEMMA ShiftType ==
  ASSUME NEW value \in Word, NEW type, NEW amount \in Nat, NEW carry \in {0, 1},
         NEW shifted \in shift_c(value, type, amount, carry)
  PROVE  shifted.result \in Word /\ shifted.carry_out \in {0, 1}
<1> USE WordFacts
<1>1. CASE amount = 0
  BY <1>1 DEF shift_c
<1>2. CASE amount # 0 /\ type = "LSL" /\ amount < Width
  <2>1. 2^amount \in Nat /\ 2^(Width - amount) \in Nat \ {0}
    BY <1>2, WidthAssumption
  <2> DEFINE p == 2^amount  q == 2^(Width - amount)
  <2>2. p \in Nat /\ q \in Nat \ {0}
    BY <2>1
  <2> HIDE DEF p, q
  <2>3. (value * p) % Modulus \in Word
    <3>1. value * p \in Int
      BY <2>2
    <3> QED
      BY <3>1 DEF Word
  <2>4. (value \div q) % 2 \in {0, 1}
    BY <2>2
  <2>5. shifted = [result |-> (value * p) % Modulus, carry_out |-> (value \div q) % 2]
    BY <1>2 DEF shift_c, p, q
  <2> QED
    BY <2>3, <2>4, <2>5
<1>3. CASE amount # 0 /\ type = "LSR" /\ amount < Width
  <2>1. 2^amount \in Nat \ {0} /\ 2^(amount - 1) \in Nat \ {0}
    BY <1>3, WidthAssumption
  <2> DEFINE p == 2^amount  q == 2^(amount - 1)
  <2>2. p \in Nat \ {0} /\ q \in Nat \ {0}
    BY <2>1
  <2> HIDE DEF p, q
  <2>3. value \div p \in Word
    BY <2>2 DEF Word
  <2>4. (value \div q) % 2 \in {0, 1}
    BY <2>2
  <2>5. shifted = [result |-> value \div p, carry_out |-> (value \div q) % 2]
    BY <1>3 DEF shift_c, p, q
  <2> QED
    BY <2>3, <2>4, <2>5
<1>4. CASE shifted \in Outcomes
  BY <1>4 DEF Outcomes
<1> QED
  BY <1>1, <1>2, <1>3, <1>4 DEF shift_c

LEMMA FlagTypes ==
  \A b : Bit(b) \in {0, 1} /\ \A x : Negative(x) \in {0, 1}
  BY DEF Bit, Negative

LEMMA NoneIsNoComparison ==
  None \notin Comparison /\ None.words = "none"
  BY DEF None, Comparison

LEMMA ComparisonTypes ==
  ASSUME NEW x \in Word, NEW y \in Word, NEW zero \in BOOLEAN
  PROVE  /\ Compare(x, y, zero) \in Comparison
         /\ compared \in Comparison => CompareHigher(x, y) \in Comparison
  BY DEF Compare, CompareHigher, Comparison

-----------------------------------------------------------------------------
(* The instructions that are no comparisons: what they compute is a word,  *)
(* and they forget the comparison.                                         *)
Forgets(d) ==
  /\ \E result \in Word : regs' = [regs EXCEPT ![d] = result]
  /\ N' \in {0, 1} /\ Z' \in {0, 1} /\ C' \in {0, 1} /\ V' \in {0, 1}
  /\ compared' = None

LEMMA ForgetsPreserves ==
  ASSUME IInv, NEW d \in Regs, Forgets(d)
  PROVE  IInv'
<1>1. regs' \in [Regs -> Word]
  BY DEF IInv, TypeOK, Forgets
<1> QED
  BY <1>1 DEF IInv, TypeOK, FlagsTell, Forgets

LEMMA OperandTypes ==
  ASSUME IInv, NEW n \in Regs
  PROVE  regs[n] \in Word /\ Inverted(regs[n]) \in Word
  BY WordFacts DEF IInv, TypeOK

LEMMA ValueForgets ==
  ASSUME IInv, NEW d \in Regs, NEW result \in Word, NEW value,
         regs' = [regs EXCEPT ![d] = result], ValueFlags(value), compared' = None
  PROVE  Forgets(d)
  BY FlagTypes DEF IInv, TypeOK, ValueFlags, setAPSRValues, Forgets

LEMMA SumForgets ==
  ASSUME IInv, NEW d \in Regs, NEW x \in Word, NEW y \in Word, NEW c \in {0, 1},
         SumInto(d, x, y, c), compared' = None
  PROVE  Forgets(d)
<1> DEFINE sum == addWithCarry(x, y, c)
<1>1. /\ regs' = [regs EXCEPT ![d] = sum.result]
      /\ C' = sum.carry_out /\ V' = sum.overflow
      /\ N' = Negative(sum.result) /\ Z' = Bit(sum.result = 0)
  BY DEF SumInto, SumFlags, setAPSRValues
<1> QED
  BY <1>1, SumType, FlagTypes DEF Forgets

LEMMA ShiftForgets ==
  ASSUME IInv, NEW d \in Regs, NEW value \in Word, NEW type, NEW amount \in Nat,
         NEW shifted \in shift_c(value, type, amount, C),
         regs' = [regs EXCEPT ![d] = shifted.result],
         setAPSRValues(shifted.carry_out, Negative(shifted.result), V,
                       Bit(shifted.result = 0)),
         compared' = None
  PROVE  Forgets(d)
<1>1. shifted.result \in Word /\ shifted.carry_out \in {0, 1}
  BY ShiftType DEF IInv, TypeOK
<1> QED
  BY <1>1, FlagTypes DEF IInv, TypeOK, setAPSRValues, Forgets

(* A subtraction whose operands are compared. *)
LEMMA ComparePreserves ==
  ASSUME IInv, NEW x \in Word, NEW y \in Word, regs' \in [Regs -> Word],
         NEW zero \in BOOLEAN, compared' = Compare(x, y, zero),
         NEW difference, difference = addWithCarry(x, Inverted(y), 1),
         C' = difference.carry_out, V' = difference.overflow,
         N' = Negative(difference.result),
         Z' \in {0, 1}, zero => Z' = Bit(difference.result = 0)
  PROVE  IInv'
<1>1. Inverted(y) \in Word
  BY WordFacts
<1>2. TypeOK'
  BY <1>1, SumType, FlagTypes, ComparisonTypes DEF TypeOK
<1>3. /\ (C' = 1) <=> x > y \/ x = y
      /\ (N' = V') <=> Signed(x) > Signed(y) \/ x = y
      /\ zero => ((Z' = 1) <=> x = y)
  BY SubtractionFlags DEF Bit
<1>4. /\ x >= y <=> x > y \/ x = y
      /\ Signed(x) >= Signed(y) <=> Signed(x) > Signed(y) \/ x = y
  <2>1. /\ x \in Int /\ 0 <= x /\ x < 2 * Half
        /\ y \in Int /\ 0 <= y /\ y < 2 * Half
        /\ Half \in Int /\ Half > 0 /\ Modulus = 2 * Half
    BY WordFacts
  <2>2. /\ Signed(x) = IF x >= Half THEN x - 2 * Half ELSE x
        /\ Signed(y) = IF y >= Half THEN y - 2 * Half ELSE y
    BY <2>1 DEF Signed
  <2> QED
    BY <2>1, <2>2
<1>5. FlagsTell'
  BY <1>3, <1>4 DEF FlagsTell, Compare
<1> QED
  BY <1>2, <1>5 DEF IInv

LEMMA SbcPreserves ==
  ASSUME IInv, NEW n \in Regs, NEW m \in Regs, Sbc(n, m)
  PROVE  IInv'
<1> DEFINE x == regs[n]  y == regs[m]
           difference == addWithCarry(x, Inverted(y), C)
<1>1. x \in Word /\ y \in Word /\ Inverted(y) \in Word /\ C \in {0, 1}
  BY OperandTypes DEF IInv, TypeOK
<1>2. /\ regs' = [regs EXCEPT ![n] = difference.result]
      /\ C' = difference.carry_out /\ V' = difference.overflow
      /\ N' = Negative(difference.result) /\ Z' = Bit(difference.result = 0)
  BY DEF Sbc, SumInto, SumFlags, setAPSRValues
<1>3. CASE compared = None
  <2>1. SumInto(n, x, Inverted(y), C) /\ compared' = None
    BY <1>3 DEF Sbc
  <2> QED
    BY <1>1, <2>1, SumForgets, ForgetsPreserves
<1>4. CASE compared # None
  <2>1. compared \in Comparison /\ compared' = CompareHigher(x, y)
    BY <1>4 DEF Sbc, IInv, TypeOK
  <2>2. TypeOK'
    <3>1. regs' \in [Regs -> Word]
      BY <1>1, <1>2, SumType DEF IInv, TypeOK
    <3> QED
      BY <1>1, <1>2, <2>1, <3>1, SumType, FlagTypes, ComparisonTypes DEF TypeOK
  <2>3. (C = 1) <=> compared.above
    BY <1>4 DEF IInv, FlagsTell
  <2>4. /\ (C' = 1) <=> x > y \/ (x = y /\ C = 1)
        /\ (N' = V') <=> Signed(x) > Signed(y) \/ (x = y /\ C = 1)
    BY <1>1, <1>2, SubtractionFlags
  <2>5. FlagsTell'
    BY <2>1, <2>3, <2>4 DEF FlagsTell, CompareHigher
  <2> QED
    BY <2>2, <2>5 DEF IInv
<1> QED
  BY <1>3, <1>4

LEMMA ALUPreserves ==
  ASSUME IInv, executeALUinstr
  PROVE  IInv'
<1>1. PICK n \in Regs, m \in Regs :
        \/ AndEor(n, m) \/ ShiftRegister(n, m)
        \/ LslAdc(n, m) \/ Sbc(n, m) \/ Neg(n) \/ Cmp(n, m) \/ Cmn(n, m)
        \/ Tst(n, m) \/ OrrMul(n, m) \/ BicMvn(n, m)
  BY DEF executeALUinstr
<1>2. /\ regs[n] \in Word /\ Inverted(regs[n]) \in Word
      /\ regs[m] \in Word /\ Inverted(regs[m]) \in Word
      /\ C \in {0, 1} /\ 0 \in Word /\ regs \in [Regs -> Word]
  BY OperandTypes, WordFacts DEF IInv, TypeOK
<1>3. CASE AndEor(n, m)
  <2>1. PICK result \in Word : regs' = [regs EXCEPT ![n] = result]
    BY <1>2, <1>3, BitwiseAssumption DEF AndEor
  <2> QED
    BY <1>3, <2>1, ValueForgets, ForgetsPreserves DEF AndEor
<1>4. CASE ShiftRegister(n, m)
  <2> DEFINE amount == regs[m] % ByteSpan
  <2>1. amount \in Nat
    BY <1>2, WordFacts, WidthAssumption
  <2>2. PICK shifted \in shift_c(regs[n], executed', amount, C) :
          /\ regs' = [regs EXCEPT ![n] = shifted.result]
          /\ setAPSRValues(shifted.carry_out, Negative(shifted.result), V,
                           Bit(shifted.result = 0))
          /\ compared' = None
    BY <1>4 DEF ShiftRegister
  <2> QED
    BY <1>2, <2>1, <2>2, ShiftForgets, ForgetsPreserves
<1>5. CASE LslAdc(n, m)
  BY <1>2, <1>5, SumForgets, ForgetsPreserves DEF LslAdc
<1>6. CASE Sbc(n, m)
  BY <1>6, SbcPreserves
<1>7. CASE Neg(n)
  BY <1>2, <1>7, SumForgets, ForgetsPreserves DEF Neg
<1>8. CASE Cmp(n, m)
  BY <1>2, <1>8, FlagTypes, ComparePreserves DEF Cmp, SumFlags, setAPSRValues
<1>9. CASE Cmn(n, m)
  <2>1. Forgets(n)
    <3>1. regs' = [regs EXCEPT ![n] = regs[n]]
      BY <1>2, <1>9 DEF Cmn
    <3> QED
      BY <1>2, <1>9, <3>1, SumType, FlagTypes DEF Cmn, SumFlags, setAPSRValues, Forgets
  <2> QED
    BY <2>1, ForgetsPreserves
<1>10. CASE Tst(n, m)
  <2>1. regs' = [regs EXCEPT ![n] = regs[n]]
    BY <1>2, <1>10 DEF Tst
  <2> QED
    BY <1>2, <1>10, <2>1, ValueForgets, ForgetsPreserves DEF Tst
<1>11. CASE OrrMul(n, m)
  <2> DEFINE result == IF executed' = "ORR" THEN BitOr(regs[n], regs[m])
                       ELSE (regs[n] * regs[m]) % Modulus
  <2>1. (regs[n] * regs[m]) % Modulus \in Word
    <3>1. regs[n] * regs[m] \in Int
      BY <1>2, WordFacts
    <3> QED
      BY <3>1, <1>2, WordFacts DEF Word
  <2>2. BitOr(regs[n], regs[m]) \in Word
    BY <1>2, BitwiseAssumption
  <2>3. result \in Word
    BY <2>1, <2>2
  <2>4. regs' = [regs EXCEPT ![n] = result] /\ ValueFlags(result) /\ compared' = None
    BY <1>11 DEF OrrMul
  <2> HIDE DEF result
  <2> QED
    BY <2>3, <2>4, ValueForgets, ForgetsPreserves
<1>12. CASE BicMvn(n, m)
  <2> DEFINE entered == IF executed' = "BIC"
                        THEN [regs EXCEPT ![n] = BitAnd(regs[m], Inverted(@))] ELSE regs
             operand == entered[m]
  <2>1. BitAnd(regs[m], Inverted(regs[n])) \in Word
    BY <1>2, BitwiseAssumption
  <2>2. operand \in Word
    BY <1>2, <2>1
  <2>3. regs' = [regs EXCEPT ![n] = Inverted(operand)] /\ ValueFlags(operand) /\ compared' = None
    BY <1>12 DEF BicMvn
  <2>4. Inverted(operand) \in Word
    BY <2>2, WordFacts
  <2> HIDE DEF operand
  <2> QED
    BY <2>2, <2>3, <2>4, ValueForgets, ForgetsPreserves
<1> QED
  BY <1>1, <1>3, <1>4, <1>5, <1>6, <1>7, <1>8, <1>9, <1>10, <1>11, <1>12

LEMMA MovCmpPreserves ==
  ASSUME IInv, executeMovCmpAddSub
  PROVE  IInv'
<1>1. PICK d \in Regs, imm \in Immediates :
        MovImmediate(d, imm) \/ CmpImmediate(d, imm) \/ AddSubImmediate(d, imm)
  BY DEF executeMovCmpAddSub
<1>2. imm \in Word /\ regs[d] \in Word /\ regs \in [Regs -> Word]
  BY ImmediatesAssumption, OperandTypes DEF IInv, TypeOK
<1>3. CASE MovImmediate(d, imm)
  BY <1>2, <1>3, ValueForgets, ForgetsPreserves DEF MovImmediate
<1>4. CASE CmpImmediate(d, imm)
  BY <1>2, <1>4, FlagTypes, ComparePreserves DEF CmpImmediate, setAPSRValues
<1>5. CASE AddSubImmediate(d, imm)
  BY <1>5 DEF AddSubImmediate, IInv, TypeOK, FlagsTell
<1> QED
  BY <1>1, <1>3, <1>4, <1>5

LEMMA AddSubPreserves ==
  ASSUME IInv, executeAddSub
  PROVE  IInv'
<1>1. PICK n \in Regs, I \in {0, 1} :
        \E operand2 \in IF I = 1 THEN Immediates ELSE {regs[s] : s \in Regs} :
          \/ /\ SumInto(I, regs[n], operand2, 0)
             /\ compared' = None
          \/ /\ SumInto(I, regs[n], Inverted(operand2), 1)
             /\ compared' = Compare(regs[n], operand2, TRUE)
  BY DEF executeAddSub
<1>2. PICK y \in IF I = 1 THEN Immediates ELSE {regs[s] : s \in Regs} :
        \/ /\ SumInto(I, regs[n], y, 0)
           /\ compared' = None
        \/ /\ SumInto(I, regs[n], Inverted(y), 1)
           /\ compared' = Compare(regs[n], y, TRUE)
  BY <1>1
<1>3. /\ y \in Word /\ Inverted(y) \in Word
      /\ regs[n] \in Word /\ regs \in [Regs -> Word] /\ I \in Regs
  <2>1. y \in Word
    BY ImmediatesAssumption, OperandTypes
  <2> QED
    BY <2>1, OperandTypes, WordFacts, RegsAssumption DEF IInv, TypeOK
<1>4. CASE SumInto(I, regs[n], y, 0) /\ compared' = None
  BY <1>3, <1>4, SumForgets, ForgetsPreserves
<1>5. CASE SumInto(I, regs[n], Inverted(y), 1) /\ compared' = Compare(regs[n], y, TRUE)
  <2> DEFINE difference == addWithCarry(regs[n], Inverted(y), 1)
  <2>1. /\ regs' = [regs EXCEPT ![I] = difference.result]
        /\ C' = difference.carry_out /\ V' = difference.overflow
        /\ N' = Negative(difference.result) /\ Z' = Bit(difference.result = 0)
    BY <1>5 DEF SumInto, SumFlags, setAPSRValues
  <2>2. regs' \in [Regs -> Word]
    BY <1>3, <2>1, SumType
  <2> HIDE DEF difference
  <2> QED
    BY <1>3, <1>5, <2>1, <2>2, FlagTypes, ComparePreserves DEF difference
<1> QED
  BY <1>2, <1>4, <1>5

LEMMA ShiftImmediatePreserves ==
  ASSUME IInv, executeShiftImmediate
  PROVE  IInv'
<1>1. PICK d \in Regs, m \in Regs, imm5 \in 0 .. Width - 1 :
        \E shifted \in shift_c(regs[m], "LSL", imm5, C) :
          /\ regs' = [regs EXCEPT ![d] = shifted.result]
          /\ setAPSRValues(shifted.carry_out, Negative(shifted.result), V,
                           Bit(shifted.result = 0))
          /\ compared' = None
  BY DEF executeShiftImmediate
<1>2. imm5 \in Nat /\ regs[m] \in Word
  BY OperandTypes, WidthAssumption
<1> QED
  BY <1>1, <1>2, ShiftForgets, ForgetsPreserves

LEMMA AdrPreserves ==
  ASSUME IInv, executeAdr
  PROVE  IInv'
<1>1. PICK d \in Regs, imm \in Immediates, base \in Word :
        regs' = [regs EXCEPT ![d] =
                   IF executed' = "ADD SP"
                   THEN addWithCarry(base, (4 * imm) % Modulus, 0).result
                   ELSE 4 * (((base + 4) % Modulus) \div 4)]
  BY DEF executeAdr
<1>2. (4 * imm) % Modulus \in Word /\ 4 * (((base + 4) % Modulus) \div 4) \in Word
  BY WordFacts, ImmediatesAssumption DEF Word
<1>3. regs' \in [Regs -> Word]
  BY <1>1, <1>2, SumType DEF IInv, TypeOK
<1> QED
  BY <1>3 DEF executeAdr, IInv, TypeOK, FlagsTell

-----------------------------------------------------------------------------
LEMMA Invariant == Spec => []IInv
<1>1. Init => IInv
  <2>1. 0 \in Word
    BY HalfAssumption DEF Word, Modulus
  <2> QED
    BY <2>1 DEF Init, IInv, TypeOK, FlagsTell
<1>2. IInv /\ [Next]_vars => IInv'
  <2> SUFFICES ASSUME IInv, [Next]_vars PROVE IInv'
    OBVIOUS
  <2>1. CASE UNCHANGED vars
    BY <2>1 DEF vars, IInv, TypeOK, FlagsTell
  <2> QED
    BY <2>1, ALUPreserves, MovCmpPreserves, AddSubPreserves,
       ShiftImmediatePreserves, AdrPreserves DEF Next
<1> QED
  BY <1>1, <1>2, PTL DEF Spec

(* Every register and flag keeps to its width, also where the result of a  *)
(* shift is undefined.                                                     *)
THEOREM TypeCorrect == Spec => []TypeOK
<1>1. IInv => TypeOK
  BY DEF IInv
<1> QED
  BY <1>1, Invariant, PTL

LEMMA OrdersHold ==
  ASSUME IInv, compared # None
  PROVE  Orders
  BY DEF IInv, TypeOK, FlagsTell, Orders, conditionPassed, Comparison,
         HS, LO, GE, LT

(* The ordering conditions are right after every comparison.               *)
THEOREM ComparisonsDecide == Spec => []CompareDecides
<1>1. IInv => CompareDecides
  <2> SUFFICES ASSUME IInv, compared.words = "one" PROVE CompareDecides
    BY DEF CompareDecides
  <2>1. compared # None /\ compared \in Comparison
    BY NoneIsNoComparison DEF IInv, TypeOK
  <2>2. Orders
    BY <2>1, OrdersHold
  <2>3. ASSUME compared.zero
        PROVE  /\ conditionPassed(HI) = (compared.above /\ ~compared.equal)
               /\ conditionPassed(LS) = (~compared.above \/ compared.equal)
               /\ conditionPassed(GT) = (compared.signedAbove /\ ~compared.equal)
               /\ conditionPassed(LE) = (~compared.signedAbove \/ compared.equal)
    BY <2>1, <2>3 DEF IInv, TypeOK, FlagsTell, conditionPassed, Comparison,
                      HI, LS, GT, LE
  <2> QED
    BY <2>2, <2>3 DEF CompareDecides
<1> QED
  BY <1>1, Invariant, PTL

(* And after a chain of subtractions with borrow over words of any number. *)
THEOREM LongComparisonsDecide == Spec => []LongCompareDecides
<1>1. IInv => LongCompareDecides
  BY NoneIsNoComparison, OrdersHold DEF LongCompareDecides
<1> QED
  BY <1>1, Invariant, PTL
=============================================================================
