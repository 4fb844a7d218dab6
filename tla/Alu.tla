--------------------------------- MODULE Alu ---------------------------------
(***************************************************************************)
(* The data-processing instructions of src/cpu.cpp: executeALUinstr,       *)
(* executeMovCmpAddSub, executeAddSub, executeShiftImmediate, executeAdr,  *)
(* and the conditions that branches draw from the flags they leave.        *)
(*                                                                         *)
(* A register holds one of Modulus = 2^Width values, 2^32 in the code.     *)
(* Each instruction also moves the PC by two, which is left out, as are    *)
(* the registers above Regs.                                               *)
(***************************************************************************)
EXTENDS Integers

CONSTANTS Regs,              \* numbers of the registers modelled
          Width, Half,       \* bits of a register, and 2^(Width - 1)
          ByteSpan,          \* a shift amount is taken modulo this
          Immediates,        \* imm8 of MOV and CMP, imm3 of ADD and SUB
          BitAnd(_, _), BitOr(_, _), BitXor(_, _)

Modulus == 2 * Half

Word == 0 .. Modulus - 1

ASSUME RegsAssumption == Regs \subseteq 0 .. 7 /\ {0, 1} \subseteq Regs
ASSUME HalfAssumption == Half \in Nat \ {0}
ASSUME WidthAssumption ==
  /\ Width \in Nat \ {0} /\ ByteSpan \in Nat \ {0}
  /\ \A k \in 0 .. Width : 2^k \in Nat \ {0}
ASSUME ImmediatesAssumption == Immediates \subseteq Word
ASSUME BitwiseAssumption ==
  \A x, y \in Word : {BitAnd(x, y), BitOr(x, y), BitXor(x, y)} \subseteq Word

VARIABLES regs, N, Z, C, V,   \* the flags are 0 or 1
          executed,           \* the instruction executed last
          compared            \* what the last comparison should have found

vars == <<regs, N, Z, C, V, executed, compared>>

-----------------------------------------------------------------------------
Bit(b) == IF b THEN 1 ELSE 0

Inverted(x) == Modulus - 1 - x

Signed(x) == IF x >= Half THEN x - Modulus ELSE x

Negative(x) == Bit(x >= Half)

addWithCarry(x, y, carry_in) ==
  LET sum    == x + y + carry_in
      signed == Signed(x) + Signed(y) + carry_in
  IN  [result    |-> IF sum >= Modulus THEN sum - Modulus ELSE sum,
       carry_out |-> Bit(sum >= Modulus),
       overflow  |-> Bit(signed >= Half \/ signed < -Half)]

Outcomes == [result : Word, carry_out : {0, 1}]

(* Seeded fault: the bits shifted out are kept. *)
shift_c_Unmasked(value, type, amount, carry_in) ==
  IF amount = 0 THEN {[result |-> value, carry_out |-> carry_in]}
  ELSE IF type = "LSL" /\ amount < Width
       THEN {[result    |-> value * 2^amount,
              carry_out |-> (value \div 2^(Width - amount)) % 2]}
  ELSE Outcomes

(* What shift_c may return.  The cases of ASR and ROR assign nothing, so   *)
(* that both results are uninitialised, and a shift of a uint32_t by 32 or *)
(* more is undefined.                                                      *)
shift_c(value, type, amount, carry_in) ==
  IF amount = 0 THEN {[result |-> value, carry_out |-> carry_in]}
  ELSE IF type = "LSL" /\ amount < Width
       THEN {[result    |-> (value * 2^amount) % Modulus,
              carry_out |-> (value \div 2^(Width - amount)) % 2]}
  ELSE IF type = "LSR" /\ amount < Width
       THEN {[result    |-> value \div 2^amount,
              carry_out |-> (value \div 2^(amount - 1)) % 2]}
  ELSE Outcomes

(* Seeded fault: GE and LT look at the sign alone. *)
conditionPassed_NoOverflow(cond) ==
  LET held == CASE cond \div 2 = 0 -> N = 1
                [] cond \div 2 = 1 -> C = 1
                [] cond \div 2 = 2 -> N = 1
                [] cond \div 2 = 3 -> V = 1
                [] cond \div 2 = 4 -> C = 1 /\ Z = 0
                [] cond \div 2 = 5 -> N = 0
                [] cond \div 2 = 6 -> N = V /\ Z = 0
                [] cond \div 2 = 7 -> TRUE
  IN  IF cond % 2 = 1 THEN ~held ELSE held

conditionPassed(cond) ==
  LET held == CASE cond \div 2 = 0 -> N = 1
                [] cond \div 2 = 1 -> C = 1
                [] cond \div 2 = 2 -> N = 1
                [] cond \div 2 = 3 -> V = 1
                [] cond \div 2 = 4 -> C = 1 /\ Z = 0
                [] cond \div 2 = 5 -> N = V
                [] cond \div 2 = 6 -> N = V /\ Z = 0
                [] cond \div 2 = 7 -> TRUE
  IN  IF cond % 2 = 1 THEN ~held ELSE held

-----------------------------------------------------------------------------
(* What is known of the numbers compared: the orders of the unsigned and   *)
(* of the signed ones, whether they are equal and whether Z is about that. *)
(* A comparison of several words starts with the lowest.                   *)
Comparison == [above : BOOLEAN, signedAbove : BOOLEAN, equal : BOOLEAN,
               zero : BOOLEAN, words : {"one", "several"}]

Compare(x, y, zero) ==
  [above |-> x >= y, signedAbove |-> Signed(x) >= Signed(y), equal |-> x = y,
   zero |-> zero, words |-> "one"]

(* Of longer numbers the highest words decide, then the words below them,  *)
(* whose order is that of unsigned ones.                                   *)
CompareHigher(x, y) ==
  [above       |-> x > y \/ (x = y /\ compared.above),
   signedAbove |-> Signed(x) > Signed(y) \/ (x = y /\ compared.above),
   equal       |-> x = y /\ compared.equal,
   zero        |-> FALSE,
   words       |-> "several"]

None == [words |-> "none"]

-----------------------------------------------------------------------------
setAPSRValues(c, n, v, z) == C' = c /\ N' = n /\ V' = v /\ Z' = z

(* The flags of a sum. *)
SumFlags(sum) ==
  setAPSRValues(sum.carry_out, Negative(sum.result), sum.overflow, Bit(sum.result = 0))

(* Those of a value, which leave C and V alone. *)
ValueFlags(value) == setAPSRValues(C, Negative(value), V, Bit(value = 0))

(* AND and EOR, of which the flags describe the operand Rm. *)
AndEor(n, m) ==
  /\ executed' \in {"AND", "EOR"}
  /\ regs' = [regs EXCEPT ![n] = IF executed' = "AND" THEN BitAnd(regs[m], @)
                                 ELSE BitXor(regs[m], @)]
  /\ ValueFlags(regs[m])
  /\ compared' = None

(* LSR, ASR and ROR by the low byte of Rm. *)
ShiftRegister(n, m) ==
  /\ executed' \in {"LSR", "ASR", "ROR"}
  /\ \E shifted \in shift_c(regs[n], executed', regs[m] % ByteSpan, C) :
       /\ regs' = [regs EXCEPT ![n] = shifted.result]
       /\ setAPSRValues(shifted.carry_out, Negative(shifted.result), V,
                        Bit(shifted.result = 0))
  /\ compared' = None

(* Rd becomes the sum of x, y and the carry. *)
SumInto(d, x, y, carry_in) ==
  LET sum == addWithCarry(x, y, carry_in)
  IN  /\ regs' = [regs EXCEPT ![d] = sum.result]
      /\ SumFlags(sum)

(* The case of opcode 2, LSL (register), does what that of ADC does. *)
LslAdc(n, m) ==
  /\ executed' \in {"LSL", "ADC"}
  /\ SumInto(n, regs[n], regs[m], C)
  /\ compared' = None

(* Seeded fault: the borrow of the lower words is forgotten. *)
Sbc_NoBorrow(n, m) ==
  /\ executed' = "SBC"
  /\ SumInto(n, regs[n], Inverted(regs[m]), 1)
  /\ compared' = IF compared = None THEN None ELSE CompareHigher(regs[n], regs[m])

Sbc(n, m) ==
  /\ executed' = "SBC"
  /\ SumInto(n, regs[n], Inverted(regs[m]), C)
  /\ compared' = IF compared = None THEN None ELSE CompareHigher(regs[n], regs[m])

(* Rm is not looked at. *)
Neg(n) ==
  /\ executed' = "NEG"
  /\ SumInto(n, Inverted(regs[n]), 0, 1)
  /\ compared' = None

(* CMP, CMN and TST write no register. *)
Cmp(n, m) ==
  /\ executed' = "CMP"
  /\ SumFlags(addWithCarry(regs[n], Inverted(regs[m]), 1))
  /\ compared' = Compare(regs[n], regs[m], TRUE)
  /\ UNCHANGED regs

Cmn(n, m) ==
  /\ executed' = "CMN"
  /\ SumFlags(addWithCarry(regs[n], regs[m], 0))
  /\ compared' = None
  /\ UNCHANGED regs

Tst(n, m) ==
  /\ executed' = "TST"
  /\ ValueFlags(BitAnd(regs[n], regs[m]))
  /\ compared' = None
  /\ UNCHANGED regs

(* ORR and MUL; a product keeps its low word. *)
OrrMul(n, m) ==
  /\ executed' \in {"ORR", "MUL"}
  /\ LET result == IF executed' = "ORR" THEN BitOr(regs[n], regs[m])
                   ELSE (regs[n] * regs[m]) % Modulus
     IN  regs' = [regs EXCEPT ![n] = result] /\ ValueFlags(result)
  /\ compared' = None

(* BIC clears the bits of Rn in Rm and falls through into MVN, which reads *)
(* Rm again, cleared if it is Rn, overwrites what BIC has written and sets *)
(* the flags a second time.                                                *)
BicMvn(n, m) ==
  /\ executed' \in {"BIC", "MVN"}
  /\ LET entered == IF executed' = "BIC"
                    THEN [regs EXCEPT ![n] = BitAnd(regs[m], Inverted(@))] ELSE regs
     IN  regs' = [regs EXCEPT ![n] = Inverted(entered[m])] /\ ValueFlags(entered[m])
  /\ compared' = None

executeALUinstr ==
  \E n, m \in Regs :
    \/ AndEor(n, m) \/ ShiftRegister(n, m)
    \/ LslAdc(n, m) \/ Sbc(n, m) \/ Neg(n) \/ Cmp(n, m) \/ Cmn(n, m)
    \/ Tst(n, m) \/ OrrMul(n, m) \/ BicMvn(n, m)

-----------------------------------------------------------------------------
MovImmediate(d, imm) ==
  /\ executed' = "MOV #imm"
  /\ regs' = [regs EXCEPT ![d] = imm]
  /\ ValueFlags(imm)
  /\ compared' = None

(* Z says whether the immediate is zero. *)
CmpImmediate(d, imm) ==
  /\ executed' = "CMP #imm"
  /\ LET sum == addWithCarry(regs[d], Inverted(imm), 1)
     IN  setAPSRValues(sum.carry_out, Negative(sum.result), sum.overflow,
                       Bit(imm = 0))
  /\ compared' = Compare(regs[d], imm, FALSE)
  /\ UNCHANGED regs

(* Two empty cases. *)
AddSubImmediate(d, imm) ==
  /\ executed' \in {"ADD #imm8", "SUB #imm8"}
  /\ UNCHANGED <<regs, N, Z, C, V, compared>>

executeMovCmpAddSub ==
  \E d \in Regs, imm \in Immediates :
    MovImmediate(d, imm) \/ CmpImmediate(d, imm) \/ AddSubImmediate(d, imm)

(* Rd is taken from the bit that tells an immediate from a register: the   *)
(* result goes to r1 or r0.                                                *)
executeAddSub ==
  \E n \in Regs, I \in {0, 1} :
    \E operand2 \in IF I = 1 THEN Immediates ELSE {regs[s] : s \in Regs} :
      \/ /\ executed' = "ADD"
         /\ SumInto(I, regs[n], operand2, 0)
         /\ compared' = None
      \/ /\ executed' = "SUB"
         /\ SumInto(I, regs[n], Inverted(operand2), 1)
         /\ compared' = Compare(regs[n], operand2, TRUE)

(* Whatever the kind of the shift, decodeImmShift is asked for LSL. *)
executeShiftImmediate ==
  /\ executed' \in {"LSL #imm5", "LSR #imm5", "ASR #imm5"}
  /\ \E d, m \in Regs, imm5 \in 0 .. Width - 1 :
       \E shifted \in shift_c(regs[m], "LSL", imm5, C) :
         /\ regs' = [regs EXCEPT ![d] = shifted.result]
         /\ setAPSRValues(shifted.carry_out, Negative(shifted.result), V,
                          Bit(shifted.result = 0))
  /\ compared' = None

(* ADR and ADD (SP plus immediate) leave the flags alone.  SP and PC may be *)
(* anything; ADR does not look at the immediate.                           *)
executeAdr ==
  /\ executed' \in {"ADD SP", "ADR"}
  /\ \E d \in Regs, imm \in Immediates, base \in Word :
       LET result == IF executed' = "ADD SP"
                     THEN addWithCarry(base, (4 * imm) % Modulus, 0).result
                     ELSE 4 * (((base + 4) % Modulus) \div 4)
       IN  regs' = [regs EXCEPT ![d] = result]
  /\ UNCHANGED <<N, Z, C, V, compared>>

-----------------------------------------------------------------------------
Init ==
  /\ regs = [r \in Regs |-> 0]
  /\ N = 0 /\ Z = 0 /\ C = 0 /\ V = 0
  /\ executed = "" /\ compared = None

Next == \/ executeALUinstr
        \/ executeMovCmpAddSub
        \/ executeAddSub
        \/ executeShiftImmediate
        \/ executeAdr

Spec == Init /\ [][Next]_vars

-----------------------------------------------------------------------------
TypeOK ==
  /\ regs \in [Regs -> Word]
  /\ N \in {0, 1} /\ Z \in {0, 1} /\ C \in {0, 1} /\ V \in {0, 1}
  /\ compared = None \/ compared \in Comparison

EQ == 0   NE == 1   HS == 2   LO == 3   HI == 8
LS == 9   GE == 10  LT == 11  GT == 12  LE == 13

Orders ==
  /\ conditionPassed(HS) = compared.above
  /\ conditionPassed(LO) = ~compared.above
  /\ conditionPassed(GE) = compared.signedAbove
  /\ conditionPassed(LT) = ~compared.signedAbove

(* After any comparison, also the one with an immediate that spoils Z and  *)
(* the subtraction that writes its result elsewhere, the ordering          *)
(* conditions tell how the operands compare, as unsigned and as signed     *)
(* numbers, overflow included; those that need Z do when Z was set from    *)
(* the difference.                                                         *)
CompareDecides ==
  compared.words = "one" =>
    /\ Orders
    /\ compared.zero =>
         /\ conditionPassed(HI) = (compared.above /\ ~compared.equal)
         /\ conditionPassed(LS) = (~compared.above \/ compared.equal)
         /\ conditionPassed(GT) = (compared.signedAbove /\ ~compared.equal)
         /\ conditionPassed(LE) = (~compared.signedAbove \/ compared.equal)

(* A comparison of the lowest words and a chain of SBC on the others, the  *)
(* way compilers compare 64-bit numbers, decide the order of numbers of    *)
(* any length.                                                             *)
LongCompareDecides == compared.words = "several" => Orders

-----------------------------------------------------------------------------
(* What the source says of itself and the code does not do.                *)

(* README: "Cortex-M0 Thumb instruction execution": BEQ and BNE tell equal *)
(* numbers from different ones.  conditionPassed looks at N instead of Z.  *)
EqualityDecides ==
  (compared.words = "one" /\ compared.zero) =>
    /\ conditionPassed(EQ) = compared.equal
    /\ conditionPassed(NE) = ~compared.equal

(* executeALUinstr "BIC": the bits of Rm are cleared in Rn. *)
BicClearsBits ==
  [][\A n, m \in Regs :
       (BicMvn(n, m) /\ executed' = "BIC") =>
         regs'[n] = BitAnd(regs[n], Inverted(regs[m]))]_vars

(* executeALUinstr "LSL (register)": Rn is shifted, by nothing if Rm is 0. *)
LslShifts ==
  [][\A n, m \in Regs :
       (LslAdc(n, m) /\ executed' = "LSL" /\ regs[m] = 0) =>
         regs'[n] = regs[n]]_vars

(* executeMovCmpAddSub "ADDS Rd, #imm": the immediate is added. *)
AddsAddsImmediate ==
  [][\A d \in Regs, imm \in Immediates :
       (AddSubImmediate(d, imm) /\ executed' = "ADD #imm8") =>
         regs'[d] = (regs[d] + imm) % Modulus]_vars
=============================================================================
