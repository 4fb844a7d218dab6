---------------------------- MODULE DecoderProofs ----------------------------
(***************************************************************************)
(* What decode() and execute() agree on, for every sequence of halfwords.  *)
(***************************************************************************)
EXTENDS Decoder, WellFoundedInduction, TLAPS

-----------------------------------------------------------------------------
(* A chain of tests has a first one that holds as soon as one holds.       *)
LEMMA Smallest ==
  ASSUME NEW S \in SUBSET Nat, S # {}
  PROVE  \E k \in S : \A j \in S : k <= j
<1>1. IsWellFoundedOn(OpToRel(<, Nat), Nat)
  BY NatLessThanWellFounded
<1>2. PICK k \in S : \A j \in S : ~(<<j, k>> \in OpToRel(<, Nat))
  BY <1>1, WFMin
<1>3. \A j \in S : ~(j < k)
  <2> TAKE j \in S
  <2>1. j \in Nat /\ k \in Nat
    OBVIOUS
  <2>2. <<j, k>> \in Nat \X Nat /\ <<j, k>>[1] = j /\ <<j, k>>[2] = k
    BY <2>1
  <2> QED
    BY <1>2, <2>2, Zenon DEF OpToRel
<1> QED
  BY <1>3

LEMMA FirstMatchIsAMatch ==
  ASSUME NEW tests, DOMAIN tests \subseteq Nat, NEW halfword, NEW otherwise,
         Matches(tests, halfword) # {}
  PROVE  \E k \in DOMAIN tests : /\ Holds(tests[k], halfword)
                                 /\ FirstMatch(tests, halfword, otherwise)
                                      = tests[k].result
<1>1. Matches(tests, halfword) \in SUBSET Nat
  BY DEF Matches
<1>2. \E k \in Matches(tests, halfword) :
        \A j \in Matches(tests, halfword) : k <= j
  BY <1>1, Smallest
<1> DEFINE first == CHOOSE k \in Matches(tests, halfword) :
                      \A j \in Matches(tests, halfword) : k <= j
<1>3. first \in Matches(tests, halfword)
  BY <1>2
<1> QED
  BY <1>3 DEF FirstMatch, Matches

LEMMA ClassTable ==
  /\ DOMAIN ClassTests = 1 .. 16
  /\ \A k \in 1 .. 16 : ClassTests[k].result # "UNKNOWN"
  /\ \A k \in 1 .. 16 :
       ClassTests[k].result = "MISC" =>
         \/ ClassTests[k] = Test(223, 256, "MISC")
         \/ ClassTests[k] = Test(11, 4096, "MISC")
  BY DEF ClassTests, Test

LEMMA MiscTable ==
  /\ DOMAIN MiscTests = 1 .. 8
  /\ MiscTests[3] = Test(57088, 1, "SVC")
  /\ MiscTests[6] = Test(11, 4096, "PUSHPOP")
  BY DEF MiscTests, Test

LEMMA HalfwordRange ==
  ASSUME NEW halfword \in Halfwords
  PROVE  halfword \in Int /\ 0 <= halfword /\ halfword <= 65535
  BY SMTT(40) DEF Halfwords

(* The tests of classify leave no halfword of a 16-bit instruction out.    *)
LEMMA SomeTestHolds ==
  ASSUME NEW halfword \in Halfwords, ~is32bitInstruction(halfword)
  PROVE  Matches(ClassTests, halfword) # {}
<1> DEFINE C(k) == Holds(ClassTests[k], halfword)
<1>1. /\ ClassTests[2] = Test(13, 4096, "COND_BRANCH")
      /\ ClassTests[3] = Test(28, 2048, "UNCOND_BRANCH")
      /\ ClassTests[4] = Test(16, 1024, "ALU")
      /\ ClassTests[5] = Test(17, 1024, "HI_REG")
      /\ ClassTests[6] = Test(9, 2048, "LDR_LITERAL")
      /\ ClassTests[7] = Test(5, 4096, "LOAD_STORE_REG")
      /\ ClassTests[8] = Test(3, 8192, "LOAD_STORE_IMM")
      /\ ClassTests[9] = Test(8, 4096, "LOAD_STORE_HALF")
  BY DEF ClassTests
<1>2. /\ ClassTests[10] = Test(9, 4096, "SP_REL")
      /\ ClassTests[11] = Test(10, 4096, "ADDR")
      /\ ClassTests[12] = Test(11, 4096, "MISC")
      /\ ClassTests[13] = Test(12, 4096, "MULTIPLE")
      /\ ClassTests[15] = Test(0, 8192, "SHIFT_IMM")
      /\ ClassTests[16] = Test(1, 8192, "MOV_CMP_ADD_SUB")
  BY DEF ClassTests
<1>3. halfword \div 2048 \in 0 .. 28
  <2>1. halfword \div 2048 \in 0 .. 31
    BY HalfwordRange
  <2>2. halfword \div 2048 \notin {29, 30, 31}
    BY DEF is32bitInstruction
  <2> QED
    BY <2>1, <2>2
<1>4. \/ halfword \div 8192 \in {0, 1, 3}
      \/ halfword \div 4096 \in {5, 8, 9, 10, 11, 12, 13}
      \/ halfword \div 2048 \in {9, 28}
      \/ halfword \div 1024 \in {16, 17}
  <2> DEFINE q == halfword \div 2048
  <2>1. /\ halfword \div 8192 = q \div 4
        /\ halfword \div 4096 = q \div 2
        /\ q = 8 => halfword \div 1024 \in {16, 17}
    BY HalfwordRange
  <2>2. q \in 0 .. 28
    BY <1>3
  <2> HIDE DEF q
  <2>3. \/ q \in 0 .. 7 \/ q \in 12 .. 15
        \/ q \in {8, 9, 28}
        \/ q \in 10 .. 11 \/ q \in 16 .. 27
    BY <2>2
  <2> QED
    BY <2>1, <2>3 DEF q
<1>5. \E k \in 1 .. 16 : C(k)
  BY <1>1, <1>2, <1>4 DEF Holds, Test
<1> QED
  BY <1>5, ClassTable DEF Matches

LEMMA ClassOfHalfword ==
  ASSUME NEW halfword \in Halfwords
  PROVE  /\ classify(halfword) \in InstrClass
         /\ ~is32bitInstruction(halfword) => classify(halfword) # "UNKNOWN"
         /\ classify(halfword) = "MISC" =>
              halfword \div 256 = 223 \/ halfword \div 4096 = 11
<1>1. CASE Matches(ClassTests, halfword) = {}
  <2>1. classify(halfword) = "UNKNOWN"
    BY <1>1 DEF classify, FirstMatch
  <2> QED
    BY <2>1, <1>1, SomeTestHolds DEF InstrClass
<1>2. CASE Matches(ClassTests, halfword) # {}
  <2>1. PICK k \in DOMAIN ClassTests : /\ Holds(ClassTests[k], halfword)
                                       /\ classify(halfword) = ClassTests[k].result
    BY <1>2, FirstMatchIsAMatch, ClassTable DEF classify
  <2>2. classify(halfword) \in InstrClass /\ classify(halfword) # "UNKNOWN"
    BY <2>1, ClassTable DEF InstrClass
  <2>3. ASSUME classify(halfword) = "MISC"
        PROVE  halfword \div 256 = 223 \/ halfword \div 4096 = 11
    <3>1. k \in 1 .. 16 /\ ClassTests[k].result = "MISC"
      BY <2>1, <2>3, ClassTable
    <3>2. \/ ClassTests[k] = Test(223, 256, "MISC")
          \/ ClassTests[k] = Test(11, 4096, "MISC")
      BY <3>1, ClassTable
    <3> QED
      BY <2>1, <3>2 DEF Holds, Test
  <2> QED
    BY <2>2, <2>3
<1> QED
  BY <1>1, <1>2

(* A MISC instruction other than SVC with a number matches a test of       *)
(* handleMisc: the one for PUSH and POP takes all of 1011 that the ones    *)
(* before it left.                                                         *)
LEMMA KindOfMisc ==
  ASSUME NEW halfword \in Halfwords, NEW otherwise
  PROVE  /\ FirstMatch(MiscTests, halfword, otherwise) \in Misc_type \cup {otherwise}
         /\ halfword \div 4096 = 11 \/ halfword = 57088 =>
              /\ Matches(MiscTests, halfword) # {}
              /\ FirstMatch(MiscTests, halfword, otherwise)
                   = FirstMatch(MiscTests, halfword, Uninit)
              /\ FirstMatch(MiscTests, halfword, Uninit) \in Misc_type
<1>1. CASE Matches(MiscTests, halfword) = {}
  <2>1. ~Holds(MiscTests[3], halfword) /\ ~Holds(MiscTests[6], halfword)
    BY <1>1, MiscTable DEF Matches
  <2>2. halfword \div 4096 # 11 /\ halfword # 57088
    BY <2>1, MiscTable, HalfwordRange DEF Holds, Test
  <2> QED
    BY <1>1, <2>2 DEF FirstMatch
<1>2. CASE Matches(MiscTests, halfword) # {}
  <2>1. FirstMatch(MiscTests, halfword, otherwise)
          = FirstMatch(MiscTests, halfword, Uninit)
    BY <1>2 DEF FirstMatch
  <2>2. FirstMatch(MiscTests, halfword, Uninit) \in Misc_type
    BY <1>2, FirstMatchIsAMatch, MiscTable DEF Misc_type
  <2> QED
    BY <1>2, <2>1, <2>2
<1> QED
  BY <1>1, <1>2

LEMMA WordFacts ==
  ASSUME NEW word \in Instructions
  PROVE  /\ word \in Words /\ Narrow(word) \in Words
         /\ word.first \in Halfwords
         /\ word # Uninit /\ Narrow(word) # Uninit
<1>1. word \in Words
  BY InstructionsAssumption
<1>2. word.first \in Halfwords
  BY <1>1 DEF Words
<1>3. Narrow(word) \in Words
  <2>1. 0 \in Halfwords
    BY DEF Halfwords
  <2> QED
    BY <1>2, <2>1 DEF Narrow, Words
<1> QED
  BY <1>1, <1>2, <1>3, UninitAssumption

-----------------------------------------------------------------------------
(* Every member keeps to the values decode() gives it. *)
THEOREM TypeCorrect == Spec => []TypeOK
<1>1. Init => TypeOK
  BY DEF Init, TypeOK
<1>2. TypeOK /\ [Next]_vars => TypeOK'
  <2> SUFFICES ASSUME TypeOK, [Next]_vars PROVE TypeOK'
    OBVIOUS
  <2>1. CASE Decode
    <3>1. PICK word \in Instructions : /\ fetched' = word
                                       /\ Decode16(word) \/ Decode32(word)
      BY <2>1 DEF Decode
    <3>2. CASE Decode16(word)
      <4>1. classify(word.first) \in InstrClass
        BY WordFacts, ClassOfHalfword
      <4>2. /\ misc_type' \in Misc_type \cup {Uninit}
            /\ decodedInstruction' \in Words \cup {Uninit}
        <5>1. CASE instructionClass' = "MISC"
          <6>1. handleMisc(word)
            BY <3>2, <5>1 DEF Decode16
          <6>2. FirstMatch(MiscTests, word.first, misc_type)
                  \in Misc_type \cup {misc_type}
            BY WordFacts, KindOfMisc
          <6> QED
            BY <6>1, <6>2, WordFacts DEF handleMisc, TypeOK
        <5>2. CASE instructionClass' = "UNKNOWN"
          BY <3>2, <5>2 DEF Decode16, TypeOK
        <5>3. CASE instructionClass' \notin {"MISC", "UNKNOWN"}
          BY <3>2, <5>3, WordFacts DEF Decode16, TypeOK
        <5> QED
          BY <5>1, <5>2, <5>3
      <4> QED
        BY <2>1, <3>1, <3>2, <4>1, <4>2 DEF Decode, Decode16, TypeOK
    <3>3. CASE Decode32(word)
      BY <2>1, <3>1, <3>3 DEF Decode, Decode32, TypeOK
    <3> QED
      BY <3>1, <3>2, <3>3
  <2>2. CASE Execute
    BY <2>2 DEF Execute, decoded, TypeOK
  <2>3. CASE UNCHANGED vars
    BY <2>3 DEF vars, decoded, TypeOK
  <2> QED
    BY <2>1, <2>2, <2>3 DEF Next
<1> QED
  BY <1>1, <1>2, PTL DEF Spec

(* execute() never meets a 16-bit instruction without a class, on which    *)
(* the program would stay for ever.                                        *)
THEOREM EveryHalfwordClassified == Spec => []EveryHalfwordHasAClass
<1>1. Init => EveryHalfwordHasAClass
  <2>1. "UNKNOWN" \in InstrClass
    BY DEF InstrClass
  <2> QED
    BY <2>1, UninitAssumption DEF Init, EveryHalfwordHasAClass
<1>2. EveryHalfwordHasAClass /\ [Next]_vars => EveryHalfwordHasAClass'
  <2> SUFFICES ASSUME EveryHalfwordHasAClass, [Next]_vars
               PROVE  EveryHalfwordHasAClass'
    OBVIOUS
  <2>1. CASE Decode
    <3>1. PICK word \in Instructions : Decode16(word) \/ Decode32(word)
      BY <2>1 DEF Decode
    <3>2. CASE Decode16(word)
      BY <3>2, WordFacts, ClassOfHalfword DEF Decode16, EveryHalfwordHasAClass
    <3>3. CASE Decode32(word)
      BY <3>3 DEF Decode32, EveryHalfwordHasAClass
    <3> QED
      BY <3>1, <3>2, <3>3
  <2>2. CASE Execute
    BY <2>2 DEF Execute, decoded, EveryHalfwordHasAClass
  <2>3. CASE UNCHANGED vars
    BY <2>3 DEF vars, decoded, EveryHalfwordHasAClass
  <2> QED
    BY <2>1, <2>2, <2>3 DEF Next
<1> QED
  BY <1>1, <1>2, PTL DEF Spec

-----------------------------------------------------------------------------
(* What decode() leaves behind for a 16-bit instruction of the class MISC: *)
(* the kind, and the fields unless the kind has none.                      *)
LEMMA MiscDecoded ==
  ASSUME NEW word \in Instructions, Decode16(word), classify(word.first) = "MISC",
         ~Unrecognised(word)
  PROVE  /\ misc_type' = FirstMatch(MiscTests, word.first, Uninit)
         /\ misc_type' \in Misc_type
         /\ misc_type' \in WithoutFields \/ decodedInstruction' = Narrow(word)
<1>1. word.first \div 4096 = 11 \/ word.first = 57088
  BY WordFacts, ClassOfHalfword DEF Unrecognised
<1>2. handleMisc(word)
  BY DEF Decode16
<1>3. /\ Matches(MiscTests, word.first) # {}
      /\ FirstMatch(MiscTests, word.first, misc_type)
           = FirstMatch(MiscTests, word.first, Uninit)
      /\ FirstMatch(MiscTests, word.first, Uninit) \in Misc_type
  BY <1>1, WordFacts, KindOfMisc
<1> QED
  BY <1>2, <1>3 DEF handleMisc

(* What an instruction does depends on its own halfwords and on nothing    *)
(* that was decoded before it, as long as a test recognises it.            *)
THEOREM NothingIsStale == Spec => []DecodingIsMemoryless
<1>1. Init => DecodingIsMemoryless
  BY DEF Init, DecodingIsMemoryless
<1>2. DecodingIsMemoryless /\ [Next]_vars => DecodingIsMemoryless'
  <2> SUFFICES ASSUME DecodingIsMemoryless, [Next]_vars
               PROVE  DecodingIsMemoryless'
    OBVIOUS
  <2>1. CASE Decode
    <3>1. PICK word \in Instructions : /\ fetched' = word
                                       /\ Decode16(word) \/ Decode32(word)
      BY <2>1 DEF Decode
    <3> SUFFICES ASSUME ~Unrecognised(word)
                 PROVE  /\ IsAssigned'
                        /\ Operation' = Meaning(word)
                        /\ \/ Operation' \in Operandless
                           \/ Fields' = Operands(word)
      BY <3>1 DEF DecodingIsMemoryless
    <3>2. CASE Decode32(word)
      <4>1. word.first \div 2048 = 30
        BY <3>2 DEF Decode32, is32bitInstruction, Unrecognised
      <4>2. instructionType' = "THUMB2" /\ decodedBL' = word
        BY <3>2, <4>1 DEF Decode32
      <4>3. is32bitInstruction(word.first)
        BY <3>2 DEF Decode32
      <4>4. Operation' = "BL" /\ Fields' = word
        BY <4>2 DEF Operation, Fields
      <4>5. Meaning(word) = "BL"
        BY <4>3 DEF Meaning
      <4>6. IsAssigned'
        BY <4>2, WordFacts DEF IsAssigned
      <4> QED
        BY <4>3, <4>4, <4>5, <4>6 DEF Operands
    <3>3. CASE Decode16(word)
      <4>1. /\ instructionType' = "THUMB1" /\ instructionClass' = classify(word.first)
            /\ ~is32bitInstruction(word.first)
        BY <3>3 DEF Decode16
      <4>2. Fields' = decodedInstruction'
        BY <4>1 DEF Fields
      <4>3. CASE classify(word.first) = "MISC"
        <5>1. /\ misc_type' = FirstMatch(MiscTests, word.first, Uninit)
              /\ misc_type' \in Misc_type
              /\ misc_type' \in WithoutFields \/ decodedInstruction' = Narrow(word)
          BY <3>3, <4>3, MiscDecoded
        <5>2. Operation' = misc_type' /\ Meaning(word) = misc_type'
          BY <4>1, <4>3, <5>1 DEF Operation, Meaning
        <5>3. misc_type' # Uninit
          BY <5>1, UninitAssumption
        <5>4. misc_type' \in Operandless \/ decodedInstruction' = Narrow(word)
          BY <5>1 DEF WithoutFields, Operandless
        <5> QED
          BY <4>1, <4>2, <5>2, <5>3, <5>4, WordFacts DEF IsAssigned, Operands
      <4>4. CASE classify(word.first) # "MISC"
        <5>1. Operation' = classify(word.first) /\ Meaning(word) = Operation'
          BY <4>1, <4>4 DEF Operation, Meaning
        <5>2. classify(word.first) \in InstrClass \ {"UNKNOWN"}
          BY <4>1, WordFacts, ClassOfHalfword
        <5>3. decodedInstruction' = Narrow(word)
          BY <3>3, <4>4, <5>2 DEF Decode16
        <5> QED
          BY <4>1, <4>2, <5>1, <5>2, <5>3, WordFacts, UninitAssumption
             DEF IsAssigned, Operands
      <4> QED
        BY <4>3, <4>4
    <3> QED
      BY <3>1, <3>2, <3>3
  <2>2. CASE Execute
    BY <2>2 DEF Execute, DecodingIsMemoryless
  <2>3. CASE UNCHANGED vars
    BY <2>3 DEF vars, decoded, DecodingIsMemoryless, IsAssigned, Operation, Fields
  <2> QED
    BY <2>1, <2>2, <2>3 DEF Next
<1> QED
  BY <1>1, <1>2, PTL DEF Spec

-----------------------------------------------------------------------------
(* What the assembler put into the two halfwords of a BL is what BLOffset  *)
(* takes out of them.                                                      *)
LEMMA BLRoundTrip ==
  ASSUME NEW o \in Int, -16777216 <= o, o <= 16777214, o % 2 = 0
  PROVE  /\ EncodeBL(o).first \div 2048 = 30
         /\ BLOffset(EncodeBL(o)) = o
<1> DEFINE u   == o % 33554432
           S   == Bit(u, 16777216)
           I1  == Bit(u, 8388608)
           I2  == Bit(u, 4194304)
           J1  == IF I1 = S THEN 1 ELSE 0
           J2  == IF I2 = S THEN 1 ELSE 0
           imm10 == (u \div 4096) % 1024
           imm11 == (u \div 2) % 2048
           first == 61440 + 1024 * S + imm10
           second == 53248 + 8192 * J1 + 2048 * J2 + imm11
<1>1. /\ u \in Int /\ 0 <= u /\ u <= 33554431 /\ u % 2 = 0
      /\ o >= 0 => u = o
      /\ o < 0 => u = o + 33554432
  BY SMT
<1>2. /\ S \in 0 .. 1 /\ I1 \in 0 .. 1 /\ I2 \in 0 .. 1
      /\ imm10 \in 0 .. 1023 /\ imm11 \in 0 .. 2047
      /\ u = 16777216 * S + 8388608 * I1 + 4194304 * I2 + 4096 * imm10 + 2 * imm11
  BY <1>1, SMT DEF Bit
<1>3. S = 1 <=> u >= 16777216
  BY <1>1, SMT DEF Bit
<1> HIDE DEF u, S, I1, I2, imm10, imm11
<1>4. J1 \in 0 .. 1 /\ J2 \in 0 .. 1
  BY SMT
<1> HIDE DEF J1, J2
<1>5. Bit(first, 1024) = S /\ first % 1024 = imm10 /\ first \div 2048 = 30
  BY <1>2, SMT DEF Bit
<1>6. Bit(second, 8192) = J1 /\ Bit(second, 2048) = J2 /\ second % 2048 = imm11
  BY <1>2, <1>4, SMT DEF Bit
<1>7. EncodeBL(o) = [first |-> first, second |-> second]
  BY SMT DEF EncodeBL, u, S, J1, J2, I1, I2, imm10, imm11
<1>8. /\ (IF J1 = S THEN 1 ELSE 0) = I1
      /\ (IF J2 = S THEN 1 ELSE 0) = I2
  BY <1>2, SMT DEF J1, J2
<1> HIDE DEF first, second
<1>9. BLOffset(EncodeBL(o)) = sign_extend(u, 33554432)
  BY <1>2, <1>5, <1>6, <1>7, <1>8, SMT DEF BLOffset
<1>10. sign_extend(u, 33554432) = o
  BY <1>1, <1>2, <1>3, SMT DEF sign_extend
<1> QED
  BY <1>5, <1>7, <1>9, <1>10, SMT

LEMMA CondRoundTrip ==
  ASSUME NEW o \in Int, -256 <= o, o <= 254, o % 2 = 0, NEW cond \in 0 .. 14,
         NEW word \in Words, word.first = EncodeCond(cond, o)
  PROVE  word.first \div 256 \in 208 .. 222 /\ CondOffset(word) = o
<1>1. /\ (o % 512) \div 2 \in 0 .. 255
      /\ 2 * ((o % 512) \div 2) = IF o < 0 THEN o + 512 ELSE o
  OBVIOUS
<1> DEFINE imm8 == (o % 512) \div 2
<1>2. word.first = 53248 + 256 * cond + imm8
  BY DEF EncodeCond
<1> HIDE DEF imm8
<1>3. word.first \div 256 = 208 + cond /\ word.first % 256 = imm8
  BY <1>1, <1>2 DEF imm8
<1>4. CondOffset(word) = sign_extend(2 * imm8, 512)
  BY <1>3 DEF CondOffset
<1> QED
  BY <1>1, <1>3, <1>4 DEF imm8, sign_extend

LEMMA UncondRoundTrip ==
  ASSUME NEW o \in Int, -2048 <= o, o <= 2046, o % 2 = 0,
         NEW word \in Words, word.first = EncodeUncond(o)
  PROVE  word.first \div 2048 = 28 /\ UncondOffset(word) = o
<1>1. /\ (o % 4096) \div 2 \in 0 .. 2047
      /\ 2 * ((o % 4096) \div 2) = IF o < 0 THEN o + 4096 ELSE o
  OBVIOUS
<1> DEFINE imm11 == (o % 4096) \div 2
<1>2. word.first = 57344 + imm11
  BY DEF EncodeUncond
<1> HIDE DEF imm11
<1>3. word.first \div 2048 = 28 /\ word.first % 2048 = imm11
  BY <1>1, <1>2 DEF imm11
<1>4. UncondOffset(word) = sign_extend(2 * imm11, 4096)
  BY <1>3 DEF UncondOffset
<1> QED
  BY <1>1, <1>3, <1>4 DEF imm11, sign_extend

(* The tests of classify take a branch for a branch. *)
LEMMA ClassOfBranches ==
  ASSUME NEW halfword \in Halfwords
  PROVE  /\ halfword \div 256 \in 208 .. 222 => classify(halfword) = "COND_BRANCH"
         /\ halfword \div 2048 = 28 => classify(halfword) = "UNCOND_BRANCH"
<1> SUFFICES ASSUME halfword \div 256 \in 208 .. 222 \/ halfword \div 2048 = 28
             PROVE  classify(halfword) = IF halfword \div 2048 = 28
                                         THEN "UNCOND_BRANCH" ELSE "COND_BRANCH"
  BY HalfwordRange
<1>1. ~is32bitInstruction(halfword)
  BY HalfwordRange DEF is32bitInstruction
<1>2. PICK k \in 1 .. 16 : /\ Holds(ClassTests[k], halfword)
                           /\ classify(halfword) = ClassTests[k].result
  BY <1>1, SomeTestHolds, FirstMatchIsAMatch, ClassTable DEF classify
<1>3. k \in {2, 3}
  <2>1. /\ halfword \div 256 # 223 /\ halfword \div 4096 \in {13, 14}
        /\ halfword \div 1024 \in {52, 53, 54, 55, 56, 57}
        /\ halfword \div 2048 \in {26, 27, 28} /\ halfword \div 8192 \in {6, 7}
    BY HalfwordRange
  <2> QED
    BY <1>2, <2>1 DEF Holds, ClassTests, Test
<1>4. /\ ClassTests[2] = Test(13, 4096, "COND_BRANCH")
      /\ ClassTests[3] = Test(28, 2048, "UNCOND_BRANCH")
  BY DEF ClassTests
<1> QED
  BY <1>2, <1>3, <1>4, HalfwordRange DEF Holds, Test

LEMMA SomethingFetched == Spec => [](phase = "execute" => fetched \in Instructions)
<1> DEFINE F == phase = "execute" => fetched \in Instructions
<1>1. Init => F
  BY DEF Init
<1>2. F /\ [Next]_vars => F'
  BY DEF Next, Decode, Execute, vars
<1> QED
  BY <1>1, <1>2, PTL DEF Spec

(* A branch goes as far as its encoding says, whatever the offset and      *)
(* whatever was decoded before it.                                         *)
THEOREM BranchesArrive == Spec => []BranchesReachTheirTargets
<1>1. /\ phase = "execute" => fetched \in Instructions
      /\ DecodingIsMemoryless
      => BranchesReachTheirTargets
  <2> SUFFICES ASSUME phase = "execute", fetched \in Instructions,
                      DecodingIsMemoryless
               PROVE  BranchesReachTheirTargets
    BY DEF BranchesReachTheirTargets, Executing
  <2>1. fetched \in Words /\ fetched.first \in Halfwords
    BY WordFacts
  <2>2. ASSUME ~Unrecognised(fetched)
        PROVE  Operation = Meaning(fetched)
               /\ (Operation \in Operandless \/ Fields = Operands(fetched))
    BY <2>2 DEF DecodingIsMemoryless
  <2>3. ASSUME NEW o \in Even(-16777216, 16777214), fetched = EncodeBL(o)
        PROVE  Offset = o
    <3>1. o \in Int /\ -16777216 <= o /\ o <= 16777214 /\ o % 2 = 0
      BY OffsetsAssumption, SMT DEF Even
    <3>2. fetched.first \div 2048 = 30 /\ BLOffset(fetched) = o
      BY <2>3, <3>1, BLRoundTrip, SMT
    <3>3. ~Unrecognised(fetched) /\ is32bitInstruction(fetched.first)
      BY <2>1, <3>2, HalfwordRange, SMT
         DEF Unrecognised, is32bitInstruction
    <3>4. Operation = "BL" /\ Fields = fetched
      BY <2>2, <3>3, SMT DEF Meaning, Operands, Operandless
    <3> QED
      BY <3>2, <3>4, SMT DEF Offset
  <2>4. ASSUME NEW o \in Even(-256, 254), NEW cond \in 0 .. 14,
               fetched.first = EncodeCond(cond, o)
        PROVE  Offset = o
    <3>1. o \in Int /\ -256 <= o /\ o <= 254 /\ o % 2 = 0
      BY OffsetsAssumption DEF Even
    <3>2. fetched.first \div 256 \in 208 .. 222 /\ CondOffset(fetched) = o
      BY <2>1, <2>4, <3>1, CondRoundTrip
    <3>3. ~Unrecognised(fetched) /\ ~is32bitInstruction(fetched.first)
      BY <2>1, <3>2, HalfwordRange DEF Unrecognised, is32bitInstruction
    <3>4. Meaning(fetched) = "COND_BRANCH"
      BY <2>1, <3>2, <3>3, ClassOfBranches DEF Meaning
    <3>5. Operation = "COND_BRANCH" /\ Fields = Narrow(fetched)
      BY <2>2, <3>3, <3>4 DEF Operands, Operandless
    <3> QED
      BY <3>2, <3>5 DEF Offset, CondOffset, Narrow
  <2>5. ASSUME NEW o \in Even(-2048, 2046), fetched.first = EncodeUncond(o)
        PROVE  Offset = o
    <3>1. o \in Int /\ -2048 <= o /\ o <= 2046 /\ o % 2 = 0
      BY OffsetsAssumption DEF Even
    <3>2. fetched.first \div 2048 = 28 /\ UncondOffset(fetched) = o
      BY <2>1, <2>5, <3>1, UncondRoundTrip
    <3>3. ~Unrecognised(fetched) /\ ~is32bitInstruction(fetched.first)
      BY <2>1, <3>2, HalfwordRange DEF Unrecognised, is32bitInstruction
    <3>4. Meaning(fetched) = "UNCOND_BRANCH"
      BY <2>1, <3>2, <3>3, ClassOfBranches DEF Meaning
    <3>5. Operation = "UNCOND_BRANCH" /\ Fields = Narrow(fetched)
      BY <2>2, <3>3, <3>4 DEF Operands, Operandless
    <3> QED
      BY <3>2, <3>5 DEF Offset, UncondOffset, Narrow
  <2> QED
    BY <2>3, <2>4, <2>5, SMT DEF BranchesReachTheirTargets
<1> QED
  BY <1>1, SomethingFetched, NothingIsStale, PTL
=============================================================================
