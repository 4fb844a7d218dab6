------------------------------- MODULE Decoder -------------------------------
(***************************************************************************)
(* decode() and what execute() makes of it (src/cpu.cpp).                  *)
(*                                                                         *)
(* decode() leaves its result in members of the processor: the size, the   *)
(* class, the kind of a MISC instruction, the kind of a 32-bit instruction *)
(* and two unions.  It does not assign all of them every time, and         *)
(* execute() dispatches on whatever they hold.                             *)
(*                                                                         *)
(* Every test of classify and handleMisc compares some leading bits of the *)
(* halfword with a constant.  They are kept as tables in the order of the  *)
(* code: a test holds when the halfword divided by "unit" is "prefix".     *)
(* All structs of the union decodedInstruction pack their fields from bit  *)
(* 0 upwards, so that the union holds the bits of the halfword it was last *)
(* built from, under whichever name they are read.                         *)
(***************************************************************************)
EXTENDS Integers

CONSTANTS Instructions,   \* what the four bytes fetched may be
          Offsets,        \* branch offsets of interest to the properties
          Uninit          \* the value of a member nobody has assigned

Halfwords == 0 .. 65535

Words == [first : Halfwords, second : Halfwords]

(* What a function with a uint16_t parameter gets of a word. *)
Narrow(word) == [first |-> word.first, second |-> 0]

ASSUME InstructionsAssumption == Instructions \subseteq Words
ASSUME OffsetsAssumption == Offsets \subseteq Int

VARIABLES phase,
          fetched,                  \* fetched_instruction
          instructionType,
          decodedInstructionSize,
          instructionClass,
          misc_type,
          decodedInstruction,       \* what the union was built from
          decodedBL                 \* decodedThumb2Instruction

decoded == <<instructionType, decodedInstructionSize, instructionClass,
             misc_type, decodedInstruction, decodedBL>>

vars == <<phase, fetched, decoded>>

-----------------------------------------------------------------------------
Test(prefix, unit, result) ==
  [prefix |-> prefix, unit |-> unit, result |-> result]

Holds(test, halfword) == halfword \div test.unit = test.prefix

Matches(tests, halfword) == {k \in DOMAIN tests : Holds(tests[k], halfword)}

(* The result of the first test that holds, in the order of the code. *)
FirstMatch(tests, halfword, otherwise) ==
  IF Matches(tests, halfword) = {} THEN otherwise
  ELSE tests[CHOOSE k \in Matches(tests, halfword) :
               \A j \in Matches(tests, halfword) : k <= j].result

(* Seeded fault: unconditional branches are left out. *)
ClassTests_NoBranch ==
  << Test(223, 256, "MISC"),            Test(13, 4096, "COND_BRANCH"),
     Test(16, 1024, "ALU"),             Test(17, 1024, "HI_REG"),
     Test(9, 2048, "LDR_LITERAL"),      Test(5, 4096, "LOAD_STORE_REG"),
     Test(3, 8192, "LOAD_STORE_IMM"),   Test(8, 4096, "LOAD_STORE_HALF"),
     Test(9, 4096, "SP_REL"),           Test(10, 4096, "ADDR"),
     Test(11, 4096, "MISC"),            Test(12, 4096, "MULTIPLE"),
     Test(3, 2048, "ADD_SUB"),          Test(0, 8192, "SHIFT_IMM"),
     Test(1, 8192, "MOV_CMP_ADD_SUB") >>

ClassTests ==
  << Test(223, 256, "MISC"),            Test(13, 4096, "COND_BRANCH"),
     Test(28, 2048, "UNCOND_BRANCH"),
     Test(16, 1024, "ALU"),             Test(17, 1024, "HI_REG"),
     Test(9, 2048, "LDR_LITERAL"),      Test(5, 4096, "LOAD_STORE_REG"),
     Test(3, 8192, "LOAD_STORE_IMM"),   Test(8, 4096, "LOAD_STORE_HALF"),
     Test(9, 4096, "SP_REL"),           Test(10, 4096, "ADDR"),
     Test(11, 4096, "MISC"),            Test(12, 4096, "MULTIPLE"),
     Test(3, 2048, "ADD_SUB"),          Test(0, 8192, "SHIFT_IMM"),
     Test(1, 8192, "MOV_CMP_ADD_SUB") >>

classify(halfword) == FirstMatch(ClassTests, halfword, "UNKNOWN")

(* The test for PUSH and POP comes before, and includes, those for the     *)
(* last two.                                                               *)
MiscTests ==
  << Test(48960, 1, "SEV"),   Test(48896, 1, "NOP"),    Test(57088, 1, "SVC"),
     Test(1459, 32, "CPS"),   Test(176, 256, "SUBADD"), Test(11, 4096, "PUSHPOP"),
     Test(44, 1024, "EXTEND"), Test(46, 1024, "REV") >>

Misc_type == {MiscTests[k].result : k \in DOMAIN MiscTests}
InstrClass == {ClassTests[k].result : k \in DOMAIN ClassTests} \cup {"UNKNOWN"}

ASSUME UninitAssumption == Uninit \notin Words \cup InstrClass \cup Misc_type

(* These return from handleMisc without building a struct. *)
WithoutFields == {"SEV", "NOP", "SVC"}

is32bitInstruction(halfword) == halfword \div 2048 \in {29, 30, 31}

-----------------------------------------------------------------------------
Init ==
  /\ phase = "decode"
  /\ fetched = Uninit
  /\ instructionType = Uninit /\ decodedInstructionSize = Uninit
  /\ instructionClass = Uninit /\ misc_type = Uninit
  /\ decodedInstruction = Uninit /\ decodedBL = Uninit

(* Seeded fault: the size is in bits. *)
Decode32_SizeInBits(word) ==
  /\ is32bitInstruction(word.first)
  /\ instructionType' = "THUMB2" /\ decodedInstructionSize' = 32
  /\ decodedBL' = IF word.first \div 2048 = 30 THEN word ELSE decodedBL
  /\ UNCHANGED <<instructionClass, misc_type, decodedInstruction>>

(* Of the classes of 32-bit instructions only 11110 is looked at.  Bits 14 *)
(* to 12 of the first halfword, which decode() takes for op2, are ones     *)
(* there: the tests for MSR, MRS and the barriers, which want zeros, fail, *)
(* and the last one, for BL, holds.                                        *)
Decode32(word) ==
  /\ is32bitInstruction(word.first)
  /\ instructionType' = "THUMB2" /\ decodedInstructionSize' = 4
  /\ decodedBL' = IF word.first \div 2048 = 30 THEN word ELSE decodedBL
  /\ UNCHANGED <<instructionClass, misc_type, decodedInstruction>>

(* Seeded fault: a MISC instruction that matches no test is still stored,  *)
(* but one that matches is not.                                            *)
handleMisc_NotStored(word) ==
  LET type == FirstMatch(MiscTests, word.first, misc_type)
  IN  /\ misc_type' = type
      /\ UNCHANGED decodedInstruction

(* No test holds for SVC with a number other than zero. *)
handleMisc(word) ==
  LET type == FirstMatch(MiscTests, word.first, misc_type)
  IN  /\ misc_type' = type
      /\ decodedInstruction' =
           IF Matches(MiscTests, word.first) = {} \/ type \in WithoutFields
           THEN decodedInstruction ELSE Narrow(word)

Decode16(word) ==
  /\ ~is32bitInstruction(word.first)
  /\ instructionType' = "THUMB1" /\ decodedInstructionSize' = 2
  /\ instructionClass' = classify(word.first)
  /\ CASE instructionClass' = "MISC" -> handleMisc(word)
       [] instructionClass' = "UNKNOWN" -> UNCHANGED <<misc_type, decodedInstruction>>
       [] OTHER -> decodedInstruction' = Narrow(word) /\ UNCHANGED misc_type
  /\ UNCHANGED decodedBL

(* The bytes at the PC are whatever the program, or a jump into data, puts *)
(* there.                                                                  *)
Decode ==
  /\ phase = "decode" /\ phase' = "execute"
  /\ \E word \in Instructions :
       /\ fetched' = word
       /\ Decode16(word) \/ Decode32(word)

-----------------------------------------------------------------------------
Bit(halfword, weight) == (halfword \div weight) % 2

(* Seeded fault: the sign is one bit too low. *)
sign_extend_OffByOne(value, span) ==
  IF value >= span \div 4 THEN value - span ELSE value

(* A value of "bits" bits, span being 2^bits, as a signed number. *)
sign_extend(value, span) ==
  IF value >= span \div 2 THEN value - span ELSE value

(* I1 = !(J1 ^ S), I2 = !(J2 ^ S), and S:I1:I2:imm10:imm11:0 extended. *)
BLOffset(word) ==
  LET S     == Bit(word.first, 1024)
      I1    == IF Bit(word.second, 8192) = S THEN 1 ELSE 0
      I2    == IF Bit(word.second, 2048) = S THEN 1 ELSE 0
      imm10 == word.first % 1024
      imm11 == word.second % 2048
      imm25 == 16777216 * S + 8388608 * I1 + 4194304 * I2
                 + 4096 * imm10 + 2 * imm11
  IN  sign_extend(imm25, 33554432)

CondOffset(word) == sign_extend(2 * (word.first % 256), 512)

UncondOffset(word) == sign_extend(2 * (word.first % 2048), 4096)

(* What execute() dispatches on, and the struct its operands come from. *)
Operation == IF instructionType = "THUMB2" THEN "BL"
             ELSE IF instructionClass = "MISC" THEN misc_type
             ELSE instructionClass

Fields == IF instructionType = "THUMB2" THEN decodedBL ELSE decodedInstruction

(* SEV, NOP and CPS do nothing; executeSpecialInstructions is empty. *)
Operandless == {"SEV", "NOP", "SVC", "CPS", "HI_REG", "UNKNOWN"}

IsAssigned ==
  IF instructionType = "THUMB2" THEN decodedBL # Uninit
  ELSE /\ Operation # Uninit
       /\ Operation \in Operandless \/ decodedInstruction # Uninit

(* The distance a branch adds to the address of the next but one. *)
Offset == CASE Operation = "BL"            -> BLOffset(Fields)
            [] Operation = "COND_BRANCH"   -> CondOffset(Fields)
            [] Operation = "UNCOND_BRANCH" -> UncondOffset(Fields)
            [] OTHER                       -> 0

(* A switch over members nobody has assigned is undefined. *)
Execute ==
  /\ phase = "execute"
  /\ phase' = IF IsAssigned THEN "decode" ELSE "undefined"
  /\ UNCHANGED <<fetched, decoded>>

Next == Decode \/ Execute

Spec == Init /\ [][Next]_vars
-----------------------------------------------------------------------------
TypeOK ==
  /\ phase \in {"decode", "execute", "undefined"}
  /\ fetched \in Instructions \cup {Uninit}
  /\ instructionType \in {"THUMB1", "THUMB2", Uninit}
  /\ decodedInstructionSize \in {2, 4, Uninit}
  /\ instructionClass \in InstrClass \cup {Uninit}
  /\ misc_type \in Misc_type \cup {Uninit}
  /\ decodedInstruction \in Words \cup {Uninit}
  /\ decodedBL \in Instructions \cup {Uninit}

(* execute() is about to run on members that have been assigned. *)
Executing == phase = "execute" /\ IsAssigned

(* The tests of classify leave no 16-bit instruction out, whatever their   *)
(* order: execute() never meets UNKNOWN, for which it does not even move   *)
(* the PC, so that the loop would stay there for ever.                     *)
EveryHalfwordHasAClass == instructionClass # "UNKNOWN"

(* What handleMisc and the switch over the 32-bit classes let through. *)
Unrecognised(word) ==
  \/ word.first \div 256 = 223 /\ word.first # 57088
  \/ word.first \div 2048 \in {29, 31}

(* The operation a halfword alone stands for. *)
Meaning(word) ==
  IF is32bitInstruction(word.first) THEN "BL"
  ELSE IF classify(word.first) = "MISC"
       THEN FirstMatch(MiscTests, word.first, Uninit)
  ELSE classify(word.first)

(* The bits its operands are in. *)
Operands(word) == IF is32bitInstruction(word.first) THEN word ELSE Narrow(word)

(* Although the members outlive the instruction, execute() does the same   *)
(* for an instruction whatever was decoded before it, and with operands of *)
(* its own, unless no test recognised the instruction.                     *)
DecodingIsMemoryless ==
  (phase = "execute" /\ ~Unrecognised(fetched)) =>
    /\ IsAssigned
    /\ Operation = Meaning(fetched)
    /\ \/ Operation \in Operandless
       \/ Fields = Operands(fetched)

(* How ARMv6-M encodes the three branches. *)
EncodeBL(offset) ==
  LET u  == offset % 33554432
      S  == Bit(u, 16777216)
      J1 == IF Bit(u, 8388608) = S THEN 1 ELSE 0
      J2 == IF Bit(u, 4194304) = S THEN 1 ELSE 0
  IN  [first  |-> 61440 + 1024 * S + ((u \div 4096) % 1024),
       second |-> 53248 + 8192 * J1 + 2048 * J2 + ((u \div 2) % 2048)]

EncodeCond(cond, offset) == 53248 + 256 * cond + ((offset % 512) \div 2)

EncodeUncond(offset) == 57344 + ((offset % 4096) \div 2)

Even(low, high) == {o \in Offsets : o % 2 = 0 /\ low <= o /\ o <= high}

(* A branch reaches the offset its encoding stands for, in both directions *)
(* and up to the ends of its range, through the fields of the structs, the *)
(* inverted J bits and sign_extend.                                        *)
BranchesReachTheirTargets ==
  Executing =>
    /\ \A o \in Even(-16777216, 16777214) :
         fetched = EncodeBL(o) => Offset = o
    /\ \A o \in Even(-256, 254), cond \in 0 .. 14 :
         fetched.first = EncodeCond(cond, o) => Offset = o
    /\ \A o \in Even(-2048, 2046) :
         fetched.first = EncodeUncond(o) => Offset = o

-----------------------------------------------------------------------------
(* What comments of the source say and the code does not do.               *)

(* classify "1101 1111 xxxx xxxx": every one of these is a supervisor call *)
(* (README: "Emulates ARMv6-M Thumb instructions").                        *)
EverySVCIsOne ==
  (Executing /\ fetched.first \div 256 = 223) => Operation = "SVC"

(* handleMisc "EXTEND (UXTB/SXTB/UXTH/SXTH)": these extend. *)
ExtendIsRecognised ==
  (Executing /\ fetched.first \div 1024 = 44) => Operation = "EXTEND"

(* decode "ISB, DMS, DMB": a barrier does not branch. *)
BarriersAreRecognised ==
  (Executing /\ fetched.first = 62399) => Operation # "BL"
=============================================================================
