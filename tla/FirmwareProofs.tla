--------------------------- MODULE FirmwareProofs ---------------------------
(***************************************************************************)
(* From the file to main and hlprintf, for every file, layout of the       *)
(* firmware, size of the memories and call: the types are kept, memory     *)
(* holds what the segments say while and after they are loaded, main is    *)
(* reached or the boot stops and it finds .data and .bss as the file gives *)
(* them, and hlprintf prints what its format says, within the memory, the  *)
(* arguments and the buffer, and always goes on.                           *)
(***************************************************************************)
EXTENDS Semihosting, SequenceTheorems, WellFoundedInduction, TLAPS

-----------------------------------------------------------------------------
LEMMA LeastNumber ==
  ASSUME NEW S \in SUBSET Nat, S # {}
  PROVE  \E k \in S : \A j \in S : k <= j
<1>1. IsWellFoundedOn(OpToRel(<, Nat), Nat)
  BY NatLessThanWellFounded
<1>2. PICK k \in S : \A j \in S : ~(<<j, k>> \in OpToRel(<, Nat))
  BY <1>1, WFMin
<1>3. \A j \in S : ~(j < k)
  <2> TAKE j \in S
  <2>1. j \in Nat /\ k \in Nat
    OBVIOUS
  <2>2. <<j, k>> \in Nat \X Nat /\ <<j, k>>[1] = j /\ <<j, k>>[2] = k
    BY <2>1
  <2> QED
    BY <1>2, <2>2, Zenon DEF OpToRel
<1> QED
  BY <1>3

LEMMA Quotient ==
  ASSUME NEW n \in Nat, NEW d \in Nat, d > 0
  PROVE  n \div d \in Nat
  OBVIOUS

LEMMA FrontAndLast ==
  ASSUME NEW S, NEW s \in Seq(S), s # <<>>
  PROVE  Last(s) \in S /\ Front(s) \in Seq(S) /\ Len(Front(s)) <= Len(s)
<1>1. Len(s) \in Nat /\ Len(s) > 0 /\ \A k \in 1 .. Len(s) : s[k] \in S
  OBVIOUS
<1>2. /\ SubSeq(s, 1, Len(s) - 1) \in Seq(S)
      /\ Len(SubSeq(s, 1, Len(s) - 1)) <= Len(s)
  BY <1>1, SubSeqProperties
<1> QED
  BY <1>1, <1>2 DEF Last, Front

(* write_block and zero_memory on a vector. *)
LEMMA Overwritten ==
  ASSUME NEW D, D \subseteq Int, NEW vector \in [D -> Byte], NEW addr \in Nat,
         NEW bytes \in Seq(Byte)
  PROVE  Overwrite(vector, addr, bytes) \in [D -> Byte]
<1>1. \A a \in D : a \in Bytes(addr, Len(bytes)) => bytes[a - addr + 1] \in Byte
  <2> SUFFICES ASSUME NEW a \in D, a \in Bytes(addr, Len(bytes))
               PROVE  bytes[a - addr + 1] \in Byte
    OBVIOUS
  <2>1. a - addr + 1 \in 1 .. Len(bytes)
    BY DEF Bytes
  <2> QED
    BY <2>1
<1> QED
  BY <1>1 DEF Overwrite

LEMMA RegionsAreApart ==
  /\ RAM_SIZE \in Nat /\ FLASH_SIZE \in Nat /\ RAM_BASE \in Nat
  /\ FlashBytes = 0 .. RAM_SIZE - 1
  /\ RamBytes = RAM_BASE .. RAM_BASE + FLASH_SIZE - 1
  /\ \A a \in FlashBytes : a \in Int /\ a < RAM_BASE
  /\ \A a \in RamBytes : a \in Int /\ a >= RAM_BASE
  BY LoaderAssumption DEF FlashBytes, RamBytes, Bytes

-----------------------------------------------------------------------------
(* The inputs of the program, and the buffer of uart_put_uint, are what    *)
(* they should be at every moment.                                         *)
Inputs == /\ file.segments \in Seq(Segments) /\ layout \in Layouts
          /\ buffer \in Seq(0 .. 255)

Types == TypeOK /\ Inputs

LEMMA TypesInit == Init => Types
<1> SUFFICES ASSUME Init PROVE Types
  OBVIOUS
<1>1. /\ flash = [a \in FlashBytes |-> 0] /\ ram = [a \in RamBytes |-> 0]
      /\ i = 0 /\ phase = "header" /\ src = 0 /\ dst = 0 /\ fmt = 0 /\ value = 0
      /\ args = <<>> /\ uart = <<>> /\ buffer = <<>> /\ layout \in Layouts
  BY DEF Init, BootInit, LoaderInit
<1>2. file.segments \in Seq(Segments)
  <2>1. file.segments \in UNION {[1 .. n -> Segments] : n \in 0 .. MaxSegments}
    BY DEF Init, BootInit, LoaderInit
  <2>2. PICK n \in 0 .. MaxSegments : file.segments \in [1 .. n -> Segments]
    BY <2>1
  <2> QED
    BY <2>2, LoaderAssumption
<1>3. sp \in Word /\ msp \in Word /\ pc \in Word /\ pc[0] % 2 = 0
  BY DEF Init, BootInit, LoaderInit, Word, Byte
<1>4. flash \in [FlashBytes -> Byte] /\ ram \in [RamBytes -> Byte]
  BY <1>1 DEF Byte
<1>5. i \in 0 .. Len(file.segments)
  BY <1>1, <1>2
<1>6. LoaderTypeOK
  BY <1>3, <1>4, <1>5 DEF LoaderTypeOK
<1> QED
  BY <1>1, <1>2, <1>6 DEF Types, TypeOK, Inputs

(* What the types say, one fact at a time. *)
LEMMA TypeFacts ==
  ASSUME Types
  PROVE  /\ flash \in [FlashBytes -> Byte] /\ ram \in [RamBytes -> Byte]
         /\ file.segments \in Seq(Segments) /\ layout \in Layouts
         /\ i \in Nat /\ i <= Len(file.segments)
         /\ sp \in Word /\ msp \in Word /\ pc \in Word /\ pc[0] % 2 = 0
         /\ src \in Nat /\ dst \in Nat /\ fmt \in Nat /\ value \in Nat
         /\ args \in Seq(Nat) /\ uart \in Seq(0 .. 255)
         /\ buffer \in Seq(0 .. 255)
  BY DEF Types, TypeOK, Inputs, LoaderTypeOK

LEMMA LayoutFacts ==
  ASSUME NEW l \in Layouts
  PROVE  /\ l.sidata \in Nat /\ l.sdata \in Nat /\ l.edata \in Nat
         /\ l.sbss \in Nat /\ l.ebss \in Nat
         /\ RAM_BASE <= l.sdata /\ l.sdata <= l.edata /\ l.edata <= l.sbss
         /\ l.sbss <= l.ebss
  BY LayoutsAssumption

LEMMA SegmentFacts ==
  ASSUME Types, NEW j \in 1 .. Len(file.segments)
  PROVE  LET s == file.segments[j]
         IN  /\ s \in Segments /\ s.p_paddr \in Nat /\ s.data \in Seq(Byte)
             /\ s.p_memsz \in Nat /\ p_filesz(s) \in Nat
<1>1. file.segments[j] \in Segments
  BY TypeFacts
<1> QED
  BY <1>1, SegmentsAssumption DEF p_filesz

-----------------------------------------------------------------------------
(* load_elf, one program header after the other. *)
LEMMA SegmentWritten ==
  ASSUME Types, NEW s \in Segments, WriteSegment(s), i < Len(file.segments), file' = file
  PROVE  /\ flash' \in [FlashBytes -> Byte] /\ ram' \in [RamBytes -> Byte]
         /\ i' \in 0 .. Len(file.segments)
         /\ phase' \in {phase, "failed", "undefined"}
<1>1. s.p_paddr \in Nat /\ s.data \in Seq(Byte) /\ s.p_memsz \in Nat /\ p_filesz(s) \in Nat
  BY SegmentsAssumption DEF p_filesz
<1>2. flash \in [FlashBytes -> Byte] /\ ram \in [RamBytes -> Byte]
      /\ i \in Nat /\ i < Len(file.segments) /\ Len(file.segments) \in Nat
  BY TypeFacts
<1>3. FlashBytes \subseteq Int /\ RamBytes \subseteq Int
  BY RegionsAreApart
<1>4. CASE /\ ~Fits(s.p_paddr, p_filesz(s), 0, RAM_SIZE)
           /\ ~Fits(s.p_paddr, p_filesz(s), RAM_BASE, FLASH_SIZE)
  BY <1>2, <1>4 DEF WriteSegment, Fail
<1>5. CASE ~(/\ ~Fits(s.p_paddr, p_filesz(s), 0, RAM_SIZE)
             /\ ~Fits(s.p_paddr, p_filesz(s), RAM_BASE, FLASH_SIZE))
  <2> DEFINE written == Overwrite(ram, s.p_paddr, s.data)
             tail == s.p_paddr + p_filesz(s)
             size == s.p_memsz - p_filesz(s)
             zeros == [k \in 1 .. size |-> 0]
  <2>1. flash' = Overwrite(flash, s.p_paddr, s.data)
    BY <1>5 DEF WriteSegment
  <2>2. flash' \in [FlashBytes -> Byte] /\ written \in [RamBytes -> Byte]
    BY <2>1, <1>1, <1>2, <1>3, Overwritten
  <2>3. CASE s.p_memsz > p_filesz(s)
    <3>1. zero_memory(written, tail, size)
      BY <1>5, <2>3 DEF WriteSegment
    <3>2. zeros \in Seq(Byte) /\ tail \in Nat
      <4>1. size \in Nat /\ tail \in Nat
        BY <1>1, <2>3
      <4>2. zeros \in [1 .. size -> Byte]
        BY DEF Byte
      <4> HIDE DEF zeros, size
      <4> QED
        BY <4>1, <4>2
    <3>3. Overwrite(written, tail, zeros) \in [RamBytes -> Byte]
      <4> HIDE DEF written, zeros, tail
      <4> QED
        BY <2>2, <3>2, <1>3, Overwritten
    <3>4. \/ ram' = Overwrite(written, tail, zeros) /\ i' = i + 1 /\ phase' = phase
          \/ ram' = written /\ i' = i /\ phase' = "undefined"
      BY <3>1, Zenon DEF zero_memory
    <3> HIDE DEF written, zeros, tail
    <3> QED
      BY <3>3, <3>4, <2>2, <1>2
  <2>4. CASE ~(s.p_memsz > p_filesz(s))
    BY <1>5, <2>4, <2>2, <1>2 DEF WriteSegment
  <2> QED
    BY <2>3, <2>4
<1> QED
  BY <1>4, <1>5

LEMMA LoaderTypes ==
  Types /\ LoaderNext /\ UNCHANGED <<layout, src, dst, printVars>> => Types'
<1> SUFFICES ASSUME Types, LoaderNext, UNCHANGED <<layout, src, dst, printVars>>
             PROVE  Types'
  OBVIOUS
<1>0. UNCHANGED <<layout, src, dst, call, fmt, args, value, buffer, uart>>
  BY DEF printVars
<1>1. CASE ReadHeader
  BY <1>0, <1>1 DEF ReadHeader, Fail, Types, TypeOK, Inputs, LoaderTypeOK
<1>2. CASE LoadSegment
  <2> DEFINE s == file.segments[i + 1]
  <2>1. s \in Segments /\ i \in Nat /\ i < Len(file.segments) /\ Len(file.segments) \in Nat
    BY <1>2, TypeFacts, SegmentFacts DEF LoadSegment
  <2>2. UNCHANGED <<file, sp, msp, pc>> /\ phase = "segments"
    BY <1>2 DEF LoadSegment
  <2>3. WriteSegment(s) \/ Fail \/ (i' = i + 1 /\ UNCHANGED <<flash, ram, phase>>)
    BY <1>2, Zenon DEF LoadSegment
  <2>4. /\ flash' \in [FlashBytes -> Byte] /\ ram' \in [RamBytes -> Byte]
        /\ i' \in 0 .. Len(file.segments)
        /\ phase' \in {phase, "failed", "undefined"}
    <3>1. CASE WriteSegment(s)
      <4> HIDE DEF s
      <4> QED
        BY <3>1, <2>1, <2>2, SegmentWritten
    <3>2. CASE Fail
      BY <3>2, <2>1, TypeFacts DEF Fail
    <3>3. CASE i' = i + 1 /\ UNCHANGED <<flash, ram, phase>>
      BY <3>3, <2>1, TypeFacts
    <3> QED
      BY <2>3, <3>1, <3>2, <3>3
  <2>5. LoaderTypeOK'
    BY <2>2, <2>4 DEF Types, TypeOK, LoaderTypeOK
  <2> QED
    BY <1>0, <2>2, <2>4, <2>5 DEF Types, TypeOK, Inputs
<1>3. CASE SetRegisters
  <2>1. read32Flash(0) \in Word /\ read32Flash(4) \in Word
    <3>1. \A a \in {0, 4} : \A k \in 0 .. 3 : a + k \in FlashBytes
      BY LoaderAssumption, RegionsAreApart
    <3> QED
      BY <3>1, TypeFacts DEF read32Flash, Word
  <2>2. \A b \in Byte : b - (b % 2) \in Byte /\ (b - (b % 2)) % 2 = 0
    BY DEF Byte
  <2>3. sp' \in Word /\ msp' \in Word /\ pc' \in Word /\ pc'[0] % 2 = 0
    <3>1. sp' = read32Flash(0) /\ msp' = read32Flash(0)
          /\ pc' = [read32Flash(4) EXCEPT ![0] = @ - (@ % 2)]
      BY <1>3 DEF SetRegisters
    <3>2. read32Flash(4)[0] \in Byte
      BY <2>1 DEF Word
    <3>3. \A w \in Word, b \in Byte : [w EXCEPT ![0] = b] \in Word /\ [w EXCEPT ![0] = b][0] = b
      BY DEF Word
    <3> HIDE DEF Word
    <3> QED
      BY <3>1, <3>2, <3>3, <2>1, <2>2
  <2> QED
    BY <1>0, <1>3, <2>3 DEF SetRegisters, Types, TypeOK, Inputs, LoaderTypeOK
<1> QED
  BY <1>1, <1>2, <1>3 DEF LoaderNext

-----------------------------------------------------------------------------
(* Reset_Handler, one word after the other. *)
LEMMA WordIsPut ==
  ASSUME Types, NEW word \in Word, Put(word)
  PROVE  /\ ram' \in [RamBytes -> Byte] /\ phase' \in {phase, "undefined"}
         /\ dst' \in {dst, dst + 4}
<1>1. [k \in 1 .. 4 |-> word[k - 1]] \in Seq(Byte)
  <2>1. \A k \in 1 .. 4 : word[k - 1] \in Byte
    BY DEF Word
  <2> QED
    BY <2>1
<1>2. RamBytes \subseteq Int
  BY RegionsAreApart
<1>3. Overwrite(ram, dst, [k \in 1 .. 4 |-> word[k - 1]]) \in [RamBytes -> Byte]
  BY <1>1, <1>2, TypeFacts, Overwritten
<1> QED
  BY <1>3, TypeFacts DEF Put

LEMMA FlashWord ==
  ASSUME Types, NEW a \in Nat, Fits(a, 4, 0, RAM_SIZE)
  PROVE  /\ read32Flash(a) \in Word
         /\ \A k \in 0 .. 3 : a + k \in FlashBytes /\ read32Flash(a)[k] = flash[a + k]
<1>1. \A k \in 0 .. 3 : a + k \in FlashBytes
  BY RegionsAreApart DEF Fits
<1> QED
  BY <1>1, TypeFacts DEF read32Flash, Word

LEMMA BootTypes ==
  ASSUME Types, UNCHANGED printVars,
         \/ EnterResetHandler \/ CopyData \/ StartZeroing \/ ZeroBss \/ CallMain
  PROVE  Types'
<1>0. UNCHANGED <<call, fmt, args, value, buffer, uart>>
  BY DEF printVars
<1>1. layout \in Layouts /\ src \in Nat /\ dst \in Nat
      /\ layout.sidata \in Nat /\ layout.sdata \in Nat /\ layout.sbss \in Nat
  BY TypeFacts, LayoutFacts
<1>2. UNCHANGED <<flash, file, i, sp, msp, pc, layout>>
  BY DEF EnterResetHandler, CopyData, StartZeroing, ZeroBss, CallMain
<1>3. /\ ram' \in [RamBytes -> Byte] /\ src' \in Nat /\ dst' \in Nat
      /\ phase' \in {"copying", "zeroing", "main", "undefined"}
  <2>1. CASE EnterResetHandler
    BY <1>1, <2>1, TypeFacts DEF EnterResetHandler
  <2>2. CASE CopyData
    <3>1. CASE Fits(src, 4, 0, RAM_SIZE)
      <4>1. Put(read32Flash(src)) /\ src' = src + 4 /\ phase = "copying"
        BY <2>2, <3>1 DEF CopyData
      <4>2. read32Flash(src) \in Word
        BY <1>1, <3>1, FlashWord
      <4> QED
        BY <1>1, <4>1, <4>2, WordIsPut
    <3>2. CASE ~Fits(src, 4, 0, RAM_SIZE)
      BY <1>1, <2>2, <3>2, TypeFacts DEF CopyData
    <3> QED
      BY <3>1, <3>2
  <2>3. CASE StartZeroing
    BY <1>1, <2>3, TypeFacts DEF StartZeroing
  <2>4. CASE ZeroBss
    <3>1. Put([k \in 0 .. 3 |-> 0]) /\ src' = src /\ phase = "zeroing"
      BY <2>4 DEF ZeroBss
    <3>2. [k \in 0 .. 3 |-> 0] \in Word
      BY DEF Word, Byte
    <3> QED
      BY <1>1, <3>1, <3>2, WordIsPut
  <2>5. CASE CallMain
    BY <1>1, <2>5, TypeFacts DEF CallMain
  <2> QED
    BY <2>1, <2>2, <2>3, <2>4, <2>5
<1>4. LoaderTypeOK'
  BY <1>2, <1>3 DEF Types, TypeOK, LoaderTypeOK
<1> QED
  BY <1>0, <1>2, <1>3, <1>4 DEF Types, TypeOK, Inputs

-----------------------------------------------------------------------------
(* hlprintf.  What it sends are bytes. *)
LEMMA NumeralIsAByte ==
  ASSUME NEW digit \in 0 .. 15
  PROVE  Numeral(digit) \in 0 .. 255
  BY DEF Numeral

LEMMA HexIsBytes ==
  ASSUME NEW number \in Nat
  PROVE  Hex(number) \in Seq(0 .. 255)
<1>1. Nibbles \in Nat /\ Nibble \in 2 .. 16
  BY DigitsAssumption
<1>2. \A k \in 1 .. Nibbles :
        Numeral((number \div Nibble^(Nibbles - k)) % Nibble) \in 0 .. 255
  <2> TAKE k \in 1 .. Nibbles
  <2> DEFINE weight == Nibble^(Nibbles - k)
             quotient == number \div weight
  <2>1. weight \in Nat /\ weight > 0
    <3>1. Nibbles - k \in 0 .. Nibbles
      BY <1>1
    <3>2. weight \in Nat \ {0}
      BY <3>1, PowersAssumption, Zenon
    <3> HIDE DEF weight
    <3> QED
      BY <3>2
  <2>2. quotient \in Nat
    <3> HIDE DEF weight
    <3> QED
      BY <2>1
  <2>3. quotient % Nibble \in 0 .. 15
    <3> HIDE DEF quotient
    <3> QED
      BY <1>1, <2>2
  <2> HIDE DEF quotient
  <2> QED
    BY <2>3, NumeralIsAByte DEF quotient, weight
<1>3. Hex(number) \in [1 .. Nibbles -> 0 .. 255]
  BY <1>2 DEF Hex
<1> QED
  BY <1>1, <1>3

(* A string in memory ends at the first NUL, and its bytes are bytes. *)
LEMMA StringIsBytes ==
  ASSUME Types, NEW address \in Nat, IsString(address)
  PROVE  String(address) \in Seq(0 .. 255)
<1>1. PICK a \in RamBytes : /\ address <= a /\ ram[a] = NUL
                            /\ address .. a \subseteq RamBytes
  BY DEF IsString
<1>2. a \in Int /\ address \in RamBytes
  <2>1. a \in Int
    BY RegionsAreApart
  <2> QED
    BY <1>1, <2>1
<1> DEFINE Zeros == {n \in Nat : address + n <= a /\ ram[address + n] = NUL}
<1>3. a - address \in Zeros
  BY <1>1, <1>2
<1>4. PICK n \in Zeros : \A k \in Zeros : n <= k
  <2>1. Zeros \in SUBSET Nat /\ Zeros # {}
    BY <1>3
  <2> HIDE DEF Zeros
  <2> QED
    BY <2>1, LeastNumber
<1> DEFINE IsLength(m) == /\ ram[address + m] = NUL
                          /\ \A k \in 0 .. m - 1 : ram[address + k] # NUL
           length == CHOOSE m \in 0 .. FLASH_SIZE : IsLength(m)
<1>5. n \in 0 .. FLASH_SIZE /\ n \in Nat /\ address + n <= a
  <2>1. address >= RAM_BASE /\ a < RAM_BASE + FLASH_SIZE
    BY <1>2, RegionsAreApart
  <2> QED
    BY <2>1, <1>2, RegionsAreApart
<1>6. IsLength(n)
  <2>1. \A k \in 0 .. n - 1 : ram[address + k] # NUL
    <3> SUFFICES ASSUME NEW k \in 0 .. n - 1, ram[address + k] = NUL
                 PROVE  FALSE
      OBVIOUS
    <3>1. k \in Zeros
      BY <1>2, <1>5
    <3> HIDE DEF Zeros
    <3> QED
      BY <1>4, <1>5, <3>1
  <2> QED
    BY <2>1
<1>7. length \in 0 .. FLASH_SIZE /\ IsLength(length)
  <2> HIDE DEF IsLength
  <2> QED
    BY <1>5, <1>6
<1>8. length <= n
  <2> SUFFICES ASSUME n < length PROVE FALSE
    BY <1>5, <1>7
  <2>1. n \in 0 .. length - 1
    BY <1>5, <1>7
  <2> HIDE DEF length, Zeros
  <2> QED
    BY <1>6, <1>7, <2>1
<1>9. \A k \in 1 .. length : ram[address + k - 1] \in 0 .. 255
  <2> TAKE k \in 1 .. length
  <2>1. address + k - 1 \in address .. a
    <3> HIDE DEF length, Zeros
    <3> QED
      BY <1>2, <1>5, <1>7, <1>8
  <2>2. address + k - 1 \in RamBytes
    BY <1>1, <2>1
  <2> HIDE DEF length
  <2> QED
    BY <2>2, TypeFacts, SMTT(30) DEF Byte
<1>10. String(address) = [k \in 1 .. length |-> ram[address + k - 1]]
  BY Zenon DEF String
<1> HIDE DEF length
<1> QED
  BY <1>7, <1>9, <1>10

LEMMA ArgumentFacts ==
  ASSUME Types, args # <<>>
  PROVE  Head(args) \in Nat /\ Tail(args) \in Seq(Nat)
  BY TypeFacts

LEMMA HlprintfTypes ==
  ASSUME Types, Hlprintf, UNCHANGED <<flash, ram, file, i, sp, msp, pc, layout, src, dst>>
  PROVE  Types'
<1>1. /\ args \in Seq(Nat) /\ uart \in Seq(0 .. 255) /\ buffer \in Seq(0 .. 255)
      /\ fmt \in Nat /\ value \in Nat
      /\ \A a \in RamBytes : ram[a] \in 0 .. 255
  BY TypeFacts DEF Byte
<1>2. \A bytes \in Seq(0 .. 255) : uart \o bytes \in Seq(0 .. 255)
  BY <1>1
<1>3. \A b \in 0 .. 255 : uart \o <<b>> \in Seq(0 .. 255)
  BY <1>1
<1>4. /\ fmt' \in Nat /\ value' \in Nat /\ args' \in Seq(Nat)
      /\ uart' \in Seq(0 .. 255) /\ buffer' \in Seq(0 .. 255)
      /\ phase' \in {"undefined", "format", "conversion", "digits", "returned"}
  <2>1. CASE CallHlprintf
    <3>1. call' \in Calls /\ fmt' = call'.fmt /\ args' = call'.args /\ phase' = "format"
          /\ UNCHANGED <<value, buffer, uart>>
      BY <2>1 DEF CallHlprintf
    <3>2. call'.fmt \in Nat /\ call'.args \in Seq(0 .. MaxValue) /\ MaxValue \in Nat
      BY <3>1, CallsAssumption
    <3>3. call'.args \in Seq(Nat)
      BY <3>2
    <3> QED
      BY <1>1, <3>1, <3>2, <3>3
  <2>2. CASE LeaveMemory
    BY <1>1, <2>2 DEF LeaveMemory, printVars
  <2>3. CASE Literal
    <3>1. uart' = uart \o <<ram[fmt]>> /\ fmt \in RamBytes /\ fmt' = fmt + 1
          /\ UNCHANGED <<phase, args, value, buffer>> /\ phase = "format"
      BY <2>3 DEF Literal, uart_puts
    <3>2. <<ram[fmt]>> \in Seq(0 .. 255)
      BY <1>1, <3>1
    <3>3. uart' \in Seq(0 .. 255)
      BY <1>1, <3>1, <3>2
    <3> QED
      BY <1>1, <3>1, <3>3
  <2>4. CASE PercentSign
    BY <1>1, <2>4 DEF PercentSign
  <2>5. CASE NoArgument
    <3>1. uart' = uart \o <<IF ram[fmt] = Percent THEN Percent ELSE QuestionMark>>
          /\ fmt' = fmt + 1 /\ UNCHANGED <<args, value, buffer>> /\ phase' = "format"
      BY <2>5 DEF NoArgument, uart_puts
    <3>2. (IF ram[fmt] = Percent THEN Percent ELSE QuestionMark) \in 0 .. 255
      BY DEF Percent, QuestionMark
    <3>3. <<IF ram[fmt] = Percent THEN Percent ELSE QuestionMark>> \in Seq(0 .. 255)
      BY <3>2
    <3>4. uart' \in Seq(0 .. 255)
      BY <1>1, <3>1, <3>3
    <3> QED
      BY <1>1, <3>1, <3>4
  <2>6. CASE BadArgument
    BY <1>1, <2>6 DEF BadArgument, printVars
  <2>7. CASE Argument
    <3> DEFINE argument == Head(args)
    <3>1. args # <<>> /\ args' = Tail(args) /\ fmt' = fmt + 1 /\ phase' = "format"
          /\ UNCHANGED <<value, buffer>>
      BY <2>7 DEF Argument
    <3>2. argument \in Nat /\ args' \in Seq(Nat)
      BY <3>1, ArgumentFacts
    <3>3. \/ uart' = uart \o <<argument % 256>>
          \/ IsString(argument) /\ uart' = uart \o String(argument)
          \/ uart' = uart \o (<<48, 120>> \o Hex(argument))
          \/ uart' = uart \o <<Numeral(0)>>
      BY <2>7 DEF Argument, uart_puts
    <3> HIDE DEF argument
    <3>4. argument % 256 \in 0 .. 255 /\ Numeral(0) \in 0 .. 255
      BY <3>2 DEF Numeral
    <3>5. <<48, 120>> \o Hex(argument) \in Seq(0 .. 255)
      <4>1. Hex(argument) \in Seq(0 .. 255) /\ <<48, 120>> \in Seq(0 .. 255)
        BY <3>2, HexIsBytes
      <4> QED
        BY <4>1
    <3>6. IsString(argument) => String(argument) \in Seq(0 .. 255)
      BY <3>2, StringIsBytes
    <3>7. uart' \in Seq(0 .. 255)
      <4>1. uart \o <<argument % 256>> \in Seq(0 .. 255)
            /\ uart \o <<Numeral(0)>> \in Seq(0 .. 255)
        BY <1>3, <3>4
      <4>2. uart \o (<<48, 120>> \o Hex(argument)) \in Seq(0 .. 255)
        BY <1>2, <3>5, Zenon
      <4>3. IsString(argument) => uart \o String(argument) \in Seq(0 .. 255)
        BY <1>2, <3>6, Zenon
      <4> QED
        BY <3>3, <4>1, <4>2, <4>3, ZenonT(40)
    <3> QED
      BY <1>1, <3>1, <3>2, <3>7
  <2>8. CASE EnterPutUint
    <3>1. args # <<>> /\ value' = Head(args) /\ args' = Tail(args) /\ fmt' = fmt + 1
          /\ phase' = "digits" /\ UNCHANGED <<buffer, uart>>
      BY <2>8 DEF EnterPutUint
    <3> QED
      BY <1>1, <3>1, ArgumentFacts
  <2>9. CASE CollectDigit
    <3>1. /\ buffer' = Append(buffer, Numeral(value % Base)) /\ value' = value \div Base
          /\ phase' \in {"digits", "undefined"} /\ UNCHANGED <<fmt, args, uart>>
      BY <2>9 DEF CollectDigit
    <3>2. Base \in Nat /\ Base >= 2 /\ Base <= 10
      BY DigitsAssumption
    <3>3. value % Base \in 0 .. 15 /\ value \div Base \in Nat
      <4>1. value % Base \in 0 .. Base - 1
        BY <1>1, <3>2
      <4>2. value \div Base \in Nat
        <5>1. Base \in Nat /\ Base > 0
          BY <3>2
        <5> QED
          BY <1>1, <5>1, Quotient, Zenon
      <4> QED
        BY <3>2, <4>1, <4>2
    <3>4. Numeral(value % Base) \in 0 .. 255
      BY <3>3, NumeralIsAByte
    <3> QED
      BY <1>1, <3>1, <3>3, <3>4
  <2>10. CASE WriteDigit
    <3>1. /\ buffer # <<>> /\ uart' = uart \o <<Last(buffer)>> /\ buffer' = Front(buffer)
          /\ phase' \in {"digits", "format"} /\ UNCHANGED <<fmt, args, value>>
      BY <2>10 DEF WriteDigit, uart_puts
    <3>2. Last(buffer) \in 0 .. 255 /\ Front(buffer) \in Seq(0 .. 255)
      BY <1>1, <3>1, FrontAndLast
    <3> QED
      BY <1>1, <1>3, <3>1, <3>2
  <2>11. CASE Return
    BY <1>1, <2>11 DEF Return, printVars
  <2> QED
    BY <2>1, <2>2, <2>3, <2>4, <2>5, <2>6, <2>7, <2>8, <2>9, <2>10, <2>11 DEF Hlprintf
<1>5. LoaderTypeOK'
  BY DEF Types, TypeOK, LoaderTypeOK
<1>6. src' \in Nat /\ dst' \in Nat /\ file' = file /\ layout' \in Layouts
  BY TypeFacts
<1>7. file'.segments \in Seq(Segments)
  BY <1>6, TypeFacts
<1> QED
  BY <1>4, <1>5, <1>6, <1>7 DEF Types, TypeOK, Inputs

LEMMA TypesNext == Types /\ [Next]_vars => Types'
<1> SUFFICES ASSUME Types, [Next]_vars PROVE Types'
  OBVIOUS
<1>1. CASE LoaderNext /\ UNCHANGED <<layout, src, dst, printVars>>
  BY <1>1, LoaderTypes
<1>2. CASE /\ EnterResetHandler \/ CopyData \/ StartZeroing \/ ZeroBss \/ CallMain
           /\ UNCHANGED printVars
  BY <1>2, BootTypes
<1>3. CASE /\ Hlprintf
           /\ UNCHANGED <<flash, ram, file, i, sp, msp, pc, layout, src, dst>>
  BY <1>3, HlprintfTypes
<1>4. CASE UNCHANGED vars
  BY <1>4 DEF vars, bootVars, loaderVars, printVars, Types, TypeOK, Inputs, LoaderTypeOK
<1> QED
  BY <1>1, <1>2, <1>3, <1>4 DEF Next, BootNext

(* The vectors of the processor keep their extents and hold bytes, sp, msp *)
(* and pc are words and the PC is even, and only bytes go to the UART,     *)
(* whatever file is loaded and whatever call main makes.                   *)
THEOREM TypeCorrect == Spec => []TypeOK
<1>1. Types => TypeOK
  BY DEF Types
<1> QED
  BY TypesInit, TypesNext, <1>1, PTL DEF Spec

-----------------------------------------------------------------------------
(* The last of the segments of a set decides. *)
Latest(a, S, segments) ==
  IF S = {} THEN 0
  ELSE ByteOfSegment(a, segments[CHOOSE j \in S : \A k \in S : k <= j])

LEMMA ImageByLatest ==
  \A a, n : ByteOfImage(a, n) = Latest(a, Covering(a, n), file.segments)
  BY Zenon DEF ByteOfImage, Latest

(* The image of one segment more: it decides about what it covers. *)
LEMMA ImageStep ==
  ASSUME NEW a, NEW n \in Nat
  PROVE  LET s == file.segments[n + 1]
         IN  ByteOfImage(a, n + 1) = IF s.p_type = "PT_LOAD" /\ a \in Extent(s)
                                     THEN ByteOfSegment(a, s) ELSE ByteOfImage(a, n)
<1> DEFINE s == file.segments[n + 1]
           P(k) == file.segments[k].p_type = "PT_LOAD" /\ a \in Extent(file.segments[k])
<1>1. /\ \A k : k \in Covering(a, n + 1) <=> k \in 1 .. n + 1 /\ P(k)
      /\ \A k : k \in Covering(a, n) <=> k \in 1 .. n /\ P(k)
  BY DEF Covering
<1>2. P(n + 1) <=> s.p_type = "PT_LOAD" /\ a \in Extent(s)
  OBVIOUS
<1>3. CASE P(n + 1)
  <2> DEFINE S == Covering(a, n + 1)
             last == CHOOSE j \in S : \A k \in S : k <= j
  <2>1. n + 1 \in S /\ \A k \in S : k \in Int /\ k <= n + 1
    <3> HIDE DEF P
    <3> QED
      BY <1>1, <1>3
  <2>2. last \in S /\ \A k \in S : k <= last
    <3> HIDE DEF S
    <3> QED
      BY <2>1
  <2>3. last = n + 1
    <3> HIDE DEF S, last
    <3> QED
      BY <2>1, <2>2
  <2>4. ByteOfImage(a, n + 1) = ByteOfSegment(a, file.segments[last])
    BY <2>1, Zenon DEF ByteOfImage
  <2> HIDE DEF last
  <2> QED
    BY <1>2, <1>3, <2>3, <2>4
<1>4. CASE ~P(n + 1)
  <2>1. Covering(a, n + 1) = Covering(a, n)
    <3>1. \A k : k \in Covering(a, n + 1) <=> k \in Covering(a, n)
      <4> HIDE DEF P
      <4> QED
        BY <1>1, <1>4
    <3> QED
      BY <3>1
  <2>2. ByteOfImage(a, n + 1) = ByteOfImage(a, n)
    BY <2>1, ImageByLatest, Zenon
  <2> QED
    BY <1>2, <1>4, <2>2
<1> QED
  BY <1>3, <1>4

LEMMA EmptyImage ==
  ASSUME NEW a
  PROVE  ByteOfImage(a, 0) = 0
<1>1. Covering(a, 0) = {}
  BY DEF Covering
<1> QED
  BY <1>1, Zenon DEF ByteOfImage

(* The image is that of the file, which does not change. *)
LEMMA ImageKept ==
  ASSUME NEW a, file' = file
  PROVE  ByteOfImage(a, i)' = ByteOfImage(a, i')
<1>1. Covering(a, i)' = Covering(a, i')
  BY DEF Covering
<1>2. ByteOfImage(a, i)' = Latest(a, Covering(a, i)', file'.segments)
  BY Zenon DEF ByteOfImage, Latest
<1>3. ByteOfImage(a, i') = Latest(a, Covering(a, i'), file.segments)
  BY ImageByLatest, Zenon
<1> QED
  BY <1>1, <1>2, <1>3, Zenon

(* What a segment that is loaded leaves in memory.  A tail that is zeroed  *)
(* lies in RAM, above every byte of flash.                                 *)
LEMMA SegmentInMemory ==
  ASSUME Types, NEW s \in Segments, WriteSegment(s), i' = i + 1
  PROVE  /\ \A a \in FlashBytes :
              flash'[a] = IF a \in Extent(s) THEN ByteOfSegment(a, s) ELSE flash[a]
         /\ \A a \in RamBytes :
              ram'[a] = IF a \in Extent(s) THEN ByteOfSegment(a, s) ELSE ram[a]
<1> DEFINE addr == s.p_paddr
           data == s.data
           length == p_filesz(s)
           tail == addr + length
           size == s.p_memsz - length
           zeros == [k \in 1 .. size |-> 0]
           written == Overwrite(ram, addr, s.data)
<1>0. flash \in [FlashBytes -> Byte] /\ ram \in [RamBytes -> Byte]
  BY TypeFacts
<1>1. addr \in Nat /\ s.data \in Seq(Byte) /\ s.p_memsz \in Nat /\ length \in Nat
      /\ Len(s.data) = length /\ i \in Nat
  BY SegmentsAssumption, TypeFacts DEF p_filesz
<1>2. ~(/\ ~Fits(addr, length, 0, RAM_SIZE) /\ ~Fits(addr, length, RAM_BASE, FLASH_SIZE))
  BY <1>1 DEF WriteSegment, Fail
<1>3. /\ flash' = Overwrite(flash, addr, s.data)
      /\ s.p_memsz > length => zero_memory(written, tail, size)
      /\ ~(s.p_memsz > length) => ram' = written
  BY <1>2, Zenon DEF WriteSegment
<1>4. FlashBytes \subseteq Int /\ RamBytes \subseteq Int
  BY RegionsAreApart
<1>5. \A a \in FlashBytes :
        flash'[a] = IF a \in Bytes(addr, length) THEN s.data[a - addr + 1] ELSE flash[a]
  <2>1. /\ addr \in Nat /\ data \in Seq(Byte) /\ Len(data) = length
        /\ flash' = Overwrite(flash, addr, data) /\ FlashBytes \subseteq Int
    BY <1>1, <1>3, <1>4
  <2> HIDE DEF addr, length, data
  <2>2. \A a \in FlashBytes : Overwrite(flash, addr, data)[a]
          = IF a \in Bytes(addr, Len(data)) THEN data[a - addr + 1] ELSE flash[a]
    BY <1>0 DEF Overwrite
  <2>3. \A a \in FlashBytes :
          flash'[a] = IF a \in Bytes(addr, length) THEN data[a - addr + 1] ELSE flash[a]
    BY <2>1, <2>2
  <2> QED
    BY <2>3 DEF data
<1>6. /\ written \in [RamBytes -> Byte]
      /\ \A a \in RamBytes :
           written[a] = IF a \in Bytes(addr, length) THEN s.data[a - addr + 1] ELSE ram[a]
  <2>1. /\ addr \in Nat /\ data \in Seq(Byte) /\ Len(data) = length
        /\ written = Overwrite(ram, addr, data) /\ RamBytes \subseteq Int
    BY <1>1, <1>4
  <2> HIDE DEF addr, length, data, written
  <2>2. \A a \in RamBytes : Overwrite(ram, addr, data)[a]
          = IF a \in Bytes(addr, Len(data)) THEN data[a - addr + 1] ELSE ram[a]
    BY <1>0 DEF Overwrite
  <2>3. \A a \in RamBytes :
          written[a] = IF a \in Bytes(addr, length) THEN data[a - addr + 1] ELSE ram[a]
    BY <2>1, <2>2
  <2>4. written \in [RamBytes -> Byte]
    BY <2>1, <1>0, Overwritten
  <2> QED
    BY <2>3, <2>4 DEF data
<1>7. CASE s.p_memsz > length
  <2>1. Fits(tail, size, RAM_BASE, FLASH_SIZE) /\ ram' = Overwrite(written, tail, zeros)
    BY <1>1, <1>3, <1>7 DEF zero_memory
  <2>2. size \in Nat /\ tail \in Nat /\ RAM_BASE \in Nat /\ tail >= RAM_BASE
        /\ addr \in Nat /\ length \in Nat /\ s.p_memsz = length + size
    <3>1. RAM_BASE \in Nat /\ tail >= RAM_BASE
      BY <2>1, RegionsAreApart DEF Fits
    <3>2. addr \in Nat /\ length \in Nat /\ s.p_memsz \in Nat /\ s.p_memsz > length
      BY <1>1, <1>7
    <3> HIDE DEF addr, length
    <3> QED
      BY <3>1, <3>2
  <2>3. zeros \in [1 .. size -> Byte] /\ \A k \in 1 .. size : zeros[k] = 0
    BY DEF Byte
  <2>4. zeros \in Seq(Byte) /\ Len(zeros) = size
    <3> HIDE DEF zeros, size
    <3> QED
      BY <2>2, <2>3
  <2>5. \A a \in RamBytes :
          ram'[a] = IF a \in Bytes(tail, size) THEN zeros[a - tail + 1] ELSE written[a]
    <3> HIDE DEF zeros, size, tail, written
    <3>1. \A a \in RamBytes : Overwrite(written, tail, zeros)[a]
            = IF a \in Bytes(tail, Len(zeros)) THEN zeros[a - tail + 1] ELSE written[a]
      BY <1>6 DEF Overwrite
    <3> QED
      BY <2>1, <2>4, <3>1
  <2>6. \A a \in RamBytes :
          ram'[a] = IF a \in Bytes(tail, size) THEN 0 ELSE written[a]
    <3> SUFFICES ASSUME NEW a \in RamBytes, a \in Bytes(tail, size)
                 PROVE  zeros[a - tail + 1] = 0
      BY <2>5
    <3>1. a - tail + 1 \in 1 .. size
      BY <1>4, <2>2 DEF Bytes
    <3> HIDE DEF zeros
    <3> QED
      BY <2>3, <3>1
  <2>7. Extent(s) = Bytes(addr, s.p_memsz)
    BY <1>7 DEF Extent
  <2>8. \A a \in Int : /\ a \in Bytes(addr, s.p_memsz)
                           <=> a \in Bytes(addr, length) \/ a \in Bytes(tail, size)
                       /\ a \in Bytes(addr, length) => a < tail
                       /\ a \in Bytes(tail, size) => ~(a < tail) /\ a >= RAM_BASE
    <3>1. tail = addr + length
      OBVIOUS
    <3> HIDE DEF addr, length, tail, size
    <3> QED
      BY <2>2, <3>1 DEF Bytes
  <2>9. \A a \in FlashBytes : a < RAM_BASE
    BY RegionsAreApart
  <2>10. \A a : ByteOfSegment(a, s) = IF a < tail THEN s.data[a - addr + 1] ELSE 0
    BY DEF ByteOfSegment
  <2>11. \A a \in FlashBytes : a \notin Bytes(tail, size)
    <3> HIDE DEF tail, size
    <3> QED
      BY <1>4, <2>2, <2>8, <2>9
  <2> HIDE DEF addr, tail, size, length, written
  <2>12. \A a \in FlashBytes :
           flash'[a] = IF a \in Extent(s) THEN ByteOfSegment(a, s) ELSE flash[a]
    BY <1>4, <1>5, <2>7, <2>8, <2>10, <2>11
  <2>13. \A a \in RamBytes :
           ram'[a] = IF a \in Extent(s) THEN ByteOfSegment(a, s) ELSE ram[a]
    BY <1>4, <1>6, <2>6, <2>7, <2>8, <2>10
  <2> QED
    BY <2>12, <2>13
<1>8. CASE ~(s.p_memsz > length)
  <2>1. Extent(s) = Bytes(addr, length)
    BY <1>8 DEF Extent
  <2>2. \A a \in Int : a \in Bytes(addr, length) =>
                         ByteOfSegment(a, s) = s.data[a - addr + 1]
    BY <1>1 DEF ByteOfSegment, Bytes
  <2>3. ram' = written
    BY <1>3, <1>8
  <2> HIDE DEF addr, length, written
  <2> QED
    BY <1>4, <1>5, <1>6, <2>1, <2>2, <2>3
<1> QED
  BY <1>7, <1>8

LEMMA ImageInit == Init => MemoryIsTheImage
<1> SUFFICES ASSUME Init PROVE MemoryIsTheImage
  OBVIOUS
<1>1. flash = [a \in FlashBytes |-> 0] /\ ram = [a \in RamBytes |-> 0] /\ i = 0
  BY DEF Init, BootInit, LoaderInit
<1>2. \A a : ByteOfImage(a, i) = 0
  BY <1>1, EmptyImage
<1> QED
  BY <1>1, <1>2 DEF MemoryIsTheImage

LEMMA ImageByLoadSegment ==
  ASSUME Types, MemoryIsTheImage, LoadSegment
  PROVE  MemoryIsTheImage'
<1> DEFINE s == file.segments[i + 1]
<1>1. s \in Segments /\ i \in Nat
  BY TypeFacts, SegmentFacts DEF LoadSegment
<1>2. /\ \A a \in FlashBytes : flash[a] = ByteOfImage(a, i)
      /\ \A a \in RamBytes : ram[a] = ByteOfImage(a, i)
      /\ file' = file
  BY DEF LoadSegment, MemoryIsTheImage
<1>3. \A a : ByteOfImage(a, i)' = ByteOfImage(a, i')
  BY <1>2, ImageKept
<1>4. \A a : ByteOfImage(a, i + 1) = IF s.p_type = "PT_LOAD" /\ a \in Extent(s)
                                     THEN ByteOfSegment(a, s) ELSE ByteOfImage(a, i)
  BY <1>1, ImageStep
<1>5. \/ UNCHANGED <<flash, ram, i>>
      \/ s.p_type # "PT_LOAD" /\ i' = i + 1 /\ UNCHANGED <<flash, ram>>
      \/ s.p_type = "PT_LOAD" /\ WriteSegment(s)
  <2>1. s.p_type \in {"PT_LOAD", "other"}
    BY <1>1, SegmentsAssumption
  <2> QED
    BY <2>1, Zenon DEF LoadSegment, Fail
<1>6. CASE phase' = "undefined"
  BY <1>6 DEF MemoryIsTheImage
<1>7. CASE phase' # "undefined"
  <2>1. CASE UNCHANGED <<flash, ram, i>>
    BY <1>2, <1>3, <2>1 DEF MemoryIsTheImage
  <2>2. CASE s.p_type # "PT_LOAD" /\ i' = i + 1 /\ UNCHANGED <<flash, ram>>
    <3> HIDE DEF s
    <3> QED
      BY <1>2, <1>3, <1>4, <2>2 DEF MemoryIsTheImage
  <2>3. CASE s.p_type = "PT_LOAD" /\ WriteSegment(s)
    <3>1. UNCHANGED <<flash, ram, i>> \/ i' = i + 1
      <4> HIDE DEF s
      <4> QED
        BY <1>7, <2>3, Zenon DEF WriteSegment, Fail, zero_memory
    <3>2. CASE i' = i + 1
      <4> HIDE DEF s
      <4>1. /\ \A a \in FlashBytes :
                 flash'[a] = IF a \in Extent(s) THEN ByteOfSegment(a, s) ELSE flash[a]
            /\ \A a \in RamBytes :
                 ram'[a] = IF a \in Extent(s) THEN ByteOfSegment(a, s) ELSE ram[a]
        BY <1>1, <2>3, <3>2, SegmentInMemory
      <4> QED
        BY <1>2, <1>3, <1>4, <2>3, <3>2, <4>1 DEF MemoryIsTheImage
    <3> QED
      BY <2>1, <3>1, <3>2
  <2> QED
    BY <1>5, <2>1, <2>2, <2>3
<1> QED
  BY <1>6, <1>7

LEMMA ImageNext == Types /\ MemoryIsTheImage /\ [Next]_vars => MemoryIsTheImage'
<1> SUFFICES ASSUME Types, MemoryIsTheImage, [Next]_vars PROVE MemoryIsTheImage'
  OBVIOUS
<1>1. CASE LoadSegment
  BY <1>1, ImageByLoadSegment
<1>2. CASE /\ UNCHANGED <<flash, ram, file, i>>
           /\ phase # "undefined"
           /\ phase' \in {"header", "segments", "failed", "loaded"} =>
                phase \in {"header", "segments", "failed", "loaded"}
  <2>1. \A a : ByteOfImage(a, i)' = ByteOfImage(a, i)
    BY <1>2, ImageKept
  <2> QED
    BY <1>2, <2>1 DEF MemoryIsTheImage
<1>3. CASE UNCHANGED <<flash, ram, file, i, phase>>
  <2>1. \A a : ByteOfImage(a, i)' = ByteOfImage(a, i)
    BY <1>3, ImageKept
  <2> QED
    BY <1>3, <2>1 DEF MemoryIsTheImage
<1>4. CASE ReadHeader \/ SetRegisters
  <2>1. UNCHANGED <<flash, ram, file, i>> /\ phase \in {"header", "segments"}
    BY <1>4 DEF ReadHeader, SetRegisters, Fail
  <2> QED
    BY <1>2, <2>1
<1>5. CASE EnterResetHandler \/ CopyData \/ StartZeroing \/ ZeroBss \/ CallMain
  <2>1. /\ UNCHANGED <<flash, file, i>> /\ phase # "undefined"
        /\ phase' \notin {"header", "segments", "failed", "loaded"}
    BY <1>5 DEF EnterResetHandler, CopyData, StartZeroing, ZeroBss, CallMain, Put
  <2>2. \A a : ByteOfImage(a, i)' = ByteOfImage(a, i)
    BY <2>1, ImageKept
  <2> QED
    BY <2>1, <2>2 DEF MemoryIsTheImage
<1>6. CASE Hlprintf /\ UNCHANGED <<flash, ram, file, i>>
  <2>1. /\ phase # "undefined"
        /\ phase' \notin {"header", "segments", "failed", "loaded"}
    BY <1>6 DEF Hlprintf, CallHlprintf, LeaveMemory, Literal, PercentSign, NoArgument,
                BadArgument, Argument, EnterPutUint, CollectDigit, WriteDigit, Return
  <2> QED
    BY <1>2, <1>6, <2>1
<1>7. CASE UNCHANGED vars
  BY <1>3, <1>7 DEF vars, bootVars, loaderVars
<1> QED
  BY <1>1, <1>4, <1>5, <1>6, <1>7 DEF Next, BootNext, LoaderNext

(* Whatever the file, memory holds what the segments dealt with say, while *)
(* load_elf runs, when it throws and when it returns, and flash does so    *)
(* ever after.                                                             *)
THEOREM LoadedImage == Spec => []MemoryIsTheImage
  BY TypesInit, TypesNext, ImageInit, ImageNext, PTL DEF Spec

-----------------------------------------------------------------------------
(* Reset_Handler.  What has been copied is the file's copy of .data, as    *)
(* far as the copy has come, and stays so while .bss is zeroed, which      *)
(* begins above .data.                                                     *)
Copied(a) ==
  a \in RamBytes /\ ram[a] = ByteOfImage(layout.sidata + (a - layout.sdata), i)

Copying ==
  phase = "copying" =>
    /\ src >= layout.sidata /\ dst - layout.sdata = src - layout.sidata
    /\ \A a \in layout.sdata .. dst - 1 : Copied(a)

Zeroing ==
  phase = "zeroing" =>
    /\ dst >= layout.sbss
    /\ \A a \in layout.sdata .. layout.edata - 1 : Copied(a)
    /\ \A a \in layout.sbss .. dst - 1 : a \in RamBytes /\ ram[a] = 0

BootInv == Copying /\ Zeroing /\ MainFindsItsData

LEMMA BootInvInit == Init => BootInv
  BY DEF Init, BootInit, LoaderInit, BootInv, Copying, Zeroing, MainFindsItsData

LEMMA CopiedKept ==
  ASSUME UNCHANGED <<file, i, layout>>, NEW a, Copied(a), ram'[a] = ram[a]
  PROVE  Copied(a)'
<1>1. \A x : ByteOfImage(x, i)' = ByteOfImage(x, i)
  BY ImageKept
<1> QED
  BY <1>1 DEF Copied

(* The word at dst, and nothing else. *)
LEMMA WordInMemory ==
  ASSUME Types, NEW word \in Word, Put(word), phase' # "undefined"
  PROVE  /\ dst' = dst + 4 /\ phase' = phase
         /\ \A a \in dst .. dst + 3 : a \in RamBytes /\ ram'[a] = word[a - dst]
         /\ \A a \in RamBytes : a < dst => ram'[a] = ram[a]
<1> DEFINE bytes == [k \in 1 .. 4 |-> word[k - 1]]
<1>1. /\ Fits(dst, 4, RAM_BASE, FLASH_SIZE) /\ dst' = dst + 4 /\ phase' = phase
      /\ ram' = Overwrite(ram, dst, bytes)
  BY Zenon DEF Put
<1>2. ram \in [RamBytes -> Byte] /\ dst \in Nat
  BY TypeFacts
<1>3. Len(bytes) = 4 /\ \A a \in dst .. dst + 3 : bytes[a - dst + 1] = word[a - dst]
  BY <1>2
<1>4. \A a \in dst .. dst + 3 : a \in RamBytes
  BY <1>1, <1>2, RegionsAreApart DEF Fits
<1>5. \A a \in RamBytes : ram'[a] = IF a \in Bytes(dst, 4) THEN bytes[a - dst + 1] ELSE ram[a]
  <2> HIDE DEF bytes
  <2> QED
    BY <1>1, <1>2, <1>3 DEF Overwrite
<1>6. \A a \in RamBytes : a \in Int
  BY RegionsAreApart
<1> HIDE DEF bytes
<1>7. \A a \in dst .. dst + 3 : ram'[a] = word[a - dst]
  BY <1>2, <1>3, <1>4, <1>5 DEF Bytes
<1>8. \A a \in RamBytes : a < dst => ram'[a] = ram[a]
  BY <1>2, <1>5, <1>6 DEF Bytes
<1> QED
  BY <1>1, <1>4, <1>7, <1>8

LEMMA ResetFacts ==
  ASSUME Types
  PROVE  /\ layout.sidata \in Nat /\ layout.sdata \in Nat /\ layout.edata \in Nat
         /\ layout.sbss \in Nat /\ layout.ebss \in Nat /\ src \in Nat /\ dst \in Nat
         /\ RAM_BASE <= layout.sdata /\ layout.sdata <= layout.edata
         /\ layout.edata <= layout.sbss /\ layout.sbss <= layout.ebss
  BY TypeFacts, LayoutFacts

LEMMA CopyKeepsBootInv ==
  ASSUME Types, MemoryIsTheImage, BootInv, CopyData
  PROVE  BootInv'
<1>1. CASE phase' = "undefined"
  BY <1>1 DEF BootInv, Copying, Zeroing, MainFindsItsData
<1>2. CASE phase' # "undefined"
  <2> DEFINE word == read32Flash(src)
  <2>1. /\ phase = "copying" /\ UNCHANGED <<flash, file, i, layout>>
        /\ Fits(src, 4, 0, RAM_SIZE) /\ Put(word) /\ src' = src + 4
    BY <1>2 DEF CopyData
  <2>2. /\ word \in Word
        /\ \A k \in 0 .. 3 : src + k \in FlashBytes /\ word[k] = flash[src + k]
    BY <2>1, ResetFacts, FlashWord
  <2>3. \A k \in 0 .. 3 : word[k] = ByteOfImage(src + k, i)
    BY <2>1, <2>2 DEF MemoryIsTheImage
  <2>4. /\ dst' = dst + 4 /\ phase' = "copying"
        /\ \A a \in dst .. dst + 3 : a \in RamBytes /\ ram'[a] = word[a - dst]
        /\ \A a \in RamBytes : a < dst => ram'[a] = ram[a]
    <3> HIDE DEF word
    <3> QED
      BY <1>2, <2>1, <2>2, WordInMemory
  <2> HIDE DEF word
  <2>5. /\ src >= layout.sidata /\ dst - layout.sdata = src - layout.sidata
        /\ \A a \in layout.sdata .. dst - 1 : Copied(a)
    BY <2>1 DEF BootInv, Copying
  <2>6. \A a \in layout.sdata .. dst' - 1 : Copied(a)'
    <3> SUFFICES ASSUME NEW a \in layout.sdata .. dst' - 1
                 PROVE  Copied(a)'
      OBVIOUS
    <3>1. CASE a < dst
      <4>1. a \in layout.sdata .. dst - 1
        BY <2>4, <3>1, ResetFacts
      <4>2. Copied(a) /\ ram'[a] = ram[a]
        BY <2>4, <2>5, <3>1, <4>1 DEF Copied
      <4> QED
        BY <2>1, <4>2, CopiedKept
    <3>2. CASE ~(a < dst)
      <4>1. a \in dst .. dst + 3 /\ a - dst \in 0 .. 3
        BY <2>4, <3>2, ResetFacts
      <4>2. a \in RamBytes /\ ram'[a] = ByteOfImage(src + (a - dst), i)
        BY <2>3, <2>4, <4>1
      <4>3. src + (a - dst) = layout.sidata + (a - layout.sdata)
        BY <2>5, <4>1, ResetFacts
      <4>4. \A x : ByteOfImage(x, i)' = ByteOfImage(x, i)
        BY <2>1, ImageKept
      <4> QED
        BY <2>1, <4>2, <4>3, <4>4 DEF Copied
    <3> QED
      BY <3>1, <3>2
  <2>7. src' >= layout.sidata /\ dst' - layout.sdata = src' - layout.sidata
    BY <2>1, <2>4, <2>5, ResetFacts
  <2> QED
    BY <2>1, <2>4, <2>6, <2>7 DEF BootInv, Copying, Zeroing, MainFindsItsData
<1> QED
  BY <1>1, <1>2

LEMMA ZeroKeepsBootInv ==
  ASSUME Types, BootInv, ZeroBss
  PROVE  BootInv'
<1>1. CASE phase' = "undefined"
  BY <1>1 DEF BootInv, Copying, Zeroing, MainFindsItsData
<1>2. CASE phase' # "undefined"
  <2> DEFINE word == [k \in 0 .. 3 |-> 0]
  <2>1. /\ phase = "zeroing" /\ UNCHANGED <<flash, file, i, layout>> /\ Put(word)
    BY DEF ZeroBss
  <2>2. word \in Word /\ \A k \in 0 .. 3 : word[k] = 0
    BY DEF Word, Byte
  <2> HIDE DEF word
  <2>3. /\ dst' = dst + 4 /\ phase' = "zeroing"
        /\ \A a \in dst .. dst + 3 : a \in RamBytes /\ ram'[a] = word[a - dst]
        /\ \A a \in RamBytes : a < dst => ram'[a] = ram[a]
    BY <1>2, <2>1, <2>2, WordInMemory
  <2>4. /\ dst >= layout.sbss
        /\ \A a \in layout.sdata .. layout.edata - 1 : Copied(a)
        /\ \A a \in layout.sbss .. dst - 1 : a \in RamBytes /\ ram[a] = 0
    BY <2>1 DEF BootInv, Zeroing
  <2>5. \A a \in layout.sdata .. layout.edata - 1 : Copied(a)'
    <3> SUFFICES ASSUME NEW a \in layout.sdata .. layout.edata - 1
                 PROVE  Copied(a)'
      OBVIOUS
    <3>1. a < dst
      BY <2>4, ResetFacts
    <3>2. Copied(a) /\ ram'[a] = ram[a]
      BY <2>3, <2>4, <3>1 DEF Copied
    <3> QED
      BY <2>1, <3>2, CopiedKept
  <2>6. \A a \in layout.sbss .. dst' - 1 : a \in RamBytes /\ ram'[a] = 0
    <3> SUFFICES ASSUME NEW a \in layout.sbss .. dst' - 1
                 PROVE  a \in RamBytes /\ ram'[a] = 0
      OBVIOUS
    <3>1. CASE a < dst
      <4>1. a \in layout.sbss .. dst - 1
        BY <2>3, <3>1, ResetFacts
      <4> QED
        BY <2>3, <2>4, <3>1, <4>1
    <3>2. CASE ~(a < dst)
      <4>1. a \in dst .. dst + 3 /\ a - dst \in 0 .. 3
        BY <2>3, <3>2, ResetFacts
      <4> QED
        BY <2>2, <2>3, <4>1
    <3> QED
      BY <3>1, <3>2
  <2>7. dst' >= layout.sbss
    BY <2>3, <2>4, ResetFacts
  <2> QED
    BY <2>1, <2>3, <2>5, <2>6, <2>7 DEF BootInv, Copying, Zeroing, MainFindsItsData
<1> QED
  BY <1>1, <1>2

LEMMA MainKeepsBootInv ==
  ASSUME Types, BootInv, CallMain
  PROVE  BootInv'
<1>1. /\ phase = "zeroing" /\ dst >= layout.ebss /\ phase' = "main"
      /\ UNCHANGED <<flash, ram, file, i, layout, dst>>
  BY DEF CallMain
<1>2. /\ \A a \in layout.sdata .. layout.edata - 1 : Copied(a)
      /\ \A a \in layout.sbss .. dst - 1 : a \in RamBytes /\ ram[a] = 0
  BY <1>1 DEF BootInv, Zeroing
<1>3. \A x : ByteOfImage(x, i)' = ByteOfImage(x, i)
  BY <1>1, ImageKept
<1>4. \A a \in (layout.sdata .. layout.edata - 1) \cup (layout.sbss .. layout.ebss - 1) :
        ram'[a] = Promised(a)'
  <2> SUFFICES ASSUME NEW a \in (layout.sdata .. layout.edata - 1)
                                 \cup (layout.sbss .. layout.ebss - 1)
               PROVE  ram'[a] = Promised(a)'
    OBVIOUS
  <2>1. a \notin FlashBytes
    <3>1. a \in Int /\ a >= RAM_BASE /\ RAM_BASE \in Nat
      BY ResetFacts, RegionsAreApart
    <3>2. \A b \in FlashBytes : b < RAM_BASE
      BY RegionsAreApart
    <3> QED
      BY <3>1, <3>2
  <2>2. CASE a \in layout.sdata .. layout.edata - 1
    <3>1. ram[a] = ByteOfImage(layout.sidata + (a - layout.sdata), i)
      BY <1>2, <2>2 DEF Copied
    <3> QED
      BY <1>1, <1>3, <2>1, <2>2, <3>1 DEF Promised
  <2>3. CASE a \notin layout.sdata .. layout.edata - 1
    <3>1. a \in layout.sbss .. dst - 1
      BY <1>1, <2>3, ResetFacts
    <3> QED
      BY <1>1, <1>2, <2>1, <2>3, <3>1 DEF Promised
  <2> QED
    BY <2>2, <2>3
<1> QED
  BY <1>1, <1>4 DEF BootInv, Copying, Zeroing, MainFindsItsData

LEMMA StutterKeepsBootInv ==
  ASSUME BootInv, UNCHANGED vars
  PROVE  BootInv'
<1>1. UNCHANGED <<flash, ram, file, i, phase, layout, src, dst>>
  BY DEF vars, bootVars, loaderVars
<1>2. \A x : ByteOfImage(x, i)' = ByteOfImage(x, i)
  BY <1>1, ImageKept
<1>3. \A a : Copied(a)' = Copied(a)
  BY <1>1, <1>2 DEF Copied
<1>4. \A a : Promised(a)' = Promised(a)
  BY <1>1, <1>2 DEF Promised
<1> QED
  BY <1>1, <1>3, <1>4 DEF BootInv, Copying, Zeroing, MainFindsItsData

LEMMA BootInvNext ==
  Types /\ MemoryIsTheImage /\ BootInv /\ [Next]_vars => BootInv'
<1> SUFFICES ASSUME Types, MemoryIsTheImage, BootInv, [Next]_vars PROVE BootInv'
  OBVIOUS
<1>1. CASE phase' \notin {"copying", "zeroing", "main"}
  BY <1>1 DEF BootInv, Copying, Zeroing, MainFindsItsData
<1>2. CASE LoaderNext
  <2>1. phase' \notin {"copying", "zeroing", "main"}
    BY <1>2 DEF LoaderNext, ReadHeader, LoadSegment, SetRegisters, WriteSegment, Fail,
                zero_memory
  <2> QED
    BY <1>1, <2>1
<1>3. CASE EnterResetHandler
  <2>1. /\ phase' = "copying" /\ src' = layout.sidata /\ dst' = layout.sdata
        /\ layout' = layout
    BY <1>3 DEF EnterResetHandler
  <2>2. layout.sdata .. dst' - 1 = {}
    BY <2>1, ResetFacts
  <2>3. src' >= layout.sidata /\ dst' - layout.sdata = src' - layout.sidata
    BY <2>1, ResetFacts
  <2> QED
    BY <2>1, <2>2, <2>3 DEF BootInv, Copying, Zeroing, MainFindsItsData
<1>4. CASE CopyData
  BY <1>4, CopyKeepsBootInv
<1>5. CASE StartZeroing
  <2>1. /\ phase = "copying" /\ dst >= layout.edata /\ phase' = "zeroing"
        /\ dst' = layout.sbss /\ UNCHANGED <<ram, file, i, layout>>
    BY <1>5 DEF StartZeroing
  <2>2. \A a \in layout.sdata .. layout.edata - 1 : Copied(a)'
    <3> TAKE a \in layout.sdata .. layout.edata - 1
    <3>1. a \in layout.sdata .. dst - 1
      BY <2>1, ResetFacts
    <3>2. Copied(a)
      BY <2>1, <3>1 DEF BootInv, Copying
    <3> QED
      BY <2>1, <3>2, CopiedKept
  <2>3. layout.sbss .. dst' - 1 = {} /\ dst' >= layout.sbss
    BY <2>1, ResetFacts
  <2> QED
    BY <2>1, <2>2, <2>3 DEF BootInv, Copying, Zeroing, MainFindsItsData
<1>6. CASE ZeroBss
  BY <1>6, ZeroKeepsBootInv
<1>7. CASE CallMain
  BY <1>7, MainKeepsBootInv
<1>8. CASE Hlprintf
  <2>1. phase' \notin {"copying", "zeroing", "main"}
    BY <1>8 DEF Hlprintf, CallHlprintf, LeaveMemory, Literal, PercentSign, NoArgument,
                BadArgument, Argument, EnterPutUint, CollectDigit, WriteDigit, Return
  <2> QED
    BY <1>1, <2>1
<1>9. CASE UNCHANGED vars
  BY <1>9, StutterKeepsBootInv
<1> QED
  BY <1>2, <1>3, <1>4, <1>5, <1>6, <1>7, <1>8, <1>9 DEF Next, BootNext

(* main finds every byte of .data as the file gives it and .bss zero, for  *)
(* every file, layout and size of the memories, although both loops store  *)
(* whole words and the first goes beyond the end of .data.                 *)
THEOREM DataIsInPlace == Spec => []MainFindsItsData
<1>1. BootInv => MainFindsItsData
  BY DEF BootInv
<1> QED
  BY TypesInit, TypesNext, ImageInit, ImageNext, BootInvInit, BootInvNext, <1>1, PTL DEF Spec

-----------------------------------------------------------------------------
(* How many steps the boot still takes, at most. *)
Positive(n) == IF n > 0 THEN n ELSE 0

StepsLeft ==
  LET words == layout.edata - layout.sdata + (layout.ebss - layout.sbss)
  IN  CASE phase = "header" -> 5 + Len(file.segments) + words
        [] phase = "segments" -> 4 + (Len(file.segments) - i) + words
        [] phase = "loaded" -> 3 + words
        [] phase = "copying" -> 2 + Positive(layout.edata - dst) + (layout.ebss - layout.sbss)
        [] phase = "zeroing" -> 1 + Positive(layout.ebss - dst)
        [] OTHER -> 0

(* load_elf and Reset_Handler come to an end: every step of theirs leaves  *)
(* fewer to take.                                                          *)
BootCountsDown ==
  [][BootNext => /\ StepsLeft \in Nat /\ StepsLeft' \in Nat
                 /\ StepsLeft' < StepsLeft]_bootVars

LEMMA StepsOfPhases ==
  LET words == layout.edata - layout.sdata + (layout.ebss - layout.sbss)
  IN  /\ phase = "header" => StepsLeft = 5 + Len(file.segments) + words
      /\ phase = "segments" => StepsLeft = 4 + (Len(file.segments) - i) + words
      /\ phase = "loaded" => StepsLeft = 3 + words
      /\ phase = "copying" =>
           StepsLeft = 2 + Positive(layout.edata - dst) + (layout.ebss - layout.sbss)
      /\ phase = "zeroing" => StepsLeft = 1 + Positive(layout.ebss - dst)
      /\ phase \in {"failed", "undefined", "main"} => StepsLeft = 0
  BY DEF StepsLeft

LEMMA BootSteps ==
  ASSUME Types, BootNext
  PROVE  StepsLeft \in Nat /\ StepsLeft' \in Nat /\ StepsLeft' < StepsLeft
<1> DEFINE n == Len(file.segments)
           data == layout.edata - layout.sdata
           bss == layout.ebss - layout.sbss
<1>1. /\ n \in Nat /\ i \in Nat /\ i <= n /\ data \in Nat /\ bss \in Nat /\ dst \in Nat
      /\ layout.sdata \in Nat /\ layout.edata \in Nat /\ layout.sbss \in Nat
      /\ layout.ebss \in Nat
      /\ data = layout.edata - layout.sdata /\ bss = layout.ebss - layout.sbss
  <2>1. n \in Nat /\ i \in Nat /\ i <= n
    BY TypeFacts
  <2>2. /\ layout.sdata \in Nat /\ layout.edata \in Nat /\ layout.sbss \in Nat
        /\ layout.ebss \in Nat /\ dst \in Nat
        /\ layout.sdata <= layout.edata /\ layout.sbss <= layout.ebss
    BY ResetFacts, Zenon
  <2>3. data \in Nat /\ bss \in Nat
    BY <2>2
  <2> QED
    BY <2>1, <2>2, <2>3
<1>2. layout' = layout /\ file' = file
  BY DEF BootNext, LoaderNext, ReadHeader, LoadSegment, SetRegisters, EnterResetHandler,
         CopyData, StartZeroing, ZeroBss, CallMain
<1>3. /\ phase' = "header" => StepsLeft' = 5 + n + (data + bss)
      /\ phase' = "segments" => StepsLeft' = 4 + (n - i') + (data + bss)
      /\ phase' = "loaded" => StepsLeft' = 3 + (data + bss)
      /\ phase' = "copying" => StepsLeft' = 2 + Positive(layout.edata - dst') + bss
      /\ phase' = "zeroing" => StepsLeft' = 1 + Positive(layout.ebss - dst')
      /\ phase' \in {"failed", "undefined", "main"} => StepsLeft' = 0
  BY <1>2 DEF StepsLeft
<1>0. /\ phase = "header" => StepsLeft = 5 + n + (data + bss)
      /\ phase = "segments" => StepsLeft = 4 + (n - i) + (data + bss)
      /\ phase = "loaded" => StepsLeft = 3 + (data + bss)
      /\ phase = "copying" => StepsLeft = 2 + Positive(layout.edata - dst) + bss
      /\ phase = "zeroing" => StepsLeft = 1 + Positive(layout.ebss - dst)
  BY StepsOfPhases
<1> HIDE DEF n, data, bss
<1>4. CASE ReadHeader
  <2>1. phase = "header" /\ (phase' = "failed" \/ (phase' = "segments" /\ i' = i))
    BY <1>4 DEF ReadHeader, Fail
  <2>2. StepsLeft = 5 + n + (data + bss)
    BY <2>1, <1>0
  <2> QED
    BY <1>1, <1>3, <2>1, <2>2
<1>5. CASE LoadSegment
  <2>1. /\ phase = "segments" /\ i < n
        /\ (phase' \in {"failed", "undefined"} \/ (phase' = "segments" /\ i' = i + 1))
    BY <1>5 DEF LoadSegment, Fail, WriteSegment, zero_memory, n
  <2>2. StepsLeft = 4 + (n - i) + (data + bss)
    BY <2>1, <1>0
  <2> QED
    BY <1>1, <1>3, <2>1, <2>2
<1>6. CASE SetRegisters
  <2>1. phase = "segments" /\ phase' = "loaded"
    BY <1>6 DEF SetRegisters
  <2>2. StepsLeft = 4 + (n - i) + (data + bss)
    BY <2>1, <1>0
  <2> QED
    BY <1>1, <1>3, <2>1, <2>2
<1>7. CASE EnterResetHandler
  <2>1. phase = "loaded" /\ phase' = "copying" /\ dst' = layout.sdata
    BY <1>7 DEF EnterResetHandler
  <2>2. StepsLeft = 3 + (data + bss)
    BY <2>1, <1>0
  <2>3. StepsLeft' = 2 + data + bss
    BY <1>1, <1>3, <2>1 DEF Positive
  <2> QED
    BY <1>1, <2>2, <2>3
<1>8. CASE CopyData
  <2>1. /\ phase = "copying" /\ dst < layout.edata
        /\ (phase' = "undefined" \/ (phase' = "copying" /\ dst' = dst + 4))
    BY <1>8 DEF CopyData, Put
  <2>2. StepsLeft = 2 + (layout.edata - dst) + bss
    BY <1>1, <2>1, <1>0 DEF Positive
  <2>3. phase' = "copying" => /\ StepsLeft' = 2 + Positive(layout.edata - dst') + bss
                              /\ dst' = dst + 4
    BY <1>3, <2>1
  <2> QED
    BY <1>1, <1>3, <2>1, <2>2, <2>3 DEF Positive
<1>9. CASE StartZeroing
  <2>1. phase = "copying" /\ dst >= layout.edata /\ phase' = "zeroing" /\ dst' = layout.sbss
    BY <1>9 DEF StartZeroing
  <2>2. StepsLeft = 2 + bss
    BY <1>1, <2>1, <1>0 DEF Positive
  <2>3. StepsLeft' = 1 + bss
    BY <1>1, <1>3, <2>1 DEF Positive
  <2> QED
    BY <1>1, <2>2, <2>3
<1>10. CASE ZeroBss
  <2>1. /\ phase = "zeroing" /\ dst < layout.ebss
        /\ (phase' = "undefined" \/ (phase' = "zeroing" /\ dst' = dst + 4))
    BY <1>10 DEF ZeroBss, Put
  <2>2. StepsLeft = 1 + (layout.ebss - dst)
    BY <1>1, <2>1, <1>0 DEF Positive
  <2> QED
    BY <1>1, <1>3, <2>1, <2>2 DEF Positive
<1>11. CASE CallMain
  <2>1. phase = "zeroing" /\ dst >= layout.ebss /\ phase' = "main"
    BY <1>11 DEF CallMain
  <2>2. StepsLeft = 1
    BY <1>1, <2>1, <1>0 DEF Positive
  <2> QED
    BY <1>3, <2>1, <2>2
<1> QED
  BY <1>4, <1>5, <1>6, <1>7, <1>8, <1>9, <1>10, <1>11 DEF BootNext, LoaderNext

(* Whatever the file holds, every step of load_elf and Reset_Handler leaves *)
(* fewer to take: BootEnds but for the fairness, with Reset_Handler read   *)
(* as C.                                                                   *)
THEOREM BootTakesFiniteTime == Spec => BootCountsDown
<1>1. Types /\ [Next]_vars =>
        [BootNext => /\ StepsLeft \in Nat /\ StepsLeft' \in Nat
                     /\ StepsLeft' < StepsLeft]_bootVars
  BY BootSteps
<1> QED
  BY <1>1, TypesInit, TypesNext, PTL DEF Spec, BootCountsDown

-----------------------------------------------------------------------------
(* uart_put_uint.  What is left of the number has no more digits than the  *)
(* buffer has room, and between two numbers the buffer is empty.           *)
Room(n) == Base^(BufferSize - n)

RoomLeft ==
  /\ args \in Seq(0 .. MaxValue) /\ Len(buffer) <= BufferSize
  /\ phase = "digits" => value < Room(Len(buffer))
  /\ phase \notin {"digits", "undefined"} => buffer = <<>>

LEMMA RoomLeftInit == Init => RoomLeft
<1> SUFFICES ASSUME Init PROVE RoomLeft
  OBVIOUS
<1>1. args = <<>> /\ buffer = <<>> /\ phase = "header"
  BY DEF Init, BootInit, LoaderInit
<1>2. BufferSize \in Nat
  BY DigitsAssumption
<1> QED
  BY <1>1, <1>2 DEF RoomLeft

LEMMA FewerDigits ==
  ASSUME NEW n \in Nat, NEW b \in 2 .. 10, NEW p \in Nat, n < b * p
  PROVE  n \div b < p
<1>1. \/ b = 2 \/ b = 3 \/ b = 4 \/ b = 5 \/ b = 6 \/ b = 7 \/ b = 8 \/ b = 9 \/ b = 10
  OBVIOUS
<1>2. CASE b = 2
  BY <1>2
<1>3. CASE b = 3
  BY <1>3
<1>4. CASE b = 4
  BY <1>4
<1>5. CASE b = 5
  BY <1>5
<1>6. CASE b = 6
  BY <1>6
<1>7. CASE b = 7
  BY <1>7
<1>8. CASE b = 8
  BY <1>8
<1>9. CASE b = 9
  BY <1>9
<1>10. CASE b = 10
  BY <1>10
<1> QED
  BY <1>1, <1>2, <1>3, <1>4, <1>5, <1>6, <1>7, <1>8, <1>9, <1>10

LEMMA RoomFacts ==
  /\ BufferSize \in Nat /\ Base \in 2 .. 10
  /\ MaxValue < Room(0) /\ Room(BufferSize) = 1
  /\ \A n \in 0 .. BufferSize : Room(n) \in Nat \ {0}
  /\ \A n \in 0 .. BufferSize - 1 : Room(n) = Base * Room(n + 1)
<1>1. BufferSize \in Nat /\ Base \in 2 .. 10
  BY DigitsAssumption
<1>2. BufferSize - 0 = BufferSize /\ BufferSize - BufferSize = 0
  BY <1>1
<1>3. MaxValue < Room(0) /\ Room(BufferSize) = 1
  BY <1>2, DigitsAssumption, PowersAssumption, Zenon DEF Room
<1>4. \A n \in 0 .. BufferSize : Room(n) \in Nat \ {0}
  <2> TAKE n \in 0 .. BufferSize
  <2>1. BufferSize - n \in 0 .. BufferSize
    BY <1>1
  <2> QED
    BY <2>1, PowersAssumption, Zenon DEF Room
<1>5. \A n \in 0 .. BufferSize - 1 : Room(n) = Base * Room(n + 1)
  <2> TAKE n \in 0 .. BufferSize - 1
  <2>1. BufferSize - n \in 1 .. BufferSize /\ (BufferSize - n) - 1 = BufferSize - (n + 1)
    BY <1>1
  <2>2. Base^(BufferSize - n) = Base * Base^((BufferSize - n) - 1)
    BY <2>1, PowersAssumption, Zenon
  <2> QED
    BY <2>1, <2>2, Zenon DEF Room
<1> QED
  BY <1>1, <1>3, <1>4, <1>5

LEMMA RoomLeftNext == Types /\ RoomLeft /\ [Next]_vars => RoomLeft'
<1> SUFFICES ASSUME Types, RoomLeft, [Next]_vars PROVE RoomLeft'
  OBVIOUS
<1>1. /\ args \in Seq(0 .. MaxValue) /\ Len(buffer) <= BufferSize /\ MaxValue \in Nat
      /\ buffer \in Seq(0 .. 255) /\ Len(buffer) \in Nat /\ value \in Nat
  BY TypeFacts, CallsAssumption DEF RoomLeft
<1>2. CASE UNCHANGED <<args, buffer>> /\ buffer = <<>> /\ phase' # "digits"
  BY <1>2 DEF RoomLeft
<1>3. CASE UNCHANGED printVars /\ ~Hlprintf
  <2>1. UNCHANGED <<args, buffer, value>>
    BY <1>3 DEF printVars
  <2>2. phase' = phase
        \/ (phase \notin {"digits", "undefined"} /\ phase' # "digits")
    BY <1>3 DEF Next, BootNext, LoaderNext, ReadHeader, LoadSegment, SetRegisters,
       WriteSegment, Fail, zero_memory, EnterResetHandler, CopyData, Put, StartZeroing,
       ZeroBss, CallMain, vars, bootVars, loaderVars
  <2> QED
    BY <2>1, <2>2 DEF RoomLeft
<1>4. CASE Hlprintf
  <2>1. CASE CallHlprintf
    <3>1. /\ args' = call'.args /\ call' \in Calls /\ buffer' = buffer
          /\ phase = "main" /\ phase' = "format"
      BY <2>1 DEF CallHlprintf
    <3>2. args' \in Seq(0 .. MaxValue)
      BY <3>1, CallsAssumption
    <3> QED
      BY <3>1, <3>2 DEF RoomLeft
  <2>2. CASE LeaveMemory \/ Literal \/ PercentSign \/ NoArgument \/ BadArgument \/ Return
    <3>1. /\ UNCHANGED <<args, buffer>> /\ phase' # "digits"
          /\ phase \in {"format", "conversion"}
      BY <2>2 DEF LeaveMemory, Literal, PercentSign, NoArgument, BadArgument, Return,
                  printVars
    <3> QED
      BY <1>2, <3>1 DEF RoomLeft
  <2>3. CASE Argument
    <3>1. /\ args # <<>> /\ args' = Tail(args) /\ buffer' = buffer
          /\ phase = "conversion" /\ phase' = "format"
      BY <2>3 DEF Argument
    <3>2. Tail(args) \in Seq(0 .. MaxValue)
      BY <1>1, <3>1
    <3> QED
      BY <3>1, <3>2 DEF RoomLeft
  <2>4. CASE EnterPutUint
    <3>1. /\ args # <<>> /\ args' = Tail(args) /\ buffer' = buffer /\ value' = Head(args)
          /\ phase = "conversion" /\ phase' = "digits"
      BY <2>4 DEF EnterPutUint
    <3>2. Tail(args) \in Seq(0 .. MaxValue) /\ Head(args) \in 0 .. MaxValue
      BY <1>1, <3>1
    <3>3. buffer' = <<>> /\ Len(buffer') = 0
      BY <3>1 DEF RoomLeft
    <3>4. value' < Room(0)
      <4>1. Room(0) \in Nat
        BY RoomFacts
      <4> QED
        BY <1>1, <3>1, <3>2, <4>1, RoomFacts
    <3> QED
      BY <1>1, <3>1, <3>2, <3>3, <3>4 DEF RoomLeft
  <2>5. CASE CollectDigit
    <3> DEFINE n == Len(buffer)
    <3>1. /\ value > 0 /\ buffer' = Append(buffer, Numeral(value % Base))
          /\ value' = value \div Base /\ args' = args /\ phase = "digits"
          /\ phase' = IF Len(buffer') <= BufferSize THEN phase ELSE "undefined"
      BY <2>5 DEF CollectDigit
    <3>2. value < Room(n)
      BY <3>1 DEF RoomLeft
    <3>3. n \in 0 .. BufferSize - 1
      <4>1. n # BufferSize
        BY <1>1, <3>1, <3>2, RoomFacts
      <4> QED
        BY <1>1, <4>1, RoomFacts
    <3>4. value \div Base < Room(n + 1)
      <4>1. /\ Room(n) = Base * Room(n + 1) /\ Base \in 2 .. 10
            /\ Room(n + 1) \in Nat
        BY <3>3, RoomFacts
      <4> QED
        BY <1>1, <3>2, <4>1, FewerDigits, Zenon
    <3>5. Len(buffer') = n + 1
      BY <1>1, <3>1
    <3>6. Len(buffer') <= BufferSize
      BY <3>3, <3>5, RoomFacts
    <3> HIDE DEF n
    <3> QED
      BY <1>1, <3>1, <3>4, <3>5, <3>6 DEF RoomLeft
  <2>6. CASE WriteDigit
    <3>1. /\ value = 0 /\ value' = value /\ buffer # <<>> /\ buffer' = Front(buffer)
          /\ args' = args /\ phase' = IF buffer' = <<>> THEN "format" ELSE "digits"
      BY <2>6 DEF WriteDigit
    <3>2. Len(buffer') \in Nat /\ Len(buffer') <= BufferSize
      <4>1. Len(Front(buffer)) <= Len(buffer) /\ Len(Front(buffer)) \in Nat
        BY <1>1, <3>1, FrontAndLast
      <4> QED
        BY <1>1, <3>1, <4>1, RoomFacts
    <3>3. 0 < Room(Len(buffer'))
      BY <3>2, RoomFacts
    <3> QED
      BY <1>1, <3>1, <3>2, <3>3 DEF RoomLeft
  <2> QED
    BY <1>4, <2>1, <2>2, <2>3, <2>4, <2>5, <2>6 DEF Hlprintf
<1> QED
  BY <1>3, <1>4 DEF Next, vars

(* The buffer of uart_put_uint never overflows, for every base, width of   *)
(* numbers and size of the buffer that holds the digits of the largest,    *)
(* whatever the format asks for.                                           *)
THEOREM BufferIsLargeEnough == Spec => []BufferHoldsEveryNumber
<1>1. RoomLeft => BufferHoldsEveryNumber
  BY DEF RoomLeft, BufferHoldsEveryNumber
<1> QED
  BY TypesInit, TypesNext, RoomLeftInit, RoomLeftNext, <1>1, PTL DEF Spec

-----------------------------------------------------------------------------
(* What a format says, as a mathematical object. *)
Turns(text, arguments, meaning, a) ==
  [k \in 0 .. Len(arguments) |-> Turn(text, arguments, meaning, a, k)]

IsMeaning(text, arguments, meaning) ==
  meaning = [a \in DOMAIN text |-> Turns(text, arguments, meaning, a)]

(* What a format says from an address on depends on what it says from the  *)
(* addresses behind.                                                       *)
LEMMA TurnsAgree ==
  ASSUME NEW text, NEW arguments, NEW a \in Nat, DOMAIN text \subseteq Nat,
         NEW f, NEW g, DOMAIN f = DOMAIN text, DOMAIN g = DOMAIN text,
         \A b \in DOMAIN text : b > a => f[b] = g[b]
  PROVE  Turns(text, arguments, f, a) = Turns(text, arguments, g, a)
<1>1. /\ \A k : Behind(f, a + 1, k) = Behind(g, a + 1, k)
      /\ \A k : Behind(f, a + 2, k) = Behind(g, a + 2, k)
  <2>1. a + 1 > a /\ a + 2 > a
    OBVIOUS
  <2> QED
    BY <2>1, Zenon DEF Behind
<1>2. \A k : Turn(text, arguments, f, a, k) = Turn(text, arguments, g, a, k)
  <2> TAKE k
  <2>1. /\ Behind(f, a + 1, k) = Behind(g, a + 1, k) /\ Behind(f, a + 2, k) = Behind(g, a + 2, k)
        /\ Behind(f, a + 2, k + 1) = Behind(g, a + 2, k + 1)
    BY <1>1
  <2> QED
    BY <2>1, Zenon DEF Turn
<1> QED
  BY <1>2, Zenon DEF Turns

(* The recursion of Meaning has a solution, because it goes up and there   *)
(* is a last address.                                                      *)
LEMMA MeaningExists ==
  ASSUME NEW text, NEW arguments, NEW top \in Nat,
         \A a \in DOMAIN text : a \in Nat /\ a < top
  PROVE  \E f : IsMeaning(text, arguments, f)
<1> DEFINE D == DOMAIN text
           Again(f) == [a \in D |-> Turns(text, arguments, f, a)]
           Settled(f, n) == /\ DOMAIN f = D
                            /\ \A a \in D : a >= top - n => f[a] = Turns(text, arguments, f, a)
           Never == {n \in Nat : ~\E f : Settled(f, n)}
<1>1. 0 \notin Never
  <2>1. Settled([a \in D |-> {}], 0)
    OBVIOUS
  <2> QED
    BY <2>1
<1>2. ASSUME NEW n \in Nat, NEW f, Settled(f, n)
      PROVE  Settled(Again(f), n + 1)
  <2> DEFINE g == Again(f)
  <2>1. DOMAIN g = D /\ \A a \in D : g[a] = Turns(text, arguments, f, a)
    BY Zenon
  <2>2. ASSUME NEW a \in D, a >= top - (n + 1)
        PROVE  g[a] = Turns(text, arguments, g, a)
    <3>1. \A b \in D : b > a => f[b] = g[b]
      <4> HIDE DEF g
      <4> QED
        BY <1>2, <2>1, <2>2
    <3>2. a \in Nat /\ D \subseteq Nat /\ DOMAIN f = D
      BY <1>2
    <3> HIDE DEF g
    <3>3. Turns(text, arguments, f, a) = Turns(text, arguments, g, a)
      BY <2>1, <3>1, <3>2, TurnsAgree, ZenonT(40)
    <3> QED
      BY <2>1, <3>3
  <2> HIDE DEF g
  <2> QED
    BY <2>1, <2>2 DEF g
<1>3. Never = {}
  <2> SUFFICES ASSUME Never # {} PROVE FALSE
    OBVIOUS
  <2>1. PICK n \in Never : \A m \in Never : n <= m
    <3>1. Never \in SUBSET Nat
      OBVIOUS
    <3> HIDE DEF Never
    <3> QED
      BY <3>1, LeastNumber
  <2>2. n \in Nat /\ n # 0
    BY <1>1, <2>1
  <2>3. n - 1 \in Nat /\ n - 1 \notin Never
    <3> HIDE DEF Never
    <3> QED
      BY <2>1, <2>2
  <2>4. PICK f : Settled(f, n - 1)
    BY <2>3
  <2> HIDE DEF Settled, Again
  <2>5. Settled(Again(f), (n - 1) + 1)
    BY <2>3, <2>4, <1>2
  <2>6. (n - 1) + 1 = n
    BY <2>2
  <2> QED
    BY <2>1, <2>5, <2>6
<1>4. PICK f : Settled(f, top)
  <2> HIDE DEF Settled
  <2> QED
    BY <1>3
<1> DEFINE g == Again(f)
<1>5. /\ DOMAIN g = D /\ DOMAIN f = D /\ D \subseteq Nat
      /\ \A a \in D : g[a] = f[a]
  BY <1>4
<1>6. \A a \in D : Turns(text, arguments, f, a) = Turns(text, arguments, g, a)
  <2> TAKE a \in D
  <2>1. a \in Nat /\ \A b \in D : b > a => f[b] = g[b]
    BY <1>5
  <2> HIDE DEF g
  <2> QED
    BY <1>5, <2>1, TurnsAgree, Zenon
<1>7. g = Again(g)
  <2>1. g = [a \in D |-> Turns(text, arguments, f, a)]
    BY Zenon
  <2> HIDE DEF g
  <2> QED
    BY <1>6, <2>1, Zenon
<1> QED
  BY <1>7, Zenon DEF IsMeaning

LEMMA MeaningIs ==
  ASSUME NEW text, NEW arguments, NEW top \in Nat,
         \A a \in DOMAIN text : a \in Nat /\ a < top
  PROVE  IsMeaning(text, arguments, Meaning(text, arguments))
<1>1. \E f : IsMeaning(text, arguments, f)
  BY MeaningExists
<1>2. Meaning(text, arguments) = CHOOSE f : IsMeaning(text, arguments, f)
  BY Zenon DEF Meaning, IsMeaning, Turns
<1> HIDE DEF IsMeaning
<1> QED
  BY <1>1, <1>2, Zenon

LEMMA MeaningFacts ==
  ASSUME NEW text, NEW arguments \in Seq(Nat), NEW top \in Nat,
         \A a \in DOMAIN text : a \in Nat /\ a < top
  PROVE  LET meaning == Meaning(text, arguments)
         IN  /\ DOMAIN meaning = DOMAIN text
             /\ \A a \in DOMAIN text, k \in 0 .. Len(arguments) :
                  meaning[a][k] = Turn(text, arguments, meaning, a, k)
<1> DEFINE meaning == Meaning(text, arguments)
<1>1. meaning = [a \in DOMAIN text |-> Turns(text, arguments, meaning, a)]
  BY MeaningIs DEF IsMeaning
<1> HIDE DEF meaning
<1>2. /\ DOMAIN meaning = DOMAIN text
      /\ \A a \in DOMAIN text : meaning[a] = Turns(text, arguments, meaning, a)
  BY <1>1, Zenon
<1>3. \A a, k : k \in 0 .. Len(arguments) =>
          Turns(text, arguments, meaning, a)[k] = Turn(text, arguments, meaning, a, k)
  BY Zenon DEF Turns
<1> QED
  BY <1>2, <1>3, Zenon DEF meaning

-----------------------------------------------------------------------------
(* A text of bytes with a last address. *)
IsText(text) ==
  /\ text \in [DOMAIN text -> 0 .. 255] /\ DOMAIN text \subseteq Nat
  /\ \E top \in Nat : \A a \in DOMAIN text : a < top

LEMMA JoinedBytes ==
  ASSUME NEW S, NEW T, S \subseteq Seq(0 .. 255), T \subseteq Seq(0 .. 255)
  PROVE  Joined(S, T) \subseteq Seq(0 .. 255)
<1> SUFFICES ASSUME NEW x \in Joined(S, T) PROVE x \in Seq(0 .. 255)
  OBVIOUS
<1>0. PICK s \in S, t \in T : x = s \o t
  BY DEF Joined
<1>1. s \in Seq(0 .. 255) /\ t \in Seq(0 .. 255)
  OBVIOUS
<1> QED
  BY <1>0, <1>1, ConcatProperties

LEMMA FunctionIsBytes ==
  ASSUME NEW n \in Nat, NEW f \in [1 .. n -> 0 .. 255]
  PROVE  f \in Seq(0 .. 255) /\ Len(f) = n
  OBVIOUS

LEMMA DecimalIsBytes ==
  ASSUME NEW number \in Nat, NEW n \in 1 .. BufferSize
  PROVE  Decimal(number, n) \in Seq(0 .. 255) /\ Len(Decimal(number, n)) = n
<1>1. BufferSize \in Nat /\ Base \in 2 .. 10
  BY DigitsAssumption
<1>2. \A k \in 1 .. n : Numeral((number \div Base^(n - k)) % Base) \in 0 .. 255
  <2> TAKE k \in 1 .. n
  <2> DEFINE weight == Base^(n - k)
             quotient == number \div weight
  <2>1. weight \in Nat /\ weight > 0
    <3>1. n - k \in 0 .. BufferSize
      BY <1>1
    <3>2. weight \in Nat \ {0}
      BY <3>1, PowersAssumption, Zenon
    <3> HIDE DEF weight
    <3> QED
      BY <3>2
  <2>2. quotient \in Nat
    <3> HIDE DEF weight
    <3> QED
      BY <2>1
  <2>3. quotient % Base \in 0 .. 15
    <3> HIDE DEF quotient
    <3> QED
      BY <1>1, <2>2
  <2> HIDE DEF quotient
  <2> QED
    BY <2>3, NumeralIsAByte DEF quotient, weight
<1>3. Decimal(number, n) \in [1 .. n -> 0 .. 255]
  BY <1>2 DEF Decimal
<1> QED
  BY <1>1, <1>3

LEMMA RenderedBytes ==
  ASSUME NEW text, IsText(text), NEW conversion, IsConversion(conversion),
         NEW argument \in Nat
  PROVE  Rendered(text, conversion, argument) \subseteq Seq(0 .. 255)
<1>1. /\ Conversions.c = 99 /\ Conversions.s = 115 /\ Conversions.u = 117
      /\ Conversions.x = 120
      /\ conversion \in {99, 115, 117, 120}
  BY DEF IsConversion, Conversions
<1>2. CASE conversion = 99
  <2>1. Rendered(text, conversion, argument) = {<<argument % 256>>}
    BY <1>1, <1>2 DEF Rendered
  <2>2. argument % 256 \in 0 .. 255
    OBVIOUS
  <2> QED
    BY <2>1, <2>2
<1>3. CASE conversion = 115
  <2>1. Rendered(text, conversion, argument)
          = {[k \in 1 .. a - argument |-> text[argument + k - 1]] : a \in Ends(text, argument)}
    BY <1>1, <1>3 DEF Rendered
  <2>2. ASSUME NEW a \in Ends(text, argument)
        PROVE  [k \in 1 .. a - argument |-> text[argument + k - 1]] \in Seq(0 .. 255)
    <3>1. a \in Nat /\ argument <= a /\ argument .. a \subseteq DOMAIN text
      BY DEF Ends, IsText
    <3>2. \A k \in 1 .. a - argument : text[argument + k - 1] \in 0 .. 255
      <4> TAKE k \in 1 .. a - argument
      <4>1. argument + k - 1 \in argument .. a
        BY <3>1
      <4>2. argument + k - 1 \in DOMAIN text
        BY <3>1, <4>1
      <4> QED
        BY <4>2 DEF IsText
    <3>3. a - argument \in Nat
      BY <3>1
    <3>4. [k \in 1 .. a - argument |-> text[argument + k - 1]]
            \in [1 .. a - argument -> 0 .. 255]
      BY <3>2
    <3> QED
      BY <3>3, <3>4, FunctionIsBytes, Zenon
  <2> QED
    BY <2>1, <2>2, Zenon
<1>4. CASE conversion = 120
  <2>1. Rendered(text, conversion, argument) = {<<48, 120>> \o Hex(argument)}
    BY <1>1, <1>4 DEF Rendered
  <2>2. <<48, 120>> \o Hex(argument) \in Seq(0 .. 255)
    <3>1. <<48, 120>> \in Seq(0 .. 255)
      OBVIOUS
    <3> QED
      BY <3>1, HexIsBytes, ConcatProperties
  <2> QED
    BY <2>1, <2>2, Zenon
<1>5. CASE conversion = 117
  <2>1. Rendered(text, conversion, argument)
          = {Decimal(argument, n) : n \in Lengths(argument)}
    BY <1>1, <1>5 DEF Rendered
  <2>2. \A n \in Lengths(argument) : Decimal(argument, n) \in Seq(0 .. 255)
    BY DecimalIsBytes DEF Lengths
  <2> QED
    BY <2>1, <2>2, Zenon
<1> QED
  BY <1>1, <1>2, <1>3, <1>4, <1>5

LEMMA MeaningIsBytes ==
  ASSUME NEW text, IsText(text), NEW arguments \in Seq(Nat)
  PROVE  \A a, k : k \in 0 .. Len(arguments) =>
           Behind(Meaning(text, arguments), a, k) \subseteq Seq(0 .. 255)
<1> DEFINE meaning == Meaning(text, arguments)
           Bad(a, k) == ~(Behind(meaning, a, k) \subseteq Seq(0 .. 255))
           K == 0 .. Len(arguments)
<1>1. PICK top \in Nat : \A a \in DOMAIN text : a \in Nat /\ a < top
  BY DEF IsText
<1>2. /\ DOMAIN meaning = DOMAIN text
      /\ \A a \in DOMAIN text, k \in K :
           meaning[a][k] = Turn(text, arguments, meaning, a, k)
  BY <1>1, MeaningFacts
<1>0. NUL # Percent
  BY DEF NUL, Percent
<1> HIDE DEF meaning
<1>3. ASSUME NEW a \in DOMAIN text, NEW k \in K,
             \A b \in DOMAIN text, j \in K : b > a => ~Bad(b, j)
      PROVE  ~Bad(a, k)
  <2>1. Len(arguments) \in Nat /\ a \in Nat /\ k \in Nat
    BY <1>1
  <2>2. \A b, j : b \notin DOMAIN text => Behind(meaning, b, j) = {}
    BY <1>2, Zenon DEF Behind
  <2>3. \A j \in K : /\ Behind(meaning, a + 1, j) \subseteq Seq(0 .. 255)
                     /\ Behind(meaning, a + 2, j) \subseteq Seq(0 .. 255)
    <3>1. a + 1 > a /\ a + 2 > a
      BY <2>1
    <3> QED
      BY <1>3, <2>2, <3>1, ZenonT(40)
  <2>3a. /\ Behind(meaning, a + 1, k) \subseteq Seq(0 .. 255)
         /\ Behind(meaning, a + 2, k) \subseteq Seq(0 .. 255)
    BY <2>3
  <2> DEFINE turn == Turn(text, arguments, meaning, a, k)
  <2>4. Behind(meaning, a, k) = turn
    BY <1>2, Zenon DEF Behind
  <2> HIDE DEF turn
  <2>5. CASE text[a] = NUL
    <3>1. turn = {<<>>}
      BY <2>5, Zenon DEF turn, Turn
    <3> QED
      BY <2>4, <3>1
  <2>6. CASE text[a] \notin {NUL, Percent}
    <3> DEFINE S == {<<text[a]>>}
    <3>1. turn = Joined(S, Behind(meaning, a + 1, k))
      BY <2>6, Zenon DEF turn, Turn
    <3>2. S \subseteq Seq(0 .. 255)
      BY DEF IsText
    <3> HIDE DEF S
    <3> QED
      BY <2>3a, <2>4, <3>1, <3>2, JoinedBytes
  <2>7. CASE text[a] = Percent /\ a + 1 \in DOMAIN text /\ text[a + 1] # NUL
    <3>1. CASE ~IsConversion(text[a + 1])
      <4> DEFINE character == IF text[a + 1] = Percent THEN Percent ELSE QuestionMark
                 S == {<<character>>}
      <4>1. turn = Joined(S, Behind(meaning, a + 2, k))
        BY <1>0, <2>7, <3>1, Zenon DEF turn, Turn
      <4>2. S \subseteq Seq(0 .. 255)
        BY DEF Percent, QuestionMark
      <4> HIDE DEF S
      <4> QED
        BY <2>3a, <2>4, <4>1, <4>2, JoinedBytes
    <3>2. CASE IsConversion(text[a + 1]) /\ k # Len(arguments)
      <4> DEFINE rendered == Rendered(text, text[a + 1], arguments[k + 1])
      <4>1. turn = Joined(rendered, Behind(meaning, a + 2, k + 1))
        BY <1>0, <2>7, <3>2, Zenon DEF turn, Turn
      <4>2. k + 1 \in K /\ arguments[k + 1] \in Nat
        BY <2>1, <3>2
      <4>3. rendered \subseteq Seq(0 .. 255)
        BY <3>2, <4>2, RenderedBytes, Zenon
      <4> HIDE DEF rendered
      <4> QED
        BY <2>3, <2>4, <4>1, <4>2, <4>3, JoinedBytes
    <3>3. CASE IsConversion(text[a + 1]) /\ k = Len(arguments)
      <4>1. turn = {}
        BY <1>0, <2>7, <3>3, Zenon DEF turn, Turn
      <4> QED
        BY <2>4, <4>1
    <3> QED
      BY <3>1, <3>2, <3>3
  <2>8. CASE text[a] = Percent /\ (a + 1 \notin DOMAIN text \/ text[a + 1] = NUL)
    <3>1. turn = {}
      BY <1>0, <2>8, Zenon DEF turn, Turn
    <3> QED
      BY <2>4, <3>1
  <2> QED
    BY <2>5, <2>6, <2>7, <2>8
<1> DEFINE Worst == {top - a : a \in {b \in DOMAIN text : \E j \in K : Bad(b, j)}}
<1>4. Worst = {}
  <2> SUFFICES ASSUME Worst # {} PROVE FALSE
    OBVIOUS
  <2>1. PICK n \in Worst : \A m \in Worst : n <= m
    <3>1. Worst \in SUBSET Nat
      BY <1>1
    <3> HIDE DEF Worst
    <3> QED
      BY <3>1, LeastNumber
  <2>2. PICK a \in DOMAIN text, k \in K : n = top - a /\ Bad(a, k)
    <3> HIDE DEF Bad
    <3> QED
      BY <2>1
  <2> HIDE DEF Bad
  <2>3. \A b \in DOMAIN text, j \in K : b > a => ~Bad(b, j)
    <3> SUFFICES ASSUME NEW b \in DOMAIN text, NEW j \in K, b > a, Bad(b, j)
                 PROVE  FALSE
      OBVIOUS
    <3>1. top - b \in Worst
      OBVIOUS
    <3>2. n <= top - b
      BY <2>1, <3>1
    <3> QED
      BY <1>1, <2>2, <3>2
  <2> QED
    BY <1>3, <2>2, <2>3
<1>5. \A a \in DOMAIN text, k \in K : Behind(meaning, a, k) \subseteq Seq(0 .. 255)
  BY <1>4, ZenonT(40)
<1>6. \A a, k : a \notin DOMAIN text => Behind(meaning, a, k) = {}
  BY <1>2, Zenon DEF Behind
<1> QED
  BY <1>5, <1>6, Zenon DEF meaning

-----------------------------------------------------------------------------
(* The digits of a number. *)
LEMMA QuotientIs ==
  ASSUME NEW n \in Nat, NEW d \in Nat, d > 0, NEW q \in Nat, NEW r \in Nat,
         r < d, n = d * q + r
  PROVE  n \div d = q
<1> DEFINE t == n \div d
           u == n % d
<1>1. t \in Nat /\ u \in Nat /\ u < d /\ n = d * t + u
  OBVIOUS
<1> HIDE DEF t, u
<1>2. CASE t > q
  <2>1. t - q - 1 \in Nat /\ d * (t - q - 1) >= 0
    BY <1>1, <1>2
  <2>2. d * (t - q - 1) = d * t - d * q - d
    BY <1>1
  <2> QED
    BY <1>1, <2>1, <2>2
<1>3. CASE q > t
  <2>1. q - t - 1 \in Nat /\ d * (q - t - 1) >= 0
    BY <1>1, <1>3
  <2>2. d * (q - t - 1) = d * q - d * t - d
    BY <1>1
  <2> QED
    BY <1>1, <2>1, <2>2
<1> QED
  BY <1>1, <1>2, <1>3 DEF t

LEMMA QuotientOfQuotient ==
  ASSUME NEW n \in Nat, NEW b \in Nat, NEW p \in Nat, b > 0, p > 0
  PROVE  n \div (b * p) = (n \div b) \div p
<1> DEFINE m == n \div b
           r == n % b
           q == m \div p
           s == m % p
<1>1. m \in Nat /\ r \in Nat /\ r < b /\ n = b * m + r
  OBVIOUS
<1>2. q \in Nat /\ s \in Nat /\ s < p /\ m = p * q + s
  <2> HIDE DEF m
  <2> QED
    BY <1>1
<1> HIDE DEF m, r, q, s
<1>3. n = (b * p) * q + (b * s + r)
  <2>1. b * m = b * (p * q + s)
    BY <1>2
  <2>2. b * (p * q + s) = (b * p) * q + b * s
    BY <1>2
  <2> QED
    BY <1>1, <1>2, <2>1, <2>2
<1>4. b * s + r \in Nat /\ b * s + r < b * p
  <2>1. b * (p - 1 - s) = b * p - b - b * s /\ b * (p - 1 - s) >= 0
    <3>1. p - 1 - s \in Nat
      BY <1>2
    <3> QED
      BY <1>2, <3>1
  <2>2. b * s \in Nat
    BY <1>2
  <2> QED
    BY <1>1, <1>2, <2>1, <2>2
<1>5. b * p \in Nat /\ b * p > 0
  OBVIOUS
<1> DEFINE d == b * p
           w == b * s + r
<1>6. d \in Nat /\ d > 0 /\ w \in Nat /\ w < d /\ n = d * q + w
  BY <1>3, <1>4, <1>5
<1>7. n \div d = q
  <2> HIDE DEF d, w
  <2> QED
    BY <1>2, <1>6, QuotientIs
<1> QED
  BY <1>7 DEF q, m

LEMMA MoreDigits ==
  ASSUME NEW n \in Nat, NEW b \in Nat, NEW p \in Nat, b > 0, b * p <= n
  PROVE  p <= n \div b
<1> DEFINE m == n \div b
<1>1. m \in Nat /\ n < b * m + b
  OBVIOUS
<1> HIDE DEF m
<1>2. CASE p > m
  <2>1. p - m - 1 \in Nat /\ b * (p - m - 1) >= 0
    BY <1>1, <1>2
  <2>2. b * (p - m - 1) = b * p - b * m - b
    BY <1>1
  <2> QED
    BY <1>1, <2>1, <2>2
<1> QED
  BY <1>1, <1>2 DEF m

(* The powers of Base. *)
LEMMA PowerFacts ==
  /\ Base \in Nat /\ Base \in 2 .. 10 /\ BufferSize \in Nat
  /\ Base^0 = 1
  /\ \A k \in 0 .. BufferSize : Base^k \in Nat /\ Base^k > 0
  /\ \A k \in 1 .. BufferSize : Base^k = Base * Base^(k - 1)
<1>1. Base \in 2 .. 10 /\ BufferSize \in Nat
  BY DigitsAssumption
<1>2. \A k \in 0 .. BufferSize : Base^k \in Nat /\ Base^k > 0
  <2> TAKE k \in 0 .. BufferSize
  <2> DEFINE power == Base^k
  <2>1. power \in Nat \ {0}
    BY PowersAssumption, Zenon
  <2> HIDE DEF power
  <2>2. power \in Nat /\ power > 0
    BY <2>1
  <2> QED
    BY <2>2 DEF power
<1>3. Base^0 = 1 /\ \A k \in 1 .. BufferSize : Base^k = Base * Base^(k - 1)
  BY PowersAssumption, Zenon
<1> QED
  BY <1>1, <1>2, <1>3

(* What the lowest digit of a number leaves is the number without it. *)
LEMMA LowestDigit ==
  ASSUME NEW number \in Nat, NEW n \in Lengths(number)
  PROVE  LET digit == Numeral(number % Base)
             left == number \div Base
         IN  /\ left = 0 => Decimal(number, n) = <<digit>>
             /\ left > 0 => /\ n - 1 \in Lengths(left)
                            /\ Decimal(number, n) = Decimal(left, n - 1) \o <<digit>>
<1> DEFINE digit == Numeral(number % Base)
           left == number \div Base
           P(k) == Base^k
<1>1. /\ Base \in Nat /\ Base \in 2 .. 10 /\ BufferSize \in Nat /\ P(0) = 1
      /\ \A k \in 0 .. BufferSize : P(k) \in Nat /\ P(k) > 0
      /\ \A k \in 1 .. BufferSize : P(k) = Base * P(k - 1)
  BY PowerFacts, Zenon
<1>2. n \in 1 .. BufferSize /\ number < P(n) /\ (n > 1 => number >= P(n - 1))
  BY Zenon DEF Lengths
<1>3. \A k \in 1 .. n : Decimal(number, n)[k] = Numeral((number \div P(n - k)) % Base)
  BY Zenon DEF Decimal
<1>4. \A m : m \in 1 .. BufferSize /\ left < P(m) /\ (m > 1 => left >= P(m - 1))
              => m \in Lengths(left)
  BY Zenon DEF Lengths
<1>5. \A m : \A k \in 1 .. m : Decimal(left, m)[k] = Numeral((left \div P(m - k)) % Base)
  BY Zenon DEF Decimal
<1> HIDE DEF P
<1>6. left \in Nat /\ number % Base \in 0 .. 15
  <2>1. number % Base \in 0 .. Base - 1
    BY <1>1
  <2>2. left \in Nat
    BY <1>1, Quotient
  <2> QED
    BY <1>1, <2>1, <2>2
<1>7. digit \in 0 .. 255
  BY <1>6, NumeralIsAByte
<1>8. /\ Decimal(number, n) \in Seq(0 .. 255) /\ Len(Decimal(number, n)) = n
  BY <1>2, DecimalIsBytes
<1>9. number \div P(0) = number
  BY <1>1
<1>10. CASE n = 1
  <2>1. number < Base
    <3>1. P(1) = Base * P(0)
      <4>1. 1 \in 1 .. BufferSize /\ 1 - 1 = 0
        BY <1>1, <1>2
      <4> QED
        BY <1>1, <4>1, Zenon
    <3> QED
      BY <1>1, <1>2, <1>10, <3>1
  <2>2. left = 0
    <3>1. number = Base * 0 + number
      BY <1>1
    <3> QED
      BY <1>1, <2>1, <3>1, QuotientIs
  <2>3. Decimal(number, n)[1] = digit
    <3>1. 1 \in 1 .. n /\ n - 1 = 0
      BY <1>10
    <3> QED
      BY <1>3, <1>9, <3>1, Zenon
  <2>4. Decimal(number, n) = <<digit>>
    <3> HIDE DEF digit
    <3> QED
      BY <1>7, <1>8, <1>10, <2>3
  <2> QED
    BY <2>2, <2>4
<1>11. CASE n > 1
  <2>1. n - 1 \in 1 .. BufferSize /\ n - 1 \in Nat /\ n - 1 - 1 = n - 2 /\ n \in Nat
    BY <1>1, <1>2, <1>11
  <2>2. /\ P(n) = Base * P(n - 1) /\ P(n - 1) = Base * P(n - 2)
        /\ P(n - 1) \in Nat /\ P(n - 2) \in Nat /\ P(n - 2) > 0
    <3>1. n - 1 \in 0 .. BufferSize /\ n - 2 \in 0 .. BufferSize
      BY <1>1, <1>2, <1>11
    <3> QED
      BY <1>1, <1>2, <2>1, <3>1, Zenon
  <2>3. left >= P(n - 2) /\ left > 0
    <3>1. Base * P(n - 2) <= number /\ Base > 0
      BY <1>1, <1>2, <1>11, <2>2
    <3>2. P(n - 2) <= left
      <4> DEFINE p == P(n - 2)
      <4>1. p \in Nat /\ Base * p <= number
        BY <2>2, <3>1
      <4> HIDE DEF p
      <4>2. p <= number \div Base
        BY <1>1, <3>1, <4>1, MoreDigits
      <4> QED
        BY <4>2 DEF p
    <3> QED
      BY <1>6, <2>2, <3>2
  <2>4. left < P(n - 1)
    <3>1. number < Base * P(n - 1)
      BY <1>2, <2>2
    <3> DEFINE p == P(n - 1)
    <3>2. p \in Nat /\ number < Base * p
      BY <2>2, <3>1
    <3> HIDE DEF p
    <3>3. number \div Base < p
      BY <1>1, <3>2, FewerDigits
    <3> QED
      BY <3>3 DEF p
  <2>5. n - 1 \in Lengths(left)
    <3> HIDE DEF left
    <3> QED
      BY <1>4, <2>1, <2>3, <2>4
  <2>6. /\ Decimal(left, n - 1) \in Seq(0 .. 255) /\ Len(Decimal(left, n - 1)) = n - 1
    BY <1>6, <2>1, DecimalIsBytes
  <2>7. \A k \in 1 .. n - 1 : Decimal(number, n)[k] = Decimal(left, n - 1)[k]
    <3> TAKE k \in 1 .. n - 1
    <3>1. /\ n - k \in 1 .. BufferSize /\ (n - k) - 1 = (n - 1) - k /\ k \in 1 .. n
          /\ (n - 1) - k \in 0 .. BufferSize
      BY <1>1, <1>2, <2>1
    <3> DEFINE p == P((n - 1) - k)
    <3>2. P(n - k) = Base * p /\ p \in Nat /\ p > 0
      BY <1>1, <3>1, Zenon
    <3> HIDE DEF p
    <3>3. number \div (Base * p) = (number \div Base) \div p
      BY <1>1, <3>2, QuotientOfQuotient
    <3>4. Decimal(number, n)[k] = Numeral((number \div P(n - k)) % Base)
      BY <1>3, <3>1, Zenon
    <3>5. Decimal(left, n - 1)[k] = Numeral((left \div P((n - 1) - k)) % Base)
      BY <1>5, Zenon
    <3> QED
      BY <3>2, <3>3, <3>4, <3>5, Zenon DEF p
  <2>8. Decimal(number, n)[n] = digit
    <3>1. n \in 1 .. n /\ n - n = 0
      BY <1>11, <2>1
    <3> QED
      BY <1>3, <1>9, <3>1, Zenon
  <2>9. Decimal(number, n) = Decimal(left, n - 1) \o <<digit>>
    <3> DEFINE whole == Decimal(number, n)
               front == Decimal(left, n - 1)
    <3>1. /\ whole \in Seq(0 .. 255) /\ Len(whole) = n
          /\ front \in Seq(0 .. 255) /\ Len(front) = n - 1
          /\ \A k \in 1 .. n - 1 : whole[k] = front[k]
          /\ whole[n] = digit
      BY <1>8, <2>6, <2>7, <2>8
    <3> HIDE DEF whole, front, digit
    <3>2. whole = front \o <<digit>>
      <4>1. front \o <<digit>> \in Seq(0 .. 255) /\ Len(front \o <<digit>>) = n
        BY <1>7, <2>1, <3>1
      <4>2. \A k \in 1 .. n : whole[k] = (front \o <<digit>>)[k]
        BY <1>7, <2>1, <3>1
      <4> QED
        BY <3>1, <4>1, <4>2, SeqEqual
    <3> QED
      BY <3>2 DEF whole, front
  <2> QED
    BY <2>3, <2>5, <2>9, <1>6
<1> QED
  BY <1>2, <1>10, <1>11

-----------------------------------------------------------------------------
(* What a format says from an address on, one turn at a time. *)
TurnTaken(text, arguments, k, a, rest) ==
  LET meaning == Meaning(text, arguments)
      next == text[a + 1]
  IN  /\ a \in DOMAIN text /\ rest \in Seq(0 .. 255)
      /\ text[a] = NUL => rest = <<>>
      /\ text[a] \notin {NUL, Percent} =>
           \E more \in Behind(meaning, a + 1, k) : rest = <<text[a]>> \o more
      /\ text[a] = Percent => a + 1 \in DOMAIN text /\ next # NUL
      /\ text[a] = Percent /\ ~IsConversion(next) =>
           \E more \in Behind(meaning, a + 2, k) :
              rest = <<IF next = Percent THEN Percent ELSE QuestionMark>> \o more
      /\ text[a] = Percent /\ IsConversion(next) =>
           /\ k # Len(arguments)
           /\ \E rendered \in Rendered(text, next, arguments[k + 1]),
                 more \in Behind(meaning, a + 2, k + 1) : rest = rendered \o more

LEMMA Unfolded ==
  ASSUME NEW text, IsText(text), NEW arguments \in Seq(Nat),
         NEW k \in 0 .. Len(arguments), NEW a,
         NEW rest \in Behind(Meaning(text, arguments), a, k)
  PROVE  TurnTaken(text, arguments, k, a, rest)
<1> DEFINE meaning == Meaning(text, arguments)
           next == text[a + 1]
<1>1. PICK top \in Nat : \A b \in DOMAIN text : b \in Nat /\ b < top
  BY DEF IsText
<1>2. /\ DOMAIN meaning = DOMAIN text
      /\ \A b \in DOMAIN text, j \in 0 .. Len(arguments) :
           meaning[b][j] = Turn(text, arguments, meaning, b, j)
  BY <1>1, MeaningFacts
<1>3. Behind(meaning, a, k) \subseteq Seq(0 .. 255)
  BY MeaningIsBytes
<1> HIDE DEF meaning
<1>4. rest \in Behind(meaning, a, k)
  BY DEF meaning
<1>5. a \in DOMAIN text /\ rest \in Turn(text, arguments, meaning, a, k)
  BY <1>2, <1>4, Zenon DEF Behind
<1>6. \A S, T : rest \in Joined(S, T) => \E s \in S, t \in T : rest = s \o t
  BY DEF Joined
<1>7. ASSUME NEW s, NEW T, rest \in Joined({s}, T)
      PROVE  \E t \in T : rest = s \o t
  <2> DEFINE S == {s}
  <2>1. rest \in Joined(S, T) /\ \A r \in S : r = s
    BY <1>7
  <2> HIDE DEF S
  <2>2. PICK r \in S, t \in T : rest = r \o t
    BY <1>6, <2>1
  <2>3. r = s
    BY <2>1
  <2> QED
    BY <2>2, <2>3
<1>8. NUL # Percent
  BY DEF NUL, Percent
<1>9. text[a] = NUL => rest = <<>>
  BY <1>5, Zenon DEF Turn
<1>10. ASSUME text[a] \notin {NUL, Percent}
       PROVE  \E more \in Behind(meaning, a + 1, k) : rest = <<text[a]>> \o more
  <2>1. rest \in Joined({<<text[a]>>}, Behind(meaning, a + 1, k))
    BY <1>5, <1>10, Zenon DEF Turn
  <2> QED
    BY <1>7, <2>1, Zenon
<1>11. ASSUME text[a] = Percent
       PROVE  a + 1 \in DOMAIN text /\ next # NUL
  BY <1>5, <1>8, <1>11, Zenon DEF Turn
<1>12. ASSUME text[a] = Percent, ~IsConversion(next)
       PROVE  \E more \in Behind(meaning, a + 2, k) :
                 rest = <<IF next = Percent THEN Percent ELSE QuestionMark>> \o more
  <2>1. rest \in Joined({<<IF next = Percent THEN Percent ELSE QuestionMark>>},
                        Behind(meaning, a + 2, k))
    BY <1>5, <1>8, <1>11, <1>12, Zenon DEF Turn
  <2> QED
    BY <1>7, <2>1, Zenon
<1>13. ASSUME text[a] = Percent, IsConversion(next)
       PROVE  /\ k # Len(arguments)
              /\ \E rendered \in Rendered(text, next, arguments[k + 1]),
                    more \in Behind(meaning, a + 2, k + 1) : rest = rendered \o more
  <2>1. k # Len(arguments)
    BY <1>5, <1>8, <1>11, <1>13, Zenon DEF Turn
  <2>2. rest \in Joined(Rendered(text, next, arguments[k + 1]),
                        Behind(meaning, a + 2, k + 1))
    BY <1>5, <1>8, <1>11, <1>13, <2>1, Zenon DEF Turn
  <2> QED
    BY <1>6, <2>1, <2>2, Zenon
<1> QED
  BY <1>3, <1>4, <1>5, <1>9, <1>10, <1>11, <1>12, <1>13, Zenon DEF TurnTaken, meaning

(* What a conversion makes of an argument, one conversion at a time. *)
MadeOf(text, conversion, argument, rendered) ==
  /\ conversion = Conversions.c => rendered = <<argument % 256>>
  /\ conversion = Conversions.x => rendered = <<48, 120>> \o Hex(argument)
  /\ conversion = Conversions.u =>
       \E n \in Lengths(argument) : rendered = Decimal(argument, n)
  /\ conversion = Conversions.s =>
       \E a \in Ends(text, argument) :
         rendered = [k \in 1 .. a - argument |-> text[argument + k - 1]]

LEMMA RenderedIs ==
  ASSUME NEW text, NEW conversion, NEW argument,
         NEW rendered \in Rendered(text, conversion, argument)
  PROVE  MadeOf(text, conversion, argument, rendered)
<1>1. /\ Conversions.c = 99 /\ Conversions.s = 115 /\ Conversions.u = 117
      /\ Conversions.x = 120
  BY DEF Conversions
<1>2. conversion = 99 => Rendered(text, conversion, argument) = {<<argument % 256>>}
  BY <1>1 DEF Rendered
<1>3. conversion = 120 =>
        Rendered(text, conversion, argument) = {<<48, 120>> \o Hex(argument)}
  BY <1>1 DEF Rendered
<1>4. conversion = 117 =>
        Rendered(text, conversion, argument) = {Decimal(argument, n) : n \in Lengths(argument)}
  BY <1>1 DEF Rendered
<1>5. conversion = 115 =>
        Rendered(text, conversion, argument)
          = {[k \in 1 .. a - argument |-> text[argument + k - 1]] : a \in Ends(text, argument)}
  BY <1>1 DEF Rendered
<1>6. ASSUME conversion = Conversions.u
      PROVE  \E n \in Lengths(argument) : rendered = Decimal(argument, n)
  BY <1>1, <1>4, <1>6, Zenon
<1>7. ASSUME conversion = Conversions.s
      PROVE  \E a \in Ends(text, argument) :
               rendered = [k \in 1 .. a - argument |-> text[argument + k - 1]]
  BY <1>1, <1>5, <1>7, Zenon
<1>8. ASSUME conversion = Conversions.c PROVE rendered = <<argument % 256>>
  BY <1>1, <1>2, <1>8, Zenon
<1>9. ASSUME conversion = Conversions.x PROVE rendered = <<48, 120>> \o Hex(argument)
  BY <1>1, <1>3, <1>9, Zenon
<1> QED
  BY <1>6, <1>7, <1>8, <1>9, Zenon DEF MadeOf

-----------------------------------------------------------------------------
LEMMA ReverseOfEmpty == Reverse(<<>>) = <<>>
  BY DEF Reverse

LEMMA ReverseIsBytes ==
  ASSUME NEW s \in Seq(0 .. 255)
  PROVE  /\ Reverse(s) \in Seq(0 .. 255) /\ Len(Reverse(s)) = Len(s)
         /\ \A k \in 1 .. Len(s) : Reverse(s)[k] = s[Len(s) - k + 1]
<1>1. Len(s) \in Nat /\ \A k \in 1 .. Len(s) : s[Len(s) - k + 1] \in 0 .. 255
  <2>1. Len(s) \in Nat
    OBVIOUS
  <2>2. ASSUME NEW k \in 1 .. Len(s) PROVE s[Len(s) - k + 1] \in 0 .. 255
    <3>1. Len(s) - k + 1 \in 1 .. Len(s)
      BY <2>1
    <3> QED
      BY <3>1, ElementOfSeq
  <2> QED
    BY <2>1, <2>2
<1>2. Reverse(s) \in [1 .. Len(s) -> 0 .. 255]
  BY <1>1 DEF Reverse
<1>3. \A k \in 1 .. Len(s) : Reverse(s)[k] = s[Len(s) - k + 1]
  BY DEF Reverse
<1> QED
  <2> DEFINE turned == Reverse(s)
  <2>1. turned \in [1 .. Len(s) -> 0 .. 255] /\ Len(s) \in Nat
    BY <1>1, <1>2
  <2> HIDE DEF turned
  <2>2. turned \in Seq(0 .. 255) /\ Len(turned) = Len(s)
    BY <2>1, FunctionIsBytes, ZenonT(40)
  <2> QED
    BY <1>3, <2>2, Zenon DEF turned

(* A sequence turned round begins with its last element. *)
LEMMA ReverseOfAppend ==
  ASSUME NEW s \in Seq(0 .. 255), NEW b \in 0 .. 255
  PROVE  Reverse(Append(s, b)) = <<b>> \o Reverse(s)
<1> DEFINE t == Append(s, b)
           left == Reverse(t)
           right == <<b>> \o Reverse(s)
<1>1. /\ t \in Seq(0 .. 255) /\ Len(t) = Len(s) + 1 /\ Len(s) \in Nat
      /\ t[Len(s) + 1] = b /\ \A k \in 1 .. Len(s) : t[k] = s[k]
  OBVIOUS
<1> HIDE DEF t
<1>2. /\ left \in Seq(0 .. 255) /\ Len(left) = Len(s) + 1
      /\ \A k \in 1 .. Len(s) + 1 : left[k] = t[Len(s) + 1 - k + 1]
  BY <1>1, ReverseIsBytes
<1>3. /\ Reverse(s) \in Seq(0 .. 255) /\ Len(Reverse(s)) = Len(s)
      /\ \A k \in 1 .. Len(s) : Reverse(s)[k] = s[Len(s) - k + 1]
  BY ReverseIsBytes
<1>4. /\ right \in Seq(0 .. 255) /\ Len(right) = Len(s) + 1
      /\ \A k \in 1 .. Len(s) + 1 : right[k] = IF k = 1 THEN b ELSE Reverse(s)[k - 1]
  <2> DEFINE r == Reverse(s)
  <2>1. r \in Seq(0 .. 255) /\ Len(r) = Len(s)
    BY <1>3
  <2> HIDE DEF r
  <2>2. /\ <<b>> \o r \in Seq(0 .. 255) /\ Len(<<b>> \o r) = Len(s) + 1
        /\ \A k \in 1 .. Len(s) + 1 : (<<b>> \o r)[k] = IF k = 1 THEN b ELSE r[k - 1]
    BY <1>1, <2>1
  <2> QED
    BY <2>2 DEF r
<1> HIDE DEF left, right
<1>5. \A k \in 1 .. Len(s) + 1 : left[k] = right[k]
  <2> TAKE k \in 1 .. Len(s) + 1
  <2>1. CASE k = 1
    BY <1>1, <1>2, <1>4, <2>1
  <2>2. CASE k # 1
    <3>1. /\ k - 1 \in 1 .. Len(s) /\ Len(s) + 1 - k + 1 = Len(s) - (k - 1) + 1
          /\ Len(s) - (k - 1) + 1 \in 1 .. Len(s)
      BY <1>1, <2>2
    <3>2. left[k] = t[Len(s) - (k - 1) + 1]
      BY <1>2, <3>1
    <3>3. t[Len(s) - (k - 1) + 1] = s[Len(s) - (k - 1) + 1]
      BY <1>1, <3>1
    <3>4. right[k] = s[Len(s) - (k - 1) + 1]
      BY <1>3, <1>4, <2>2, <3>1
    <3> QED
      BY <3>2, <3>3, <3>4
  <2> QED
    BY <2>1, <2>2
<1>6. left = right
  BY <1>2, <1>4, <1>5, SeqEqual
<1> QED
  BY <1>6 DEF left, right, t

LEMMA ReverseOfLast ==
  ASSUME NEW s \in Seq(0 .. 255), s # <<>>
  PROVE  Reverse(s) = <<Last(s)>> \o Reverse(Front(s))
<1>1. Last(s) \in 0 .. 255 /\ Front(s) \in Seq(0 .. 255)
  BY FrontAndLast
<1>2. s = Append(Front(s), Last(s))
  BY DEF Front, Last
<1> QED
  BY <1>1, <1>2, ReverseOfAppend

(* The arguments left after one more has been taken. *)
LEMMA TakeArgument ==
  ASSUME NEW s \in Seq(Nat), NEW left \in Seq(Nat), NEW k \in 0 .. Len(s),
         k = Len(s) - Len(left), left = SubSeq(s, k + 1, Len(s)), left # <<>>
  PROVE  /\ k < Len(s) /\ Head(left) = s[k + 1] /\ Tail(left) \in Seq(Nat)
         /\ Len(s) - Len(Tail(left)) = k + 1
         /\ Tail(left) = SubSeq(s, k + 2, Len(s))
<1>1. /\ Len(s) \in Nat /\ Len(left) \in Nat /\ Len(left) > 0
      /\ Tail(left) \in Seq(Nat) /\ Len(Tail(left)) = Len(left) - 1
  OBVIOUS
<1>2. k < Len(s) /\ k + 1 \in 1 .. Len(s) /\ Len(s) \in k + 1 .. Len(s)
  BY <1>1
<1>3. Head(left) = s[k + 1] /\ Tail(left) = SubSeq(s, (k + 1) + 1, Len(s))
  BY <1>2, HeadTailOfSubSeq
<1>4. (k + 1) + 1 = k + 2 /\ Len(s) - (Len(left) - 1) = k + 1
  BY <1>1
<1> QED
  BY <1>1, <1>2, <1>3, <1>4, Zenon

-----------------------------------------------------------------------------
(* main changes nothing of its data. *)
DataStays ==
  phase = "main" \/ Hlprinting => \A a \in Data : a \in RamBytes /\ ram[a] = Text[a]

Used == Len(call.args) - Len(args)

ArgumentsLeft ==
  Hlprinting => /\ call \in Calls /\ Used \in 0 .. Len(call.args)
                /\ args = SubSeq(call.args, Used + 1, Len(call.args))

Reading == Meaning(Text, call.args)

(* What has been printed, the digits that wait and one of the readings of  *)
(* what is left of the format make up what is said.                        *)
Completes(said) ==
  /\ phase = "format" => \E rest \in Behind(Reading, fmt, Used) : said = uart \o rest
  /\ phase = "conversion" =>
       /\ fmt - 1 \in Data /\ Text[fmt - 1] = Percent
       /\ \E rest \in Behind(Reading, fmt - 1, Used) : said = uart \o rest
  /\ phase = "digits" /\ value = 0 =>
       \E rest \in Behind(Reading, fmt, Used) : said = uart \o (Reverse(buffer) \o rest)
  /\ phase = "digits" /\ value > 0 =>
       \E n \in Lengths(value), rest \in Behind(Reading, fmt, Used) :
          said = uart \o (Decimal(value, n) \o (Reverse(buffer) \o rest))
  /\ phase = "returned" => said = uart

PrintInv ==
  /\ phase \notin {"undefined", "failed"} /\ ~Hlprinting => uart = <<>>
  /\ Hlprinting => \A said \in Behind(Reading, call.fmt, 0) : Completes(said)

-----------------------------------------------------------------------------
LEMMA TextKept ==
  ASSUME UNCHANGED <<file, i, layout>>
  PROVE  Data' = Data /\ Text' = Text
<1>1. \A x : ByteOfImage(x, i)' = ByteOfImage(x, i)
  BY ImageKept
<1>2. \A a : Promised(a)' = Promised(a)
  BY <1>1 DEF Promised
<1>3. Data' = Data
  BY DEF Data
<1> QED
  BY <1>2, <1>3 DEF Text

LEMMA DataFacts ==
  ASSUME Types
  PROVE  /\ DOMAIN Text = Data /\ Data \subseteq Nat
         /\ \E top \in Nat : \A a \in Data : a < top
<1>1. DOMAIN Text = Data
  BY DEF Text
<1>2. Data \subseteq Nat /\ \A a \in Data : a < layout.edata + layout.ebss
  <2> DEFINE sdata == layout.sdata
             edata == layout.edata
             sbss == layout.sbss
             ebss == layout.ebss
  <2>1. Data = (sdata .. edata - 1) \cup (sbss .. ebss - 1)
    BY DEF Data
  <2>2. sdata \in Nat /\ edata \in Nat /\ sbss \in Nat /\ ebss \in Nat
    BY ResetFacts, Zenon
  <2> HIDE DEF sdata, edata, sbss, ebss
  <2>3. Data \subseteq Nat /\ \A a \in Data : a < edata + ebss
    BY <2>1, <2>2
  <2> QED
    BY <2>3 DEF edata, ebss
<1>3. layout.edata + layout.ebss \in Nat
  BY ResetFacts
<1> QED
  BY <1>1, <1>2, <1>3

LEMMA TextFacts ==
  ASSUME Types, DataStays, phase = "main" \/ Hlprinting
  PROVE  /\ IsText(Text) /\ DOMAIN Text = Data
         /\ \A a \in Data : a \in RamBytes /\ ram[a] = Text[a]
<1>1. \A a \in Data : a \in RamBytes /\ ram[a] = Text[a]
  BY DEF DataStays
<1>2. \A a \in Data : Text[a] \in 0 .. 255
  BY <1>1, TypeFacts DEF Byte
<1>3. Text \in [Data -> 0 .. 255]
  <2>1. Text = [a \in Data |-> Text[a]]
    BY DEF Text
  <2> QED
    BY <1>2, <2>1
<1>4. IsText(Text)
  BY <1>3, DataFacts DEF IsText
<1> QED
  BY <1>1, <1>4, DataFacts

LEMMA DataStaysInit == Init => DataStays
  BY DEF Init, BootInit, LoaderInit, DataStays, Hlprinting

LEMMA DataStaysNext ==
  Types /\ MemoryIsTheImage /\ BootInv /\ DataStays /\ [Next]_vars => DataStays'
<1> SUFFICES ASSUME Types, MemoryIsTheImage, BootInv, DataStays, [Next]_vars
             PROVE  DataStays'
  OBVIOUS
<1>1. CASE ~(phase' = "main" \/ Hlprinting')
  BY <1>1 DEF DataStays
<1>2. CASE /\ UNCHANGED <<ram, file, i, layout>> /\ (phase = "main" \/ Hlprinting)
  <2>1. Data' = Data /\ Text' = Text /\ RamBytes' = RamBytes
    BY <1>2, TextKept
  <2>2. \A a \in Data : a \in RamBytes /\ ram[a] = Text[a]
    BY <1>2 DEF DataStays
  <2>3. \A a \in Data' : a \in RamBytes' /\ ram'[a] = Text'[a]
    BY <1>2, <2>1, <2>2
  <2> QED
    BY <2>3 DEF DataStays
<1>3. CASE CallMain
  <2>1. /\ phase = "zeroing" /\ dst >= layout.ebss /\ phase' = "main"
        /\ UNCHANGED <<ram, file, i, layout>>
    BY <1>3 DEF CallMain
  <2>2. Data' = Data /\ Text' = Text
    BY <2>1, TextKept
  <2>3. \A a \in Data : ram'[a] = Text'[a]
    <3>1. MainFindsItsData'
      BY <1>3, MainKeepsBootInv DEF BootInv
    <3>2. \A a \in Data' : ram'[a] = Promised(a)'
      BY <2>1, <3>1 DEF MainFindsItsData, Data
    <3>3. Text' = [a \in Data' |-> Promised(a)']
      BY DEF Text
    <3> QED
      BY <2>2, <3>2, <3>3
  <2>4. \A a \in Data : a \in RamBytes
    <3>1. /\ \A a \in layout.sdata .. layout.edata - 1 : a \in RamBytes
          /\ \A a \in layout.sbss .. dst - 1 : a \in RamBytes
      BY <2>1 DEF BootInv, Zeroing, Copied
    <3>2. layout.sbss .. layout.ebss - 1 \subseteq layout.sbss .. dst - 1
      BY <2>1, ResetFacts
    <3> QED
      BY <3>1, <3>2 DEF Data
  <2>5. \A a \in Data' : a \in RamBytes' /\ ram'[a] = Text'[a]
    BY <2>2, <2>3, <2>4
  <2> QED
    BY <2>5 DEF DataStays
<1>4. CASE LoaderNext \/ EnterResetHandler \/ CopyData \/ StartZeroing \/ ZeroBss
  <2>1. ~(phase' = "main" \/ Hlprinting')
    BY <1>4 DEF LoaderNext, ReadHeader, LoadSegment, SetRegisters, WriteSegment, Fail,
       zero_memory, EnterResetHandler, CopyData, StartZeroing, ZeroBss, Put, Hlprinting
  <2> QED
    BY <1>1, <2>1
<1>5. CASE Hlprintf /\ UNCHANGED <<flash, ram, file, i, sp, msp, pc, layout, src, dst>>
  <2>1. phase = "main" \/ Hlprinting
    BY <1>5 DEF Hlprintf, CallHlprintf, LeaveMemory, Literal, PercentSign, NoArgument,
       BadArgument, Argument, EnterPutUint, CollectDigit, WriteDigit, Return, Hlprinting
  <2> QED
    BY <1>2, <1>5, <2>1
<1>6. CASE UNCHANGED vars
  <2>1. UNCHANGED <<ram, file, i, layout, phase>>
    BY <1>6 DEF vars, bootVars, loaderVars
  <2> QED
    BY <1>1, <1>2, <2>1 DEF Hlprinting
<1> QED
  BY <1>3, <1>4, <1>5, <1>6 DEF Next, BootNext

-----------------------------------------------------------------------------
LEMMA ArgumentsLeftInit == Init => ArgumentsLeft
  BY DEF Init, BootInit, LoaderInit, ArgumentsLeft, Hlprinting

(* A step that takes an argument. *)
LEMMA ArgumentTaken ==
  ASSUME ArgumentsLeft, Hlprinting, RoomLeft, args # <<>>, args' = Tail(args), call' = call
  PROVE  /\ Used \in 0 .. Len(call.args) - 1 /\ Used' = Used + 1
         /\ Head(args) = call.args[Used + 1]
         /\ ArgumentsLeft'
<1>1. /\ call \in Calls /\ Used \in 0 .. Len(call.args) /\ Used = Len(call.args) - Len(args)
      /\ args = SubSeq(call.args, Used + 1, Len(call.args))
  BY DEF ArgumentsLeft, Used
<1>2. call.args \in Seq(Nat) /\ args \in Seq(Nat)
  <2>1. call.args \in Seq(0 .. MaxValue) /\ args \in Seq(0 .. MaxValue) /\ MaxValue \in Nat
    BY <1>1, CallsAssumption DEF RoomLeft
  <2> QED
    BY <2>1
<1> DEFINE s == call.args
           k == Used
<1>3. /\ s \in Seq(Nat) /\ k \in 0 .. Len(s) /\ k = Len(s) - Len(args)
      /\ args = SubSeq(s, k + 1, Len(s))
  BY <1>1, <1>2
<1> HIDE DEF s, k
<1>4. /\ k < Len(s) /\ Head(args) = s[k + 1] /\ Len(s) - Len(Tail(args)) = k + 1
      /\ Tail(args) = SubSeq(s, k + 2, Len(s))
  BY <1>2, <1>3, TakeArgument
<1>5. k \in 0 .. Len(s) - 1 /\ k + 1 \in 0 .. Len(s) /\ (k + 1) + 1 = k + 2
  BY <1>3, <1>4
<1>6. Used' = k + 1
  BY <1>4 DEF Used, s
<1>7. /\ call' \in Calls /\ Used' \in 0 .. Len(call'.args)
      /\ args' = SubSeq(call'.args, Used' + 1, Len(call'.args))
  BY <1>1, <1>4, <1>5, <1>6, Zenon DEF s
<1> QED
  BY <1>4, <1>5, <1>6, <1>7 DEF ArgumentsLeft, s, k

LEMMA ArgumentsLeftNext == RoomLeft /\ ArgumentsLeft /\ [Next]_vars => ArgumentsLeft'
<1> SUFFICES ASSUME RoomLeft, ArgumentsLeft, [Next]_vars PROVE ArgumentsLeft'
  OBVIOUS
<1>1. CASE Hlprinting /\ UNCHANGED <<call, args>>
  <2>1. Used' = Used
    BY <1>1 DEF Used
  <2> QED
    BY <1>1, <2>1 DEF ArgumentsLeft
<1>2. CASE ~Hlprinting'
  BY <1>2 DEF ArgumentsLeft
<1>3. CASE CallHlprintf
  <2>1. call' \in Calls /\ args' = call'.args
    BY <1>3 DEF CallHlprintf
  <2>2. args' \in Seq(0 .. MaxValue) /\ Len(args') \in Nat
    BY <2>1, CallsAssumption
  <2>3. Used' = 0
    BY <2>1, <2>2 DEF Used
  <2>4. args' = SubSeq(args', 1, Len(args'))
    BY <2>2, SubSeqFull
  <2> QED
    BY <2>1, <2>2, <2>3, <2>4 DEF ArgumentsLeft
<1>4. CASE Argument \/ EnterPutUint
  <2>1. args # <<>> /\ args' = Tail(args) /\ call' = call /\ Hlprinting
    BY <1>4 DEF Argument, EnterPutUint, Hlprinting
  <2> QED
    BY <2>1, ArgumentTaken
<1>5. CASE LeaveMemory \/ BadArgument
  BY <1>2, <1>5 DEF LeaveMemory, BadArgument, Hlprinting
<1>6. CASE Literal \/ PercentSign \/ NoArgument \/ CollectDigit \/ WriteDigit \/ Return
  BY <1>1, <1>6 DEF Literal, PercentSign, NoArgument, CollectDigit, WriteDigit, Return,
                    Hlprinting, printVars
<1>7. CASE BootNext
  <2>1. ~Hlprinting'
    BY <1>7 DEF BootNext, LoaderNext, ReadHeader, LoadSegment, SetRegisters, WriteSegment,
       Fail, zero_memory, EnterResetHandler, CopyData, StartZeroing, ZeroBss, Put, CallMain,
       Hlprinting
  <2> QED
    BY <1>2, <2>1
<1>8. CASE UNCHANGED vars
  BY <1>1, <1>2, <1>8 DEF vars, bootVars, loaderVars, printVars, Hlprinting
<1> QED
  BY <1>3, <1>4, <1>5, <1>6, <1>7, <1>8 DEF Next, Hlprintf

-----------------------------------------------------------------------------
Ready == Types /\ DataStays /\ RoomLeft /\ ArgumentsLeft /\ Hlprinting
BootStays == UNCHANGED <<flash, ram, file, i, sp, msp, pc, layout, src, dst>>

LEMMA ReadingFacts ==
  ASSUME Ready
  PROVE  /\ IsText(Text) /\ DOMAIN Text = Data
         /\ \A a \in Data : a \in RamBytes /\ ram[a] = Text[a]
         /\ call.args \in Seq(Nat) /\ Used \in 0 .. Len(call.args)
         /\ uart \in Seq(0 .. 255) /\ buffer \in Seq(0 .. 255)
         /\ fmt \in Nat /\ value \in Nat /\ args \in Seq(Nat)
         /\ \A a, k : k \in 0 .. Len(call.args) => Behind(Reading, a, k) \subseteq Seq(0 .. 255)
<1>1. Types /\ DataStays /\ RoomLeft /\ ArgumentsLeft /\ Hlprinting
  BY DEF Ready
<1>2. call.args \in Seq(Nat) /\ Used \in 0 .. Len(call.args)
  <2>1. call \in Calls /\ Used \in 0 .. Len(call.args)
    BY <1>1 DEF ArgumentsLeft
  <2>2. call.args \in Seq(0 .. MaxValue) /\ MaxValue \in Nat
    BY <2>1, CallsAssumption
  <2> QED
    BY <2>1, <2>2
<1>3. /\ IsText(Text) /\ DOMAIN Text = Data
      /\ \A a \in Data : a \in RamBytes /\ ram[a] = Text[a]
  BY <1>1, TextFacts
<1>4. \A a, k : k \in 0 .. Len(call.args) => Behind(Reading, a, k) \subseteq Seq(0 .. 255)
  BY <1>2, <1>3, MeaningIsBytes DEF Reading
<1> QED
  BY <1>1, <1>2, <1>3, <1>4, TypeFacts

LEMMA ReadingKept ==
  ASSUME BootStays, UNCHANGED call
  PROVE  Reading' = Reading /\ Text' = Text /\ Data' = Data
<1>1. Text' = Text /\ Data' = Data
  BY TextKept DEF BootStays
<1> QED
  BY <1>1 DEF Reading

(* The next turn of the format, in the memory. *)
LEMMA NextTurn ==
  ASSUME Ready, NEW a, NEW rest \in Behind(Reading, a, Used)
  PROVE  LET next == Text[a + 1]
         IN  /\ a \in Data /\ rest \in Seq(0 .. 255)
             /\ a \in RamBytes /\ ram[a] = Text[a]
             /\ Text[a] = NUL => rest = <<>>
             /\ Text[a] \notin {NUL, Percent} =>
                  \E more \in Behind(Reading, a + 1, Used) : rest = <<Text[a]>> \o more
             /\ Text[a] = Percent =>
                  a + 1 \in Data /\ a + 1 \in RamBytes /\ ram[a + 1] = next
             /\ Text[a] = Percent /\ ~IsConversion(next) =>
                  \E more \in Behind(Reading, a + 2, Used) :
                     rest = <<IF next = Percent THEN Percent ELSE QuestionMark>> \o more
             /\ Text[a] = Percent /\ IsConversion(next) =>
                  /\ Used # Len(call.args)
                  /\ \E rendered \in Rendered(Text, next, call.args[Used + 1]),
                        more \in Behind(Reading, a + 2, Used + 1) : rest = rendered \o more
<1>1. /\ IsText(Text) /\ DOMAIN Text = Data
      /\ \A b \in Data : b \in RamBytes /\ ram[b] = Text[b]
      /\ call.args \in Seq(Nat) /\ Used \in 0 .. Len(call.args)
  BY ReadingFacts
<1>2. rest \in Behind(Meaning(Text, call.args), a, Used)
  BY DEF Reading
<1>3. TurnTaken(Text, call.args, Used, a, rest)
  BY <1>1, <1>2, Unfolded, Zenon
<1> QED
  BY <1>1, <1>3, Zenon DEF TurnTaken, Reading

(* Bytes can be grouped as one likes. *)
Grouped(s, t, u) == s \o (t \o u) = (s \o t) \o u

LEMMA Regroup ==
  ASSUME NEW s \in Seq(0 .. 255), NEW t \in Seq(0 .. 255), NEW u \in Seq(0 .. 255)
  PROVE  Grouped(s, t, u)
  BY ConcatAssociative DEF Grouped

LEMMA LiteralCompletes ==
  ASSUME Ready, BootStays, Literal, NEW said, Completes(said)
  PROVE  Completes(said)'
<1>1. /\ phase = "format" /\ ram[fmt] \notin {NUL, Percent} /\ uart' = uart \o <<ram[fmt]>>
      /\ fmt' = fmt + 1 /\ phase' = "format" /\ call' = call /\ args' = args
  BY DEF Literal, uart_puts
<1>2. PICK rest \in Behind(Reading, fmt, Used) : said = uart \o rest
  BY <1>1 DEF Completes
<1>3. PICK more \in Behind(Reading, fmt + 1, Used) : rest = <<ram[fmt]>> \o more
  <2>1. ram[fmt] = Text[fmt]
    BY NextTurn, Zenon
  <2>2. Text[fmt] \notin {NUL, Percent}
    BY <1>1, <2>1
  <2>3. \E more \in Behind(Reading, fmt + 1, Used) : rest = <<Text[fmt]>> \o more
    BY <2>2, NextTurn, Zenon
  <2> QED
    BY <2>1, <2>3, Zenon
<1>4. more \in Seq(0 .. 255) /\ ram[fmt] \in 0 .. 255 /\ uart \in Seq(0 .. 255)
  <2>1. Text[fmt] = ram[fmt] /\ fmt \in Data
    BY NextTurn
  <2>2. Text[fmt] \in 0 .. 255
    BY <2>1, ReadingFacts, SMTT(30) DEF IsText
  <2> QED
    BY <2>1, <2>2, ReadingFacts
<1>5. said = uart' \o more
  <2>1. <<ram[fmt]>> \in Seq(0 .. 255)
    BY <1>4
  <2>2. Grouped(uart, <<ram[fmt]>>, more)
    BY <1>4, <2>1, Regroup, Zenon
  <2> QED
    BY <1>1, <1>2, <1>3, <2>2, Zenon DEF Grouped
<1>6. Reading' = Reading /\ Used' = Used
  BY <1>1, ReadingKept DEF Used
<1>7. \E r \in Behind(Reading', fmt', Used') : said = uart' \o r
  BY <1>1, <1>5, <1>6
<1> QED
  BY <1>1, <1>7 DEF Completes

LEMMA PercentSignCompletes ==
  ASSUME Ready, BootStays, PercentSign, NEW said, Completes(said)
  PROVE  Completes(said)'
<1>1. /\ phase = "format" /\ ram[fmt] = Percent /\ fmt' = fmt + 1 /\ phase' = "conversion"
      /\ UNCHANGED <<call, args, uart>>
  BY DEF PercentSign
<1>2. PICK rest \in Behind(Reading, fmt, Used) : said = uart \o rest
  BY <1>1 DEF Completes
<1>3. fmt \in Data /\ Text[fmt] = Percent /\ fmt' - 1 = fmt
  <2>1. fmt \in Nat
    BY ReadingFacts, Zenon
  <2>2. fmt \in Data /\ ram[fmt] = Text[fmt]
    BY NextTurn, Zenon
  <2> QED
    BY <1>1, <2>1, <2>2
<1>4. Reading' = Reading /\ Used' = Used /\ Text' = Text /\ Data' = Data
  BY <1>1, ReadingKept DEF Used
<1>5. /\ fmt' - 1 \in Data' /\ Text'[fmt' - 1] = Percent
      /\ \E r \in Behind(Reading', fmt' - 1, Used') : said = uart' \o r
  BY <1>1, <1>2, <1>3, <1>4
<1> QED
  BY <1>1, <1>5 DEF Completes

LEMMA NoArgumentCompletes ==
  ASSUME Ready, BootStays, NoArgument, NEW said, Completes(said)
  PROVE  Completes(said)'
<1> DEFINE character == IF ram[fmt] = Percent THEN Percent ELSE QuestionMark
<1>1. /\ phase = "conversion" /\ ~IsConversion(ram[fmt]) /\ uart' = uart \o <<character>>
      /\ fmt' = fmt + 1 /\ phase' = "format" /\ UNCHANGED <<call, args>>
  BY DEF NoArgument, uart_puts
<1>2. PICK rest \in Behind(Reading, fmt - 1, Used) : said = uart \o rest /\ Text[fmt - 1] = Percent
  BY <1>1 DEF Completes
<1>3. fmt \in Nat /\ (fmt - 1) + 1 = fmt /\ (fmt - 1) + 2 = fmt + 1
  <2>1. fmt \in Nat
    BY ReadingFacts, Zenon
  <2> QED
    BY <2>1
<1>4. ram[fmt] = Text[fmt]
  BY <1>2, <1>3, NextTurn
<1>5. PICK more \in Behind(Reading, fmt + 1, Used) : rest = <<character>> \o more
  <2> DEFINE a == fmt - 1
  <2>1. Text[a] = Percent /\ a + 1 = fmt /\ a + 2 = fmt + 1 /\ ~IsConversion(Text[a + 1])
        /\ rest \in Behind(Reading, a, Used)
    BY <1>1, <1>2, <1>3, <1>4
  <2> HIDE DEF a
  <2>2. \E more \in Behind(Reading, a + 2, Used) :
          rest = <<IF Text[a + 1] = Percent THEN Percent ELSE QuestionMark>> \o more
    BY <2>1, NextTurn, Zenon
  <2> QED
    BY <1>4, <2>1, <2>2, Zenon
<1>6. more \in Seq(0 .. 255) /\ <<character>> \in Seq(0 .. 255) /\ uart \in Seq(0 .. 255)
  <2>1. character \in 0 .. 255
    BY DEF Percent, QuestionMark
  <2> HIDE DEF character
  <2> QED
    BY <2>1, ReadingFacts
<1>7. said = uart' \o more
  <2> HIDE DEF character
  <2>1. Grouped(uart, <<character>>, more)
    BY <1>6, Regroup, Zenon
  <2> QED
    BY <1>1, <1>2, <1>5, <2>1, Zenon DEF Grouped
<1>8. Reading' = Reading /\ Used' = Used
  BY <1>1, ReadingKept DEF Used
<1>9. \E r \in Behind(Reading', fmt', Used') : said = uart' \o r
  BY <1>1, <1>7, <1>8
<1> QED
  BY <1>1, <1>9 DEF Completes

LEMMA ReturnCompletes ==
  ASSUME Ready, BootStays, Return, NEW said, Completes(said)
  PROVE  Completes(said)'
<1>1. phase = "format" /\ ram[fmt] = NUL /\ phase' = "returned" /\ uart' = uart
  BY DEF Return, printVars
<1>2. PICK rest \in Behind(Reading, fmt, Used) : said = uart \o rest
  BY <1>1 DEF Completes
<1>3. rest = <<>>
  BY <1>1, NextTurn
<1>4. said = uart'
  BY <1>1, <1>2, <1>3, ReadingFacts
<1> QED
  BY <1>1, <1>4 DEF Completes

-----------------------------------------------------------------------------
(* What follows a conversion's argument. *)
ArgumentThen(said) ==
  \E rendered \in Rendered(Text, ram[fmt], Head(args)),
     more \in Behind(Reading, fmt + 1, Used + 1) :
     /\ said = uart \o (rendered \o more)
     /\ rendered \in Seq(0 .. 255) /\ more \in Seq(0 .. 255)

(* A conversion takes an argument. *)
LEMMA ConversionTurn ==
  ASSUME Ready, BootStays, phase = "conversion", IsConversion(ram[fmt]), args # <<>>,
         args' = Tail(args), call' = call, NEW said, Completes(said)
  PROVE  /\ Reading' = Reading /\ Used' = Used + 1 /\ Head(args) \in Nat
         /\ ram[fmt] = Text[fmt]
         /\ ArgumentThen(said)
<1>1. PICK rest \in Behind(Reading, fmt - 1, Used) : said = uart \o rest /\ Text[fmt - 1] = Percent
  BY DEF Completes
<1>2. fmt \in Nat /\ (fmt - 1) + 1 = fmt /\ (fmt - 1) + 2 = fmt + 1
  <2>1. fmt \in Nat
    BY ReadingFacts, Zenon
  <2> QED
    BY <2>1
<1>3. Used \in 0 .. Len(call.args) - 1 /\ Used' = Used + 1 /\ Head(args) = call.args[Used + 1]
  BY ArgumentTaken DEF Ready
<1>4. Head(args) \in Nat /\ Used + 1 \in 0 .. Len(call.args)
  <2>1. args \in Seq(Nat)
    BY ReadingFacts, Zenon
  <2> QED
    BY <1>3, <2>1
<1> DEFINE a == fmt - 1
<1>5. Text[a] = Percent /\ a + 1 = fmt /\ a + 2 = fmt + 1 /\ rest \in Behind(Reading, a, Used)
  BY <1>1, <1>2
<1> HIDE DEF a
<1>6. ram[fmt] = Text[fmt]
  BY <1>5, NextTurn, Zenon
<1>7. PICK rendered \in Rendered(Text, Text[a + 1], call.args[Used + 1]),
           more \in Behind(Reading, a + 2, Used + 1) : rest = rendered \o more
  BY <1>5, <1>6, NextTurn, Zenon
<1>8. more \in Seq(0 .. 255)
  <2>1. Behind(Reading, a + 2, Used + 1) \subseteq Seq(0 .. 255)
    BY <1>4, ReadingFacts, Zenon
  <2> QED
    BY <2>1
<1>9. rendered \in Seq(0 .. 255)
  <2>1. IsText(Text)
    BY ReadingFacts, Zenon
  <2>2. rendered \in Rendered(Text, ram[fmt], Head(args))
    BY <1>3, <1>5, <1>6, <1>7, Zenon
  <2>3. Rendered(Text, ram[fmt], Head(args)) \subseteq Seq(0 .. 255)
    BY <1>4, <2>1, RenderedBytes, Zenon
  <2> QED
    BY <2>2, <2>3
<1>10. Reading' = Reading
  BY ReadingKept, Zenon
<1>11. /\ rendered \in Rendered(Text, ram[fmt], Head(args))
       /\ more \in Behind(Reading, fmt + 1, Used + 1)
       /\ said = uart \o (rendered \o more)
  BY <1>1, <1>3, <1>5, <1>6, <1>7, Zenon
<1>12. ArgumentThen(said)
  BY <1>8, <1>9, <1>11, Zenon DEF ArgumentThen
<1> QED
  BY <1>3, <1>4, <1>6, <1>10, <1>12, Zenon

(* The string that puts() finds is the one the data has. *)
LEMMA StringIs ==
  ASSUME Ready, NEW address \in Nat, NEW a \in Ends(Text, address)
  PROVE  /\ IsString(address)
         /\ String(address) = [k \in 1 .. a - address |-> Text[address + k - 1]]
<1>1. /\ a \in Data /\ address <= a /\ address .. a \subseteq Data /\ Text[a] = NUL
      /\ \A b \in address .. a - 1 : Text[b] # NUL
  <2>1. DOMAIN Text = Data
    BY ReadingFacts, Zenon
  <2> QED
    BY <2>1 DEF Ends
<1>2. \A b \in Data : b \in RamBytes /\ ram[b] = Text[b]
  BY ReadingFacts, Zenon
<1>3. a \in Nat /\ a \in RamBytes /\ address \in RamBytes
  <2>1. a \in Nat
    BY <1>1, DataFacts DEF Ready
  <2>2. address \in address .. a
    BY <1>1, <2>1
  <2> QED
    BY <1>1, <1>2, <2>1, <2>2
<1>4. IsString(address)
  BY <1>1, <1>2, <1>3 DEF IsString
<1> DEFINE IsLength(m) == /\ ram[address + m] = NUL
                          /\ \A k \in 0 .. m - 1 : ram[address + k] # NUL
           length == CHOOSE m \in 0 .. FLASH_SIZE : IsLength(m)
           n == a - address
<1>5. n \in Nat /\ n \in 0 .. FLASH_SIZE /\ address + n = a
  BY <1>1, <1>3, RegionsAreApart
<1>6. \A k \in 0 .. n : address + k \in address .. a /\ ram[address + k] = Text[address + k]
  BY <1>1, <1>2, <1>3
<1>7. \A k \in 0 .. n - 1 : ram[address + k] # NUL
  <2> TAKE k \in 0 .. n - 1
  <2>1. k \in 0 .. n /\ address + k \in address .. a - 1
    BY <1>1, <1>3
  <2> QED
    BY <1>1, <1>6, <2>1
<1>8. IsLength(n)
  <2>1. ram[address + n] = NUL
    BY <1>1, <1>2, <1>5
  <2> QED
    BY <1>7, <2>1
<1>9. length \in 0 .. FLASH_SIZE /\ IsLength(length)
  <2> HIDE DEF IsLength, n
  <2> QED
    BY <1>5, <1>8
<1>10. length = n
  <2>1. length \in Nat
    BY <1>9, RegionsAreApart
  <2>2. ~(n < length)
    <3> SUFFICES ASSUME n < length PROVE FALSE
      OBVIOUS
    <3>1. n \in 0 .. length - 1
      <4> HIDE DEF n, length
      <4> QED
        BY <1>5, <2>1
    <3> HIDE DEF n, length
    <3> QED
      BY <1>8, <1>9, <3>1
  <2>3. ~(length < n)
    <3> SUFFICES ASSUME length < n PROVE FALSE
      OBVIOUS
    <3>1. length \in 0 .. n - 1
      <4> HIDE DEF n, length
      <4> QED
        BY <1>5, <2>1
    <3> HIDE DEF n, length
    <3> QED
      BY <1>8, <1>9, <3>1
  <2> HIDE DEF n, length
  <2> QED
    BY <1>5, <2>1, <2>2, <2>3
<1>11. String(address) = [k \in 1 .. length |-> ram[address + k - 1]]
  BY Zenon DEF String
<1>12. \A k \in 1 .. n : ram[address + k - 1] = Text[address + k - 1]
  <2> TAKE k \in 1 .. n
  <2>1. k - 1 \in 0 .. n /\ address + (k - 1) = address + k - 1
    <3> HIDE DEF n
    <3> QED
      BY <1>5
  <2> HIDE DEF n
  <2> QED
    BY <1>6, <2>1
<1>13. String(address) = [k \in 1 .. n |-> Text[address + k - 1]]
  <2> HIDE DEF length, n
  <2> QED
    BY <1>10, <1>11, <1>12
<1> QED
  BY <1>4, <1>13

LEMMA ArgumentCompletes ==
  ASSUME Ready, BootStays, Argument, NEW said, Completes(said)
  PROVE  Completes(said)'
<1> DEFINE argument == Head(args)
<1>1. /\ phase = "conversion" /\ args # <<>> /\ args' = Tail(args) /\ call' = call
      /\ fmt' = fmt + 1 /\ phase' = "format"
      /\ \/ ram[fmt] = Conversions.c /\ uart' = uart \o <<argument % 256>>
         \/ /\ ram[fmt] = Conversions.s /\ IsString(argument)
            /\ uart' = uart \o String(argument)
         \/ ram[fmt] = Conversions.x /\ uart' = uart \o (<<48, 120>> \o Hex(argument))
         \/ /\ ram[fmt] = Conversions.u /\ argument = 0
            /\ uart' = uart \o <<Numeral(0)>>
  BY DEF Argument, uart_puts
<1>2. IsConversion(ram[fmt])
  <2>1. DOMAIN Conversions = {"c", "s", "u", "x"}
    BY DEF Conversions
  <2> QED
    BY <1>1, <2>1, Zenon DEF IsConversion
<1>3. PICK rendered \in Rendered(Text, ram[fmt], argument),
           more \in Behind(Reading, fmt + 1, Used + 1) :
         /\ said = uart \o (rendered \o more)
         /\ rendered \in Seq(0 .. 255) /\ more \in Seq(0 .. 255)
  <2>1. ArgumentThen(said)
    BY <1>1, <1>2, ConversionTurn, Zenon
  <2> QED
    BY <2>1, Zenon DEF ArgumentThen
<1>4. Reading' = Reading /\ Used' = Used + 1 /\ argument \in Nat /\ ram[fmt] = Text[fmt]
  BY <1>1, <1>2, ConversionTurn, Zenon
<1>5. MadeOf(Text, ram[fmt], argument, rendered)
  BY <1>3, RenderedIs, Zenon
<1>6. uart' = uart \o rendered
  <2>1. CASE ram[fmt] = Conversions.c /\ uart' = uart \o <<argument % 256>>
    <3>1. rendered = <<argument % 256>>
      BY <1>5, <2>1, Zenon DEF MadeOf
    <3> QED
      BY <2>1, <3>1
  <2>2. CASE ram[fmt] = Conversions.s /\ uart' = uart \o String(argument)
    <3>1. PICK a \in Ends(Text, argument) :
            rendered = [k \in 1 .. a - argument |-> Text[argument + k - 1]]
      BY <1>5, <2>2, Zenon DEF MadeOf
    <3>2. String(argument) = rendered
      BY <1>4, <3>1, StringIs, Zenon
    <3> QED
      BY <2>2, <3>2, Zenon
  <2>3. CASE ram[fmt] = Conversions.x /\ uart' = uart \o (<<48, 120>> \o Hex(argument))
    <3>1. rendered = <<48, 120>> \o Hex(argument)
      BY <1>5, <2>3, Zenon DEF MadeOf
    <3> QED
      BY <2>3, <3>1, Zenon
  <2>4. CASE ram[fmt] = Conversions.u /\ argument = 0 /\ uart' = uart \o <<Numeral(0)>>
    <3>1. PICK n \in Lengths(argument) : rendered = Decimal(argument, n)
      BY <1>5, <2>4, Zenon DEF MadeOf
    <3>2. argument \div Base = 0 /\ argument % Base = 0
      <4>1. Base \in Nat /\ Base > 0
        BY PowerFacts
      <4>2. argument = 0
        BY <2>4
      <4>3. 0 \div Base = 0 /\ 0 % Base = 0
        BY <4>1
      <4> QED
        BY <4>2, <4>3, Zenon
    <3>3. rendered = <<Numeral(argument % Base)>>
      BY <1>4, <3>1, <3>2, LowestDigit, Zenon
    <3> QED
      BY <2>4, <3>2, <3>3, Zenon
  <2> QED
    BY <1>1, <2>1, <2>2, <2>3, <2>4, Zenon
<1>7. said = uart' \o more
  <2>1. uart \in Seq(0 .. 255)
    BY ReadingFacts, Zenon
  <2>2. Grouped(uart, rendered, more)
    BY <1>3, <2>1, Regroup, Zenon
  <2> QED
    BY <1>3, <1>6, <2>2, Zenon DEF Grouped
<1>8. \E r \in Behind(Reading', fmt', Used') : said = uart' \o r
  BY <1>1, <1>4, <1>7, Zenon
<1> QED
  BY <1>1, <1>8 DEF Completes

-----------------------------------------------------------------------------
LEMMA EnterPutUintCompletes ==
  ASSUME Ready, BootStays, EnterPutUint, NEW said, Completes(said)
  PROVE  Completes(said)'
<1> DEFINE argument == Head(args)
<1>1. /\ phase = "conversion" /\ args # <<>> /\ args' = Tail(args) /\ call' = call
      /\ fmt' = fmt + 1 /\ phase' = "digits" /\ ram[fmt] = Conversions.u
      /\ argument # 0 /\ value' = argument /\ UNCHANGED <<buffer, uart>>
  BY DEF EnterPutUint
<1>2. IsConversion(ram[fmt]) /\ buffer = <<>>
  <2>1. DOMAIN Conversions = {"c", "s", "u", "x"}
    BY DEF Conversions
  <2> QED
    BY <1>1, <2>1 DEF IsConversion, Ready, RoomLeft
<1>3. PICK rendered \in Rendered(Text, ram[fmt], argument),
           more \in Behind(Reading, fmt + 1, Used + 1) :
         /\ said = uart \o (rendered \o more)
         /\ rendered \in Seq(0 .. 255) /\ more \in Seq(0 .. 255)
  <2>1. ArgumentThen(said)
    BY <1>1, <1>2, ConversionTurn, Zenon
  <2> QED
    BY <2>1, Zenon DEF ArgumentThen
<1>4. Reading' = Reading /\ Used' = Used + 1 /\ argument \in Nat
  BY <1>1, <1>2, ConversionTurn, Zenon
<1>5. PICK n \in Lengths(argument) : rendered = Decimal(argument, n)
  <2>1. MadeOf(Text, ram[fmt], argument, rendered)
    BY <1>3, RenderedIs, Zenon
  <2> QED
    BY <1>1, <2>1, Zenon DEF MadeOf
<1>6. Reverse(buffer') \o more = more
  BY <1>1, <1>2, <1>3, ReverseOfEmpty
<1>7. said = uart' \o (Decimal(value', n) \o (Reverse(buffer') \o more))
  BY <1>1, <1>3, <1>5, <1>6, Zenon
<1>8. n \in Lengths(value') /\ more \in Behind(Reading', fmt', Used')
  BY <1>1, <1>3, <1>4, <1>5, Zenon
<1>9. phase' = "digits" /\ value' # 0
  BY <1>1
<1> QED
  BY <1>7, <1>8, <1>9 DEF Completes

LEMMA CollectDigitCompletes ==
  ASSUME Ready, BootStays, CollectDigit, NEW said, Completes(said)
  PROVE  Completes(said)'
<1> DEFINE digit == Numeral(value % Base)
           left == value \div Base
<1>1. /\ phase = "digits" /\ value > 0 /\ buffer' = Append(buffer, digit)
      /\ value' = left /\ phase' \in {"digits", "undefined"}
      /\ UNCHANGED <<call, fmt, args, uart>>
  BY DEF CollectDigit
<1>2. PICK n \in Lengths(value), rest \in Behind(Reading, fmt, Used) :
         said = uart \o (Decimal(value, n) \o (Reverse(buffer) \o rest))
  BY <1>1 DEF Completes
<1>3. value \in Nat /\ buffer \in Seq(0 .. 255)
  BY ReadingFacts, Zenon
<1>4. rest \in Seq(0 .. 255)
  <2>1. Behind(Reading, fmt, Used) \subseteq Seq(0 .. 255)
    BY ReadingFacts, Zenon
  <2> QED
    BY <2>1
<1>5. digit \in 0 .. 255 /\ left \in Nat
  <2>1. Base \in Nat /\ Base > 0 /\ Base <= 10
    BY PowerFacts
  <2>2. value % Base \in 0 .. Base - 1
    BY <1>3, <2>1
  <2>3. value % Base \in 0 .. 15
    BY <2>1, <2>2
  <2>4. left \in Nat
    BY <1>3, <2>1, Quotient
  <2> QED
    BY <2>3, <2>4, NumeralIsAByte
<1>6. /\ left = 0 => Decimal(value, n) = <<digit>>
      /\ left > 0 => /\ n - 1 \in Lengths(left)
                     /\ Decimal(value, n) = Decimal(left, n - 1) \o <<digit>>
  BY <1>3, LowestDigit, Zenon
<1>7. Reading' = Reading /\ Used' = Used
  BY <1>1, ReadingKept DEF Used
<1> DEFINE waiting == Reverse(buffer)
<1>8. /\ Reverse(buffer') = <<digit>> \o waiting /\ waiting \in Seq(0 .. 255)
      /\ <<digit>> \in Seq(0 .. 255)
  <2> HIDE DEF digit
  <2>1. Reverse(Append(buffer, digit)) = <<digit>> \o waiting
    BY <1>3, <1>5, ReverseOfAppend
  <2>2. waiting \in Seq(0 .. 255)
    BY <1>3, ReverseIsBytes
  <2>3. <<digit>> \in Seq(0 .. 255)
    BY <1>5
  <2> QED
    BY <1>1, <2>1, <2>2, <2>3, Zenon
<1> HIDE DEF digit, left, waiting
<1>9. <<digit>> \o (waiting \o rest) = Reverse(buffer') \o rest
  <2>1. Grouped(<<digit>>, waiting, rest)
    BY <1>4, <1>8, Regroup, Zenon
  <2> QED
    BY <1>8, <2>1, Zenon DEF Grouped
<1>10. CASE left = 0
  <2>1. said = uart' \o (Reverse(buffer') \o rest)
    BY <1>1, <1>2, <1>6, <1>9, <1>10, Zenon DEF waiting
  <2>2. rest \in Behind(Reading', fmt', Used')
    BY <1>1, <1>7, Zenon
  <2>3. value' = 0 /\ phase' \in {"digits", "undefined"}
    BY <1>1, <1>10
  <2> QED
    <3>1. \E r \in Behind(Reading', fmt', Used') : said = uart' \o (Reverse(buffer') \o r)
      BY <2>1, <2>2, Zenon
    <3>2. ~(value' > 0) /\ phase' \notin {"format", "conversion", "returned"}
      BY <2>3
    <3> QED
      BY <2>3, <3>1, <3>2, Zenon DEF Completes
<1>11. CASE left > 0
  <2> DEFINE high == Decimal(left, n - 1)
  <2>1. high \in Seq(0 .. 255)
    <3>1. n - 1 \in 1 .. BufferSize
      BY <1>6, <1>11 DEF Lengths
    <3> QED
      BY <1>5, <3>1, DecimalIsBytes, Zenon
  <2>2. Decimal(value, n) \o (waiting \o rest) = high \o (Reverse(buffer') \o rest)
    <3>1. Decimal(value, n) = high \o <<digit>>
      BY <1>6, <1>11, Zenon
    <3>2. waiting \o rest \in Seq(0 .. 255)
      BY <1>4, <1>8, ConcatProperties
    <3> HIDE DEF high
    <3>3. Grouped(high, <<digit>>, waiting \o rest)
      BY <1>8, <2>1, <3>2, Regroup, Zenon
    <3> QED
      BY <1>9, <3>1, <3>3, Zenon DEF Grouped
  <2>3. said = uart' \o (Decimal(value', n - 1) \o (Reverse(buffer') \o rest))
    BY <1>1, <1>2, <2>2, Zenon DEF waiting
  <2>4. rest \in Behind(Reading', fmt', Used') /\ n - 1 \in Lengths(value')
    BY <1>1, <1>6, <1>7, <1>11, Zenon
  <2>5. value' # 0 /\ phase' \in {"digits", "undefined"}
    BY <1>1, <1>11
  <2> QED
    BY <2>3, <2>4, <2>5 DEF Completes
<1> QED
  BY <1>5, <1>10, <1>11

LEMMA WriteDigitCompletes ==
  ASSUME Ready, BootStays, WriteDigit, NEW said, Completes(said)
  PROVE  Completes(said)'
<1>1. /\ phase = "digits" /\ value = 0 /\ buffer # <<>> /\ uart' = uart \o <<Last(buffer)>>
      /\ buffer' = Front(buffer) /\ phase' = (IF buffer' = <<>> THEN "format" ELSE phase)
      /\ UNCHANGED <<call, fmt, args, value>>
  BY DEF WriteDigit, uart_puts
<1>2. PICK rest \in Behind(Reading, fmt, Used) : said = uart \o (Reverse(buffer) \o rest)
  BY <1>1 DEF Completes
<1>3. uart \in Seq(0 .. 255) /\ buffer \in Seq(0 .. 255)
  BY ReadingFacts, Zenon
<1>4. rest \in Seq(0 .. 255)
  <2>1. Behind(Reading, fmt, Used) \subseteq Seq(0 .. 255)
    BY ReadingFacts, Zenon
  <2> QED
    BY <2>1
<1> DEFINE digit == <<Last(buffer)>>
           waiting == Reverse(buffer')
<1>5. digit \in Seq(0 .. 255) /\ waiting \in Seq(0 .. 255) /\ Reverse(buffer) = digit \o waiting
  <2>1. Last(buffer) \in 0 .. 255 /\ Front(buffer) \in Seq(0 .. 255)
    BY <1>1, <1>3, FrontAndLast, ZenonT(40)
  <2>2. Reverse(buffer) = digit \o waiting
    BY <1>1, <1>3, ReverseOfLast
  <2>3. waiting \in Seq(0 .. 255)
    BY <1>1, <2>1, ReverseIsBytes
  <2>4. digit \in Seq(0 .. 255)
    BY <2>1
  <2> QED
    BY <2>2, <2>3, <2>4
<1> HIDE DEF digit, waiting
<1>6. said = uart' \o (waiting \o rest)
  <2>1. waiting \o rest \in Seq(0 .. 255)
    BY <1>4, <1>5, ConcatProperties
  <2>2. Grouped(digit, waiting, rest)
    BY <1>4, <1>5, Regroup, Zenon
  <2>3. Grouped(uart, digit, waiting \o rest)
    BY <1>3, <1>5, <2>1, Regroup, Zenon
  <2> QED
    BY <1>1, <1>2, <1>5, <2>2, <2>3, Zenon DEF Grouped, digit
<1>7. rest \in Behind(Reading', fmt', Used')
  <2>1. Reading' = Reading /\ Used' = Used
    BY <1>1, ReadingKept DEF Used
  <2> QED
    BY <1>1, <2>1, Zenon
<1>8. CASE buffer' = <<>>
  <2>1. waiting \o rest = rest
    BY <1>4, <1>8, ReverseOfEmpty DEF waiting
  <2>2. said = uart' \o rest /\ phase' = "format"
    BY <1>1, <1>6, <1>8, <2>1
  <2> QED
    BY <1>7, <2>2 DEF Completes
<1>9. CASE buffer' # <<>>
  <2>1. phase' = "digits" /\ value' = 0
    BY <1>1, <1>9
  <2>2. \E r \in Behind(Reading', fmt', Used') : said = uart' \o (Reverse(buffer') \o r)
    BY <1>6, <1>7, Zenon DEF waiting
  <2>3. ~(value' > 0)
    BY <2>1
  <2> QED
    BY <2>1, <2>2, <2>3, Zenon DEF Completes
<1> QED
  BY <1>8, <1>9

(* A call begins with nothing printed. *)
LEMMA CallCompletes ==
  ASSUME Types, DataStays, PrintInv, CallHlprintf, UNCHANGED <<file, i, layout>>,
         NEW said \in Behind(Reading', call'.fmt, 0)
  PROVE  Completes(said)'
<1>1. /\ phase = "main" /\ phase' = "format" /\ call' \in Calls /\ fmt' = call'.fmt
      /\ args' = call'.args /\ uart' = uart
  BY DEF CallHlprintf
<1>2. uart = <<>>
  BY <1>1 DEF PrintInv, Hlprinting
<1>3. call'.args \in Seq(Nat) /\ 0 \in 0 .. Len(call'.args)
  <2>1. call'.args \in Seq(0 .. MaxValue) /\ MaxValue \in Nat
    BY <1>1, CallsAssumption
  <2> QED
    BY <2>1
<1>4. Text' = Text /\ IsText(Text)
  BY <1>1, TextKept, TextFacts
<1>5. Behind(Meaning(Text, call'.args), call'.fmt, 0) \subseteq Seq(0 .. 255)
  BY <1>3, <1>4, MeaningIsBytes, ZenonT(40)
<1>6. Reading' = Meaning(Text, call'.args)
  BY <1>4, Zenon DEF Reading
<1>7. said \in Seq(0 .. 255)
  BY <1>5, <1>6
<1>8. said = uart' \o said
  BY <1>1, <1>2, <1>7
<1>9. Used' = 0
  BY <1>1, <1>3 DEF Used
<1>10. \E rest \in Behind(Reading', fmt', Used') : said = uart' \o rest
  BY <1>1, <1>8, <1>9
<1> QED
  BY <1>1, <1>10 DEF Completes

-----------------------------------------------------------------------------
LEMMA PrintInvInit == Init => PrintInv
  BY DEF Init, BootInit, LoaderInit, PrintInv, Hlprinting

LEMMA StutterCompletes ==
  ASSUME UNCHANGED vars, NEW said, Completes(said)
  PROVE  Completes(said)'
<1>1. UNCHANGED <<file, i, layout, phase, call, fmt, args, value, buffer, uart>>
  BY DEF vars, bootVars, loaderVars, printVars
<1>2. Data' = Data /\ Text' = Text
  BY <1>1, TextKept
<1>3. Reading' = Reading /\ Used' = Used
  BY <1>1, <1>2 DEF Reading, Used
<1> QED
  BY <1>1, <1>2, <1>3 DEF Completes

LEMMA PrintInvNext ==
  Types /\ DataStays /\ RoomLeft /\ ArgumentsLeft /\ PrintInv /\ [Next]_vars => PrintInv'
<1> SUFFICES ASSUME Types, DataStays, RoomLeft, ArgumentsLeft, PrintInv, [Next]_vars
             PROVE  PrintInv'
  OBVIOUS
<1>1. CASE BootNext /\ UNCHANGED printVars
  <2>1. /\ phase \notin {"undefined", "failed"} /\ ~Hlprinting /\ ~Hlprinting'
    BY <1>1 DEF BootNext, LoaderNext, ReadHeader, LoadSegment, SetRegisters, WriteSegment,
       Fail, zero_memory, EnterResetHandler, CopyData, StartZeroing, ZeroBss, Put, CallMain,
       Hlprinting
  <2>2. uart' = uart
    BY <1>1 DEF printVars
  <2> QED
    BY <2>1, <2>2 DEF PrintInv
<1>2. CASE /\ Hlprintf
           /\ UNCHANGED <<flash, ram, file, i, sp, msp, pc, layout, src, dst>>
  <2>1. CASE LeaveMemory \/ BadArgument
    BY <2>1 DEF LeaveMemory, BadArgument, PrintInv, Hlprinting
  <2>2. CASE CallHlprintf
    <3>1. Hlprinting'
      BY <2>2 DEF CallHlprintf, Hlprinting
    <3>2. \A said \in Behind(Reading', call'.fmt, 0) : Completes(said)'
      BY <1>2, <2>2, CallCompletes
    <3> QED
      BY <3>1, <3>2 DEF PrintInv
  <2>3. CASE \/ Literal \/ PercentSign \/ NoArgument \/ Argument \/ EnterPutUint
             \/ CollectDigit \/ WriteDigit \/ Return
    <3>1. Hlprinting /\ call' = call
      BY <2>3 DEF Literal, PercentSign, NoArgument, Argument, EnterPutUint, CollectDigit,
                  WriteDigit, Return, Hlprinting, printVars
    <3>2. Ready /\ BootStays
      BY <1>2, <3>1 DEF Ready, BootStays
    <3>3. Reading' = Reading
      BY <3>1, <3>2, ReadingKept
    <3>4. ASSUME NEW said \in Behind(Reading', call'.fmt, 0)
          PROVE  Completes(said)'
      <4>1. Completes(said)
        <5>1. said \in Behind(Reading, call.fmt, 0)
          BY <3>1, <3>3, <3>4, Zenon
        <5> QED
          BY <3>1, <5>1 DEF PrintInv
      <4>2. CASE Literal
        BY <3>2, <4>1, <4>2, LiteralCompletes
      <4>3. CASE PercentSign
        BY <3>2, <4>1, <4>3, PercentSignCompletes
      <4>4. CASE NoArgument
        BY <3>2, <4>1, <4>4, NoArgumentCompletes
      <4>5. CASE Argument
        BY <3>2, <4>1, <4>5, ArgumentCompletes
      <4>6. CASE EnterPutUint
        BY <3>2, <4>1, <4>6, EnterPutUintCompletes
      <4>7. CASE CollectDigit
        BY <3>2, <4>1, <4>7, CollectDigitCompletes
      <4>8. CASE WriteDigit
        BY <3>2, <4>1, <4>8, WriteDigitCompletes
      <4>9. CASE Return
        BY <3>2, <4>1, <4>9, ReturnCompletes
      <4> QED
        BY <2>3, <4>2, <4>3, <4>4, <4>5, <4>6, <4>7, <4>8, <4>9
    <3>5. \/ Hlprinting' \/ phase' = "undefined"
      BY <2>3 DEF Literal, PercentSign, NoArgument, Argument, EnterPutUint, CollectDigit,
                  WriteDigit, Return, Hlprinting
    <3> QED
      BY <3>4, <3>5 DEF PrintInv
  <2> QED
    BY <1>2, <2>1, <2>2, <2>3 DEF Hlprintf
<1>3. CASE UNCHANGED vars
  <2>1. UNCHANGED <<file, i, layout, phase, call, uart>>
    BY <1>3 DEF vars, bootVars, loaderVars, printVars
  <2>2. Reading' = Reading /\ Hlprinting' = Hlprinting
    BY <2>1, TextKept DEF Reading, Hlprinting
  <2>3. ASSUME Hlprinting, NEW said \in Behind(Reading', call'.fmt, 0)
        PROVE  Completes(said)'
    <3>1. said \in Behind(Reading, call.fmt, 0)
      BY <2>1, <2>2, <2>3, Zenon
    <3>2. Completes(said)
      BY <2>3, <3>1 DEF PrintInv
    <3> QED
      BY <1>3, <3>2, StutterCompletes
  <2> QED
    BY <2>1, <2>2, <2>3 DEF PrintInv
<1> QED
  BY <1>1, <1>2, <1>3 DEF Next

(* For every file, layout, format and arguments: when hlprintf returns, the *)
(* UART has received what the format that the file has for the call says   *)
(* with the arguments, every number in its shortest form.                  *)
THEOREM FormatIsPrinted == Spec => []PrintsTheFormat
<1>1. PrintInv => PrintsTheFormat
  BY DEF PrintInv, PrintsTheFormat, Completes, Says, Reading, Hlprinting
<1> QED
  BY TypesInit, TypesNext, ImageInit, ImageNext, BootInvInit, BootInvNext, RoomLeftInit,
     RoomLeftNext, DataStaysInit, DataStaysNext, ArgumentsLeftInit, ArgumentsLeftNext,
     PrintInvInit, PrintInvNext, <1>1, PTL DEF Spec

-----------------------------------------------------------------------------
(* A regular call finds the rest of its format, every argument and string  *)
(* it asks for, and leaves uart_put_uint when the buffer is empty.         *)
CallIsSupplied ==
  Hlprinting /\ SaysSomething /\ phase # "returned" =>
    /\ fmt \in RamBytes
    /\ phase = "conversion" /\ IsConversion(ram[fmt]) =>
         /\ args # <<>>
         /\ ram[fmt] = Conversions.s => IsString(Head(args))
    /\ phase = "digits" => value > 0 \/ buffer # <<>>

LEMMA HeadIs ==
  ASSUME ArgumentsLeft, Hlprinting, RoomLeft
  PROVE  /\ args = <<>> => Used = Len(call.args)
         /\ args # <<>> => Head(args) = call.args[Used + 1] /\ Head(args) \in Nat
<1>1. /\ call \in Calls /\ Used \in 0 .. Len(call.args) /\ Used = Len(call.args) - Len(args)
      /\ args = SubSeq(call.args, Used + 1, Len(call.args))
  BY DEF ArgumentsLeft, Used
<1>2. call.args \in Seq(Nat) /\ args \in Seq(Nat)
  <2>1. call.args \in Seq(0 .. MaxValue) /\ args \in Seq(0 .. MaxValue) /\ MaxValue \in Nat
    BY <1>1, CallsAssumption DEF RoomLeft
  <2> QED
    BY <2>1
<1>3. ASSUME args = <<>> PROVE Used = Len(call.args)
  BY <1>1, <1>2, <1>3
<1>4. ASSUME args # <<>> PROVE Head(args) = call.args[Used + 1] /\ Head(args) \in Nat
  <2> DEFINE s == call.args
             k == Used
  <2>1. /\ s \in Seq(Nat) /\ k \in 0 .. Len(s) /\ k = Len(s) - Len(args)
        /\ args = SubSeq(s, k + 1, Len(s))
    BY <1>1, <1>2
  <2> HIDE DEF s, k
  <2>2. Head(args) = s[k + 1]
    BY <1>2, <1>4, <2>1, TakeArgument
  <2>3. Head(args) \in Nat
    BY <1>2, <1>4
  <2> QED
    BY <2>2, <2>3 DEF s, k
<1> QED
  BY <1>3, <1>4

LEMMA FormatInBounds ==
  ASSUME Ready, phase # "returned", NEW said, Completes(said)
  PROVE  fmt \in RamBytes
<1>1. CASE phase = "format"
  <2>1. PICK rest \in Behind(Reading, fmt, Used) : said = uart \o rest
    BY <1>1 DEF Completes
  <2> QED
    BY NextTurn, Zenon
<1>2. CASE phase = "conversion"
  <2> DEFINE a == fmt - 1
  <2>1. PICK rest \in Behind(Reading, a, Used) : said = uart \o rest
    BY <1>2 DEF Completes
  <2>2. Text[a] = Percent /\ a + 1 = fmt
    <3>1. fmt \in Nat
      BY ReadingFacts, Zenon
    <3> QED
      BY <1>2, <3>1 DEF Completes
  <2> HIDE DEF a
  <2>3. a + 1 \in RamBytes
    BY <2>2, NextTurn, Zenon
  <2> QED
    BY <2>2, <2>3
<1>3. CASE phase = "digits"
  <2>1. \E rest : rest \in Behind(Reading, fmt, Used)
    <3>1. value = 0 \/ value > 0
      <4>1. value \in Nat
        BY ReadingFacts, Zenon
      <4> QED
        BY <4>1
    <3> QED
      BY <1>3, <3>1 DEF Completes
  <2> QED
    BY <2>1, NextTurn, Zenon
<1> QED
  BY <1>1, <1>2, <1>3 DEF Ready, Hlprinting

LEMMA ArgumentInBounds ==
  ASSUME Ready, phase = "conversion", IsConversion(ram[fmt]), NEW said, Completes(said)
  PROVE  args # <<>> /\ (ram[fmt] = Conversions.s => IsString(Head(args)))
<1> DEFINE a == fmt - 1
<1>1. PICK rest \in Behind(Reading, a, Used) : said = uart \o rest
  BY DEF Completes
<1>2. Text[a] = Percent /\ a + 1 = fmt
  <2>1. fmt \in Nat
    BY ReadingFacts, Zenon
  <2> QED
    BY <2>1 DEF Completes
<1> HIDE DEF a
<1>3. ram[fmt] = Text[a + 1]
  BY <1>2, NextTurn, Zenon
<1>4. /\ Used # Len(call.args)
      /\ \E rendered \in Rendered(Text, Text[a + 1], call.args[Used + 1]),
            more \in Behind(Reading, a + 2, Used + 1) : rest = rendered \o more
  BY <1>2, <1>3, NextTurn, Zenon
<1>5. args # <<>> /\ Head(args) = call.args[Used + 1] /\ Head(args) \in Nat
  BY <1>4, HeadIs, Zenon DEF Ready
<1>6. ASSUME ram[fmt] = Conversions.s PROVE IsString(Head(args))
  <2>1. PICK rendered \in Rendered(Text, ram[fmt], Head(args)) : TRUE
    BY <1>3, <1>4, <1>5, Zenon
  <2>2. MadeOf(Text, ram[fmt], Head(args), rendered)
    BY RenderedIs, Zenon
  <2>3. PICK end \in Ends(Text, Head(args)) :
          rendered = [k \in 1 .. end - Head(args) |-> Text[Head(args) + k - 1]]
    BY <1>6, <2>2, Zenon DEF MadeOf
  <2> QED
    BY <1>5, StringIs, Zenon
<1> QED
  BY <1>5, <1>6

(* uart_put_uint is left when its buffer is empty. *)
DigitsWait == phase = "digits" => value > 0 \/ buffer # <<>>

LEMMA DigitsWaitInit == Init => DigitsWait
  BY DEF Init, BootInit, LoaderInit, DigitsWait

LEMMA DigitsWaitNext == Types /\ DigitsWait /\ [Next]_vars => DigitsWait'
<1> SUFFICES ASSUME Types, DigitsWait, [Next]_vars, phase' = "digits"
             PROVE  value' > 0 \/ buffer' # <<>>
  BY DEF DigitsWait
<1>1. CASE BootNext
  BY <1>1 DEF BootNext, LoaderNext, ReadHeader, LoadSegment, SetRegisters, WriteSegment,
     Fail, zero_memory, EnterResetHandler, CopyData, StartZeroing, ZeroBss, Put, CallMain
<1>2. CASE EnterPutUint
  <2>1. value' = Head(args) /\ Head(args) # 0 /\ args # <<>>
    BY <1>2 DEF EnterPutUint
  <2>2. Head(args) \in Nat
    BY <2>1, ArgumentFacts
  <2> QED
    BY <2>1, <2>2
<1>3. CASE CollectDigit
  <2> DEFINE digit == Numeral(value % Base)
  <2>1. buffer' = Append(buffer, digit)
    BY <1>3 DEF CollectDigit
  <2>2. buffer \in Seq(0 .. 255)
    BY TypeFacts
  <2> HIDE DEF digit
  <2>3. Append(buffer, digit) # <<>>
    <3>1. Len(Append(buffer, digit)) = Len(buffer) + 1 /\ Len(buffer) \in Nat
      BY <2>2, AppendProperties
    <3> QED
      BY <3>1
  <2> QED
    BY <2>1, <2>3
<1>4. CASE WriteDigit
  BY <1>4 DEF WriteDigit
<1>5. CASE \/ CallHlprintf \/ LeaveMemory \/ Literal \/ PercentSign \/ NoArgument
           \/ BadArgument \/ Argument \/ Return
  BY <1>5 DEF CallHlprintf, LeaveMemory, Literal, PercentSign, NoArgument, BadArgument,
              Argument, Return
<1>6. CASE UNCHANGED vars
  BY <1>6 DEF DigitsWait, vars, bootVars, loaderVars, printVars
<1> QED
  BY <1>1, <1>2, <1>3, <1>4, <1>5, <1>6 DEF Next, Hlprintf

CallInv == Types /\ DataStays /\ RoomLeft /\ ArgumentsLeft /\ PrintInv /\ DigitsWait

LEMMA Supplied == CallInv => CallIsSupplied
<1> SUFFICES ASSUME CallInv, Hlprinting, SaysSomething, phase # "returned"
             PROVE  /\ fmt \in RamBytes
                    /\ phase = "conversion" /\ IsConversion(ram[fmt]) =>
                         /\ args # <<>>
                         /\ ram[fmt] = Conversions.s => IsString(Head(args))
                    /\ phase = "digits" => value > 0 \/ buffer # <<>>
  BY DEF CallIsSupplied
<1>1. PICK said \in Behind(Reading, call.fmt, 0) : Completes(said)
  BY DEF CallInv, PrintInv, SaysSomething, Says, Reading
<1>2. Ready
  BY DEF CallInv, Ready
<1>3. fmt \in RamBytes
  BY <1>1, <1>2, FormatInBounds
<1>4. ASSUME phase = "conversion", IsConversion(ram[fmt])
      PROVE  args # <<>> /\ (ram[fmt] = Conversions.s => IsString(Head(args)))
  BY <1>1, <1>2, <1>4, ArgumentInBounds, Zenon
<1>5. phase = "digits" => value > 0 \/ buffer # <<>>
  BY DEF CallInv, DigitsWait
<1> QED
  BY <1>3, <1>4, <1>5

LEMMA Advances ==
  CallInv /\ CallInv' /\ [Next]_vars =>
    [Hlprinting /\ SaysSomething =>
       \/ phase' = "returned"
       \/ /\ Hlprinting' /\ fmt' \in RamBytes
          /\ \/ fmt' > fmt
             \/ fmt' = fmt /\ value' < value
             \/ fmt' = fmt /\ value' = value /\ Len(buffer') < Len(buffer)]_vars
<1> SUFFICES ASSUME CallInv, CallInv', Next, Hlprinting, SaysSomething,
                    phase' # "returned"
             PROVE  /\ Hlprinting' /\ fmt' \in RamBytes
                    /\ \/ fmt' > fmt
                       \/ fmt' = fmt /\ value' < value
                       \/ fmt' = fmt /\ value' = value /\ Len(buffer') < Len(buffer)
  OBVIOUS
<1>1. /\ fmt \in Nat /\ value \in Nat /\ buffer \in Seq(0 .. 255)
      /\ Len(buffer') <= BufferSize
  BY TypeFacts DEF CallInv, RoomLeft
<1>2. CallIsSupplied /\ CallIsSupplied'
  <2>1. CallInv' => CallIsSupplied'
    BY Supplied, PTL
  <2> QED
    BY <2>1, Supplied
<1>3. /\ Hlprintf /\ ~CallHlprintf
      /\ UNCHANGED <<flash, ram, file, i, sp, msp, pc, layout, src, dst>>
  BY DEF Next, BootNext, LoaderNext, ReadHeader, LoadSegment, SetRegisters,
     EnterResetHandler, CopyData, StartZeroing, ZeroBss, CallMain, CallHlprintf, Hlprinting
<1>4. ~LeaveMemory
  BY <1>2 DEF LeaveMemory, CallIsSupplied
<1>5. ~BadArgument
  BY <1>2 DEF BadArgument, CallIsSupplied
<1>6. call' = call /\ Hlprinting'
  BY <1>1, <1>3, <1>4, <1>5 DEF Hlprintf, Literal, PercentSign, NoArgument, Argument,
     EnterPutUint, CollectDigit, WriteDigit, Return, Hlprinting, printVars
<1>7. fmt' \in RamBytes
  <2>1. Text' = Text
    BY <1>3, TextKept
  <2>2. SaysSomething'
    BY <1>6, <2>1, Zenon DEF SaysSomething
  <2> QED
    BY <1>2, <1>6, <2>2 DEF CallIsSupplied
<1>8. CASE Literal \/ PercentSign \/ NoArgument \/ Argument \/ EnterPutUint
  <2>1. fmt' = fmt + 1
    BY <1>8 DEF Literal, PercentSign, NoArgument, Argument, EnterPutUint
  <2> QED
    BY <1>1, <1>6, <1>7, <2>1
<1>9. CASE CollectDigit
  <2>1. value > 0 /\ value' = value \div Base /\ fmt' = fmt
    BY <1>9 DEF CollectDigit
  <2>2. value \div Base < value
    <3>1. Base \in Nat /\ Base >= 2
      BY PowerFacts
    <3>2. value < Base * value
      BY <1>1, <2>1, <3>1
    <3> QED
      BY <1>1, <2>1, <3>1, <3>2, PowerFacts, FewerDigits
  <2> QED
    BY <1>6, <1>7, <2>1, <2>2
<1>10. CASE WriteDigit
  <2>1. buffer # <<>> /\ buffer' = Front(buffer) /\ fmt' = fmt /\ value' = value
    BY <1>10 DEF WriteDigit
  <2>2. Len(Front(buffer)) < Len(buffer)
    BY <1>1, <2>1 DEF Front
  <2> QED
    BY <1>6, <1>7, <2>1, <2>2
<1>11. ~Return
  BY DEF Return
<1> QED
  BY <1>3, <1>4, <1>5, <1>8, <1>9, <1>10, <1>11 DEF Hlprintf

(* While hlprintf carries out a call that says something, it reads nothing *)
(* outside of the memory, the arguments and the strings of the data.       *)
THEOREM RegularCallsAreSupplied == Spec => []CallIsSupplied
  BY TypesInit, TypesNext, ImageInit, ImageNext, BootInvInit, BootInvNext, RoomLeftInit,
     RoomLeftNext, DataStaysInit, DataStaysNext, ArgumentsLeftInit, ArgumentsLeftNext,
     PrintInvInit, PrintInvNext, DigitsWaitInit, DigitsWaitNext, Supplied, PTL
     DEF Spec, CallInv

(* For every file, layout, format, arguments and size of the buffer: every *)
(* step of such a call moves on in the format, in the number or in the     *)
(* digits, inside of the memory, or returns.                               *)
THEOREM RegularCallsGoOn == Spec => RegularCallsAdvance
  BY TypesInit, TypesNext, ImageInit, ImageNext, BootInvInit, BootInvNext, RoomLeftInit,
     RoomLeftNext, DataStaysInit, DataStaysNext, ArgumentsLeftInit, ArgumentsLeftNext,
     PrintInvInit, PrintInvNext, DigitsWaitInit, DigitsWaitNext, Advances, PTL
     DEF Spec, CallInv, RegularCallsAdvance
=============================================================================
