--------------------------- MODULE MemoryBusProofs ---------------------------
(***************************************************************************)
(* For every memory map, contents of flash and set of accesses: MemoryBus  *)
(* keeps its types and implements ByteMemory.                              *)
(***************************************************************************)
EXTENDS MemoryBus, TLAPS

USE DEF Byte, Word, Address, Span, Writable, Readable

LEMMA AddressesAreAddresses ==
  ASSUME NEW a \in Nat PROVE (a % AddressSpan) \in Address
  BY MapAssumption

(* A store within the vector is a store within Writable, of the same       *)
(* bytes; this is where an address below RAM_BASE must not wrap into RAM.  *)
LEMMA StoresStayInRam ==
  ASSUME NEW address \in Address, NEW length \in {1, 2, 4},
         Span(RamIndex(address), length) \subseteq 0 .. RamSize - 1
  PROVE  /\ address >= RAM_BASE /\ RamIndex(address) = address - RAM_BASE
         /\ address \in Writable
         /\ Span(address, length) \subseteq Writable
<1>1. RamIndex(address) \in 0 .. RamSize - 1
  BY MapAssumption DEF RamIndex
<1>2. address >= RAM_BASE /\ RamIndex(address) = address - RAM_BASE
  BY <1>1, MapAssumption DEF RamIndex
<1>3. RamIndex(address) + length - 1 \in 0 .. RamSize - 1
  BY <1>1, MapAssumption
<1> QED
  BY <1>1, <1>2, <1>3, MapAssumption

(* What WriteRam does, seen by the abstract memory. *)
LEMMA WriteRamStores ==
  ASSUME TypeOK, NEW address \in Address, NEW length \in {1, 2, 4},
         WriteRam(address, length), UNCHANGED <<Rt, origin>>, ~undefined
  PROVE  /\ TypeOK'
         /\ \/ Memory!Leave
            \/ address \in Writable /\ Memory!Store(address, length)
<1>1. CASE ~(Span(RamIndex(address), length) \subseteq DOMAIN ram)
  <2>1. undefined' = TRUE /\ ram' = ram /\ scb' = scb
    BY <1>1 DEF WriteRam
  <2> QED
    BY <2>1 DEF TypeOK, Memory!Leave, MappedMemory
<1>2. CASE Span(RamIndex(address), length) \subseteq DOMAIN ram
  <2>1. /\ undefined' = FALSE /\ scb' = scb
        /\ ram' = [i \in DOMAIN ram |-> IF i \in Span(RamIndex(address), length)
                                        THEN Rt[i - RamIndex(address)] ELSE ram[i]]
    BY <1>2 DEF WriteRam
  <2>2. DOMAIN ram = 0 .. RamSize - 1
    BY DEF TypeOK
  <2>3. /\ address >= RAM_BASE /\ RamIndex(address) = address - RAM_BASE
        /\ address \in Writable
        /\ Span(address, length) \subseteq Writable
    BY <1>2, <2>2, StoresStayInRam
  <2>4. ram' \in [0 .. RamSize - 1 -> Byte]
    BY <2>1, <2>2, <2>3, MapAssumption, SMTT(30) DEF TypeOK
  <2>5. MappedMemory' = [a \in Readable |-> IF a \in Memory!Span(address, length)
                                            THEN Rt[a - address] ELSE MappedMemory[a]]
    <3> SUFFICES ASSUME NEW a \in Readable
                 PROVE  (IF a < RAM_BASE THEN Flash[a] ELSE ram'[a - RAM_BASE])
                        = IF a \in Span(address, length) THEN Rt[a - address]
                          ELSE IF a < RAM_BASE THEN Flash[a] ELSE ram[a - RAM_BASE]
      BY DEF MappedMemory, Memory!Span
    <3>1. CASE a < RAM_BASE
      BY <3>1, <2>3, MapAssumption
    <3>2. CASE ~(a < RAM_BASE)
      <4>1. a - RAM_BASE \in 0 .. RamSize - 1
        BY <3>2, MapAssumption
      <4>2. (a - RAM_BASE \in Span(RamIndex(address), length)) <=> (a \in Span(address, length))
        BY <4>1, <2>3, MapAssumption
      <4>3. (a - RAM_BASE) - RamIndex(address) = a - address
        BY <4>1, <2>3, MapAssumption
      <4> QED
        BY <3>2, <4>1, <4>2, <4>3, <2>1, <2>2
    <3> QED
      BY <3>1, <3>2
  <2>6. Memory!Store(address, length)
    <3>1. UNCHANGED <<Rt, origin, undefined>>
      BY <2>1 DEF TypeOK
    <3> QED
      BY <2>3, <2>5, <3>1 DEF Memory!Store, Memory!Span
  <2> QED
    BY <2>1, <2>3, <2>4, <2>6 DEF TypeOK
<1> QED
  BY <1>1, <1>2

LEMMA StoreStores ==
  ASSUME TypeOK, NEW address \in Address, NEW length \in {1, 2, 4},
         Store(address, length), ~undefined
  PROVE  TypeOK' /\ [Memory!Next]_(Memory!vars)
<1>1. CASE WriteRam(address, length)
  <2>1. UNCHANGED <<Rt, origin>>
    BY DEF Store
  <2> QED
    BY <1>1, <2>1, WriteRamStores DEF Memory!Next
<1>2. CASE ~WriteRam(address, length)
  <2>1. ram' = ram /\ undefined' = undefined /\ Rt' = Rt /\ origin' = origin
        /\ scb' \subseteq scb \cup SCBRegisters
    BY <1>2 DEF Store, write32
  <2> QED
    BY <2>1 DEF TypeOK, Memory!vars, MappedMemory
<1> QED
  BY <1>1, <1>2

-----------------------------------------------------------------------------
(* A read that finds bytes of the memory, or leaves it. *)
LEMMA LoadLoads ==
  ASSUME TypeOK, NEW address \in Address, NEW length \in {1, 4},
         undefined' \in BOOLEAN, undefined' => Rt' = Rt,
         ~undefined' =>
           /\ Rt' = [k \in 0 .. 3 |-> IF k < length THEN MappedMemory[address + k] ELSE 0]
           /\ \A k \in 0 .. 3 : k < length => /\ address + k \in Readable
                                             /\ MappedMemory[address + k] \in Byte,
         origin' = "memory", ram' = ram, scb' = scb, ~undefined
  PROVE  TypeOK' /\ Memory!Next
<1>1. MappedMemory' = MappedMemory
  BY DEF MappedMemory
<1>2. CASE undefined'
  BY <1>1, <1>2 DEF TypeOK, Memory!Next, Memory!Leave
<1>3. CASE ~undefined'
  <2>1. Rt' \in Word
    BY <1>3, ByteAssumption
  <2>2. Memory!Span(address, length) \subseteq Readable
    <3> SUFFICES ASSUME NEW a \in address .. address + length - 1 PROVE a \in Readable
      BY DEF Memory!Span
    <3>1. a - address \in 0 .. 3 /\ a - address < length /\ address + (a - address) = a
      OBVIOUS
    <3> QED
      BY <3>1, <1>3
  <2>3. Memory!Load(address, length)
    BY <1>1, <1>3, <2>2 DEF Memory!Load, TypeOK
  <2>4. address \in Readable
    BY <2>2 DEF Memory!Span
  <2> QED
    BY <1>3, <2>1, <2>3, <2>4 DEF TypeOK, Memory!Next
<1> QED
  BY <1>2, <1>3

LEMMA RamLoads ==
  ASSUME TypeOK, NEW address \in Address, NEW length \in {1, 4},
         ReadVector(ram, RamIndex(address), length),
         origin' = "memory", ram' = ram, scb' = scb, ~undefined
  PROVE  TypeOK' /\ Memory!Next
<1>1. undefined' \in BOOLEAN /\ (undefined' => Rt' = Rt)
  BY DEF ReadVector
<1>2. ASSUME ~undefined'
      PROVE  /\ Rt' = [k \in 0 .. 3 |-> IF k < length THEN MappedMemory[address + k] ELSE 0]
             /\ \A k \in 0 .. 3 : k < length => /\ address + k \in Readable
                                               /\ MappedMemory[address + k] \in Byte
  <2>1. /\ Span(RamIndex(address), length) \subseteq 0 .. RamSize - 1
        /\ Rt' = [k \in 0 .. 3 |-> IF k < length THEN ram[RamIndex(address) + k] ELSE 0]
    BY <1>2 DEF ReadVector, TypeOK
  <2>2. RamIndex(address) = address - RAM_BASE /\ Span(address, length) \subseteq Writable
    BY <2>1, StoresStayInRam
  <2>3. \A k \in 0 .. 3 : k < length => /\ address + k \in Writable
                                        /\ MappedMemory[address + k] = ram[RamIndex(address) + k]
    <3> SUFFICES ASSUME NEW k \in 0 .. 3, k < length
                 PROVE  /\ address + k \in Writable
                        /\ MappedMemory[address + k] = ram[RamIndex(address) + k]
      OBVIOUS
    <3>1. address + k \in Span(address, length)
      OBVIOUS
    <3>2. address + k \in Writable
      BY <3>1, <2>2
    <3>3. ~(address + k < RAM_BASE) /\ (address + k) - RAM_BASE = RamIndex(address) + k
      BY <3>2, <2>2, MapAssumption
    <3> QED
      BY <3>2, <3>3 DEF MappedMemory
  <2>4. Rt' = [k \in 0 .. 3 |-> IF k < length THEN MappedMemory[address + k] ELSE 0]
    BY <2>1, <2>3
  <2>5. \A a \in Writable : a \in Readable /\ MappedMemory[a] \in Byte
    BY MapAssumption DEF MappedMemory, TypeOK
  <2> QED
    BY <2>3, <2>4, <2>5
<1> QED
  BY <1>1, <1>2, LoadLoads

LEMMA Read32Loads ==
  ASSUME TypeOK, NEW address \in Address, Load(read32(address), "memory"), ~undefined
  PROVE  TypeOK' /\ Memory!Next
<1>1. origin' = "memory" /\ ram' = ram /\ scb' = scb
  BY DEF Load
<1>2. CASE address < RAM_BASE
  <2>1. /\ undefined' = ~(Span(address, 4) \subseteq 0 .. FlashSize - 1)
        /\ Rt' = IF undefined' THEN Rt
                 ELSE [k \in 0 .. 3 |-> IF k < 4 THEN Flash[address + k] ELSE 0]
    BY <1>2, FlashAssumption DEF Load, read32, ReadVector
  <2>2. ASSUME ~undefined'
        PROVE  /\ Rt' = [k \in 0 .. 3 |-> IF k < 4 THEN MappedMemory[address + k] ELSE 0]
               /\ \A k \in 0 .. 3 : k < 4 => /\ address + k \in Readable
                                            /\ MappedMemory[address + k] \in Byte
    <3>1. ASSUME NEW k \in 0 .. 3 PROVE address + k \in 0 .. FlashSize - 1
      <4>1. address + k \in Span(address, 4)
        OBVIOUS
      <4> QED
        BY <2>1, <2>2, <4>1
    <3>2. \A a \in 0 .. FlashSize - 1 : /\ a \in Readable /\ MappedMemory[a] \in Byte
                                         /\ MappedMemory[a] = Flash[a]
      BY MapAssumption, FlashAssumption DEF MappedMemory
    <3> QED
      BY <2>1, <2>2, <3>1, <3>2
  <2> QED
    BY <1>1, <2>1, <2>2, LoadLoads
<1>3. CASE ~(address < RAM_BASE)
  <2>1. ReadVector(ram, RamIndex(address), 4)
    BY <1>3 DEF Load, read32
  <2> QED
    BY <1>1, <2>1, RamLoads
<1> QED
  BY <1>2, <1>3

LEMMA Read16Loads ==
  ASSUME TypeOK, NEW address \in Address, Load(read16(address), "halfword"), ~undefined
  PROVE  TypeOK' /\ Memory!Next
<1>1. ram' = ram /\ scb' = scb /\ origin' = "halfword"
  BY DEF Load
<1>2. CASE ~(Span(address, 2) \subseteq DOMAIN ram)
  <2>1. undefined' = TRUE /\ Rt' = Rt
    BY <1>2 DEF Load, read16, ReadVector
  <2> QED
    BY <1>1, <2>1 DEF TypeOK, Memory!Next, Memory!Leave, MappedMemory
<1>3. CASE Span(address, 2) \subseteq DOMAIN ram
  <2>1. /\ undefined' = FALSE
        /\ Rt' = [k \in 0 .. 3 |-> IF k < 2 THEN ram[address + k] ELSE 0]
    BY <1>3 DEF Load, read16, ReadVector
  <2>2. \A k \in 0 .. 3 : k < 2 => ram[address + k] \in Byte
    <3> SUFFICES ASSUME NEW k \in 0 .. 3, k < 2 PROVE ram[address + k] \in Byte
      OBVIOUS
    <3>1. address + k \in Span(address, 2)
      OBVIOUS
    <3> QED
      BY <1>3, <3>1 DEF TypeOK
  <2>3. Rt' \in Word
    BY <2>1, <2>2, ByteAssumption
  <2> QED
    BY <1>1, <2>1, <2>3 DEF TypeOK, Memory!Next, Memory!LoadHalfword, MappedMemory
<1> QED
  BY <1>2, <1>3

LEMMA AccessRefines ==
  ASSUME TypeOK, ~undefined, NEW instruction, NEW address \in Nat,
         Access(instruction, address % AddressSpan)
  PROVE  TypeOK' /\ [Memory!Next]_(Memory!vars)
<1> DEFINE a == address % AddressSpan
<1>1. a \in Address
  BY AddressesAreAddresses
<1>2. CASE \E length \in {1, 2, 4} : Store(a, length)
  BY <1>1, <1>2, StoreStores
<1>3. CASE Load(read32(a), "memory")
  BY <1>1, <1>3, Read32Loads
<1>4. CASE Load(read16(a), "halfword")
  BY <1>1, <1>4, Read16Loads
<1>5. CASE Load(read8(a), "memory")
  BY <1>1, <1>5, RamLoads DEF read8, Load
<1> QED
  BY <1>2, <1>3, <1>4, <1>5 DEF Access

-----------------------------------------------------------------------------
LEMMA InitRefines == Init => TypeOK /\ Memory!Init
<1> SUFFICES ASSUME Init PROVE TypeOK /\ Memory!Init
  OBVIOUS
<1>1. TypeOK
  <2>1. 0 \in Byte
    BY ByteAssumption
  <2>2. ram \in [0 .. RamSize - 1 -> Byte] /\ Rt \in Word
    BY <2>1 DEF Init
  <2> QED
    BY <2>2 DEF Init, TypeOK
<1>2. MappedMemory = [a \in Readable |-> IF a < RAM_BASE THEN Flash[a] ELSE 0]
  BY MapAssumption DEF Init, MappedMemory
<1> QED
  BY <1>1, <1>2 DEF Init, Memory!Init

LEMMA NextRefines ==
  TypeOK /\ [Next]_vars => TypeOK' /\ [Memory!Next]_(Memory!vars)
<1> SUFFICES ASSUME TypeOK, [Next]_vars
             PROVE  TypeOK' /\ [Memory!Next]_(Memory!vars)
  OBVIOUS
<1>1. CASE ~undefined /\ Compute
  BY <1>1 DEF Compute, TypeOK, Memory!Next, Memory!Compute, MappedMemory
<1>2. ASSUME ~undefined, NEW n \in Bases, NEW i \in Instructions, NEW m \in Offsets,
             executeLoadStoreReg(i, n, m)
      PROVE  TypeOK' /\ [Memory!Next]_(Memory!vars)
  <2>1. n + m \in Nat /\ Access(i, (n + m) % AddressSpan)
    BY <1>2, InputsAssumption DEF executeLoadStoreReg
  <2> QED
    BY <1>2, <2>1, AccessRefines
<1>3. ASSUME ~undefined, NEW n \in Bases, NEW i \in Instructions, NEW imm \in Immediates,
             \/ executeLoadStoreImm(i, n, imm)
             \/ executeLoadStoreHalf(i, n, imm)
             \/ executeSpRelative(i, n, imm)
      PROVE  TypeOK' /\ [Memory!Next]_(Memory!vars)
  <2>1. n + 4 * imm \in Nat /\ Access(i, (n + 4 * imm) % AddressSpan)
    BY <1>3, InputsAssumption
    DEF executeLoadStoreImm, executeLoadStoreHalf, executeSpRelative
  <2> QED
    BY <1>3, <2>1, AccessRefines
<1>4. ASSUME ~undefined, NEW n \in Bases, NEW imm \in Immediates,
             executeLDRLiteral(n, imm)
      PROVE  TypeOK' /\ [Memory!Next]_(Memory!vars)
  <2>1. 4 * ((n + 4) \div 4) + 4 * imm \in Nat
    BY InputsAssumption
  <2>2. Access("LDR", (4 * ((n + 4) \div 4) + 4 * imm) % AddressSpan)
    BY <1>4 DEF executeLDRLiteral
  <2> QED
    BY <1>4, <2>1, <2>2, AccessRefines
<1>5. CASE UNCHANGED vars
  BY <1>5 DEF vars, TypeOK, Memory!vars, MappedMemory
<1> QED
  BY <1>1, <1>2, <1>3, <1>4, <1>5 DEF Next

LEMMA TypeInvariant == Spec => []TypeOK
  BY InitRefines, NextRefines, PTL DEF Spec

(* No access, at whatever address, leaves anything but bytes in ram and in *)
(* the register.                                                           *)
THEOREM TypeCorrect == Spec => []TypeOK
  BY TypeInvariant

(* The functions read and write of the processor implement a byte memory,  *)
(* for every memory map in which flash ends below RAM and RAM ends below   *)
(* the devices.                                                            *)
THEOREM MemoryImplemented == Spec => KeepsWhatIsStored
  BY TypeInvariant, InitRefines, NextRefines, PTL
  DEF Spec, KeepsWhatIsStored, Memory!Spec
=============================================================================
