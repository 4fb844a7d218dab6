----------------------------- MODULE MemoryBus ------------------------------
(***************************************************************************)
(* The loads and stores of src/cpu.cpp and the functions that route them   *)
(* to flash, RAM, the UART and the system control space.                   *)
(*                                                                         *)
(* Addresses are numbers below AddressSpan, 2^32 in the code.  A word is   *)
(* a function from the weights of its bytes, 0 for the least significant.  *)
(* An access beyond the end of a vector is undefined behaviour; the model  *)
(* stops there.  Every instruction works on one register, Rt.              *)
(***************************************************************************)
EXTENDS Integers

CONSTANTS ByteMax,                    \* 255 in the code
          AddressSpan,
          FlashSize, Flash,           \* the vector flash, never written here
          RAM_BASE, RamSize,
          UART_DR,
          SCS_BASE, SCS_LAST,         \* 0xE0000000 and 0xE00FFFFF
          SCBRegisters,               \* the addresses of the members of SCB
          Bases, Offsets, Immediates  \* values of Rn, SP or PC, of Rm, of imm5

Byte == 0 .. ByteMax

Word == [0 .. 3 -> Byte]

Address == 0 .. AddressSpan - 1

Writable == RAM_BASE .. RAM_BASE + RamSize - 1

Readable == (0 .. FlashSize - 1) \cup Writable

ASSUME ByteAssumption == ByteMax \in Nat
ASSUME FlashAssumption == Flash \in [0 .. FlashSize - 1 -> Byte]
ASSUME MapAssumption ==
  /\ AddressSpan \in Nat /\ FlashSize \in Nat /\ RamSize \in Nat
  /\ RAM_BASE \in Nat /\ UART_DR \in Nat /\ SCS_BASE \in Nat /\ SCS_LAST \in Nat
  /\ FlashSize + 4 <= RAM_BASE
  /\ RAM_BASE + RamSize + 4 <= UART_DR /\ UART_DR + 4 <= SCS_BASE
  /\ SCS_BASE <= SCS_LAST /\ SCS_LAST < AddressSpan
ASSUME InputsAssumption ==
  Bases \subseteq Address /\ Offsets \subseteq Address /\ Immediates \subseteq Nat

VARIABLES ram,        \* the vector ram
          scb,        \* the members of SCB written so far; nothing reads them
          Rt,         \* regs[t]
          origin,     \* where Rt has its value from
          undefined

vars == <<ram, scb, Rt, origin, undefined>>

-----------------------------------------------------------------------------
(* The indices of "length" bytes of a vector. *)
Span(index, length) == index .. index + length - 1

(* An address below RAM_BASE wraps around to an index beyond the end. *)
RamIndex(address) == address - RAM_BASE + (IF address < RAM_BASE THEN AddressSpan ELSE 0)

(* Seeded fault: a store beyond the end makes the vector larger. *)
WriteRam_Resizes(address, length) ==
  LET in == Span(RamIndex(address), length)
  IN  /\ ram' = [i \in DOMAIN ram \cup in |->
                   IF i \in in THEN Rt[i - RamIndex(address)] ELSE ram[i]]
      /\ UNCHANGED <<scb, undefined>>

(* write8, write16 and the end of write32: the low bytes of Rt, one by one. *)
WriteRam(address, length) ==
  LET in == Span(RamIndex(address), length)
  IN  /\ undefined' = ~(in \subseteq DOMAIN ram)
      /\ ram' = IF undefined' THEN ram
                ELSE [i \in DOMAIN ram |->
                        IF i \in in THEN Rt[i - RamIndex(address)] ELSE ram[i]]
      /\ UNCHANGED scb

(* Only words reach the devices.  SCS::write32 stores into the member of   *)
(* SCB at the address; those of the SysTick are in module SysTick.         *)
write32(address) ==
  IF address \in SCS_BASE .. SCS_LAST
  THEN /\ scb' = scb \cup ({address} \cap SCBRegisters)
       /\ UNCHANGED <<ram, undefined>>
  ELSE IF address = UART_DR THEN UNCHANGED <<ram, scb, undefined>>
  ELSE WriteRam(address, 4)

Store(address, length) ==
  /\ IF length = 4 THEN write32(address) ELSE WriteRam(address, length)
  /\ UNCHANGED <<Rt, origin>>

(* The bytes extended with zeros; sign_extend(x, 32) adds nothing to them, *)
(* as it looks at bit 31.                                                  *)
ReadVector(vector, index, length) ==
  /\ undefined' = ~(Span(index, length) \subseteq DOMAIN vector)
  /\ Rt' = IF undefined' THEN Rt
           ELSE [k \in 0 .. 3 |-> IF k < length THEN vector[index + k] ELSE 0]

(* Seeded fault: the bytes are put together in the wrong order. *)
read32_BigEndian(address) ==
  LET vector == IF address < RAM_BASE THEN Flash ELSE ram
      index  == IF address < RAM_BASE THEN address ELSE RamIndex(address)
  IN  /\ undefined' = ~(Span(index, 4) \subseteq DOMAIN vector)
      /\ Rt' = IF undefined' THEN Rt ELSE [k \in 0 .. 3 |-> vector[index + 3 - k]]

read32(address) == IF address < RAM_BASE THEN ReadVector(Flash, address, 4)
                   ELSE ReadVector(ram, RamIndex(address), 4)

(* RAM_BASE is not subtracted. *)
read16(address) == ReadVector(ram, address, 2)

read8(address) == ReadVector(ram, RamIndex(address), 1)

Load(read, from) == read /\ origin' = from /\ UNCHANGED <<ram, scb>>

-----------------------------------------------------------------------------
Access(instruction, address) ==
  \/ instruction = "STR"  /\ Store(address, 4)
  \/ instruction = "STRH" /\ Store(address, 2)
  \/ instruction = "STRB" /\ Store(address, 1)
  \/ instruction = "LDR"  /\ Load(read32(address), "memory")
  \/ instruction \in {"LDRH", "LDRSH"} /\ Load(read16(address), "halfword")
  \/ instruction \in {"LDRB", "LDRSB"} /\ Load(read8(address), "memory")

executeLoadStoreReg(instruction, n, m) ==
  /\ instruction \in {"STR", "STRH", "STRB", "LDRSB", "LDR", "LDRH", "LDRB", "LDRSH"}
  /\ Access(instruction, (n + m) % AddressSpan)

(* The immediate of a byte or a halfword is scaled by four, too. *)
executeLoadStoreImm(instruction, n, imm5) ==
  /\ instruction \in {"STR", "LDR", "STRB", "LDRB"}
  /\ Access(instruction, (n + 4 * imm5) % AddressSpan)

executeLoadStoreHalf(instruction, n, imm5) ==
  /\ instruction \in {"STRH", "LDRH"}
  /\ Access(instruction, (n + 4 * imm5) % AddressSpan)

executeSpRelative(instruction, sp, imm8) ==
  /\ instruction \in {"STR", "LDR"}
  /\ Access(instruction, (sp + 4 * imm8) % AddressSpan)

executeLDRLiteral(pc, imm8) ==
  Access("LDR", (4 * ((pc + 4) \div 4) + 4 * imm8) % AddressSpan)

(* Any other instruction. *)
Compute == Rt' \in Word /\ origin' = "computed" /\ UNCHANGED <<ram, scb, undefined>>

Init == /\ ram = [i \in 0 .. RamSize - 1 |-> 0]
        /\ scb = {}
        /\ Rt = [k \in 0 .. 3 |-> 0] /\ origin = "computed"
        /\ undefined = FALSE

Instructions == {"STR", "STRH", "STRB", "LDRSB", "LDR", "LDRH", "LDRB", "LDRSH"}

Next ==
  /\ ~undefined
  /\ \/ Compute
     \/ \E n \in Bases, i \in Instructions :
          \/ \E m \in Offsets : executeLoadStoreReg(i, n, m)
          \/ \E imm \in Immediates : \/ executeLoadStoreImm(i, n, imm)
                                     \/ executeLoadStoreHalf(i, n, imm)
                                     \/ executeSpRelative(i, n, imm)
     \/ \E n \in Bases, imm \in Immediates : executeLDRLiteral(n, imm)

Spec == Init /\ [][Next]_vars

-----------------------------------------------------------------------------
TypeOK ==
  /\ ram \in [0 .. RamSize - 1 -> Byte]
  /\ scb \subseteq SCBRegisters
  /\ Rt \in Word
  /\ origin \in {"computed", "memory", "halfword"}
  /\ undefined \in BOOLEAN

(* Flash and RAM seen as one memory. *)
MappedMemory == [a \in Readable |-> IF a < RAM_BASE THEN Flash[a]
                                    ELSE ram[a - RAM_BASE]]

Memory == INSTANCE ByteMemory WITH
            InitialMemory <- [a \in Readable |-> IF a < RAM_BASE THEN Flash[a] ELSE 0],
            mem <- MappedMemory, register <- Rt, broken <- undefined

(* A load of a word or a byte finds what was stored there last, by stores  *)
(* of words, halfwords or bytes at any alignment; flash stays what it is,  *)
(* stores to the devices touch neither, and whatever leaves the memory is  *)
(* not mistaken for an access to it (write32, write16, write8, read32,     *)
(* read8).                                                                 *)
KeepsWhatIsStored == Memory!Spec

-----------------------------------------------------------------------------
(* What the source says of itself and the code does not do.                *)

(* README: "Memory-mapped RAM/FLASH": LDRH finds the halfword there.       *)
HalfwordsAreMapped ==
  [][\A n \in Bases, imm \in Immediates :
       (executeLoadStoreHalf("LDRH", n, imm) /\ Span(n + 4 * imm, 2) \subseteq Readable)
         => /\ ~undefined'
            /\ \A k \in 0 .. 1 : Rt'[k] = MappedMemory[n + 4 * imm + k]]_vars

(* executeLoadStoreReg "LDRSB": a negative byte stays negative.            *)
LDRSBExtendsTheSign ==
  [][\A n \in Bases, m \in Offsets :
       (executeLoadStoreReg("LDRSB", n, m) /\ ~undefined' /\ Rt'[0] > ByteMax \div 2)
         => Rt'[3] = ByteMax]_vars

(* README: "Cortex-M0 Thumb instruction execution": the offset of STRB     *)
(* (immediate) is counted in bytes.                                        *)
ByteOffsetsAreBytes ==
  [][\A n \in Bases, imm \in Immediates :
       executeLoadStoreImm("STRB", n, imm) =>
         \A i \in DOMAIN ram : ram'[i] # ram[i] => i = RamIndex(n + imm)]_vars

(* SCS::read32 "COUNTFLAG clears on read": the registers of the system     *)
(* control space can be read.  read32 of the processor never gets there.   *)
SystemRegistersCanBeRead ==
  [][\A n \in Bases :
       (n \in SCS_BASE .. SCS_LAST /\ executeLoadStoreImm("LDR", n, 0)) => ~undefined']_vars
=============================================================================
