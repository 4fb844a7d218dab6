------------------------------ MODULE ElfLoader ------------------------------
(***************************************************************************)
(* Emulator::load_elf, write_block and zero_memory (src/emulator.cpp) and  *)
(* the vectors they fill.                                                  *)
(*                                                                         *)
(* A file is the outcome of the checks of its header and a sequence of     *)
(* program headers.  An exception, which nobody catches, ends the program  *)
(* in phase "failed"; an access outside a vector is undefined behaviour.   *)
(***************************************************************************)
EXTENDS Integers, Sequences

CONSTANTS RAM_BASE,
          FLASH_SIZE, RAM_SIZE,    \* of class Emulator
          Segments,                \* the program headers files are made of
          MaxSegments

Byte == 0 .. 255

(* "present" is what of a program header the file still holds. *)
ASSUME SegmentsAssumption ==
  \A s \in Segments : /\ s.p_type \in {"PT_LOAD", "other"}
                      /\ s.p_paddr \in Nat
                      /\ s.data \in Seq(Byte) /\ s.p_memsz \in Nat
                      /\ s.present \in {"all", "header", "nothing"}

(* The vector that holds flash, whose size is RAM_SIZE, has room for the   *)
(* two words load_elf reads of it and ends below RAM.                      *)
ASSUME LoaderAssumption ==
  /\ {FLASH_SIZE, RAM_SIZE, RAM_BASE, MaxSegments} \subseteq Nat
  /\ 8 <= RAM_SIZE /\ RAM_SIZE <= RAM_BASE

VARIABLES flash, ram,    \* the vectors of the processor
          file,
          i,             \* the number of program headers dealt with
          phase,
          sp, msp, pc    \* regs[13], msp and regs[15]

loaderVars == <<flash, ram, file, i, phase, sp, msp, pc>>

Word == [0 .. 3 -> Byte]

Bytes(base, size) == base .. base + size - 1

(* Emulator() passes the sizes to Cpu(ram_size, flash_size) in the other   *)
(* order.                                                                  *)
FlashBytes == Bytes(0, RAM_SIZE)

RamBytes == Bytes(RAM_BASE, FLASH_SIZE)

(* A vector is seen as a function of the addresses it is mapped to.        *)
Overwrite(vector, addr, bytes) ==
  [a \in DOMAIN vector |-> IF a \in Bytes(addr, Len(bytes)) THEN bytes[a - addr + 1]
                           ELSE vector[a]]

p_filesz(segment) == Len(segment.data)

Fail == phase' = "failed" /\ UNCHANGED <<flash, ram, i>>

Fits(addr, size, region, length) == addr >= region /\ addr + size <= region + length

(* write8 takes every address for one in RAM: a tail that begins in flash  *)
(* lies far outside of the vector.                                         *)
zero_memory(vector, addr, size) ==
  IF Fits(addr, size, RAM_BASE, FLASH_SIZE)
  THEN /\ ram' = Overwrite(vector, addr, [k \in 1 .. size |-> 0])
       /\ i' = i + 1 /\ UNCHANGED phase
  ELSE phase' = "undefined" /\ ram' = vector /\ UNCHANGED i

(* Seeded fault: the tail is taken to begin where the segment does. *)
WriteSegment_ZeroesItself(s) ==
  IF /\ ~Fits(s.p_paddr, p_filesz(s), 0, RAM_SIZE)
     /\ ~Fits(s.p_paddr, p_filesz(s), RAM_BASE, FLASH_SIZE)
  THEN Fail
  ELSE LET written == Overwrite(ram, s.p_paddr, s.data)
       IN  /\ flash' = Overwrite(flash, s.p_paddr, s.data)
           /\ IF s.p_memsz > p_filesz(s)
              THEN zero_memory(written, s.p_paddr, s.p_memsz - p_filesz(s))
              ELSE ram' = written /\ i' = i + 1 /\ UNCHANGED phase

(* write_block, which finds the vector by the address, and zero_memory. *)
WriteSegment(s) ==
  IF /\ ~Fits(s.p_paddr, p_filesz(s), 0, RAM_SIZE)
     /\ ~Fits(s.p_paddr, p_filesz(s), RAM_BASE, FLASH_SIZE)
  THEN Fail
  ELSE LET written == Overwrite(ram, s.p_paddr, s.data)
       IN  /\ flash' = Overwrite(flash, s.p_paddr, s.data)
           /\ IF s.p_memsz > p_filesz(s)
              THEN zero_memory(written, s.p_paddr + p_filesz(s), s.p_memsz - p_filesz(s))
              ELSE ram' = written /\ i' = i + 1 /\ UNCHANGED phase

-----------------------------------------------------------------------------
LoaderInit ==
  /\ flash = [a \in FlashBytes |-> 0] /\ ram = [a \in RamBytes |-> 0]
  /\ file \in [valid : BOOLEAN,
               segments : UNION {[1 .. n -> Segments] : n \in 0 .. MaxSegments}]
  /\ i = 0 /\ phase = "header"
  /\ sp = [k \in 0 .. 3 |-> 0] /\ msp = sp /\ pc = sp

(* Opening the file, reading its header and the four tests of it. *)
ReadHeader ==
  /\ phase = "header"
  /\ IF file.valid THEN phase' = "segments" /\ UNCHANGED <<flash, ram, i>> ELSE Fail
  /\ UNCHANGED <<file, sp, msp, pc>>

(* Seeded fault: "continue" leaves the counter where it was. *)
LoadSegment_SkipsForever ==
  /\ phase = "segments" /\ i < Len(file.segments)
  /\ LET s == file.segments[i + 1]
     IN  IF s.present = "nothing" THEN Fail
         ELSE IF s.p_type # "PT_LOAD" THEN UNCHANGED <<flash, ram, phase, i>>
         ELSE IF s.present = "header" THEN Fail
         ELSE WriteSegment(s)
  /\ UNCHANGED <<file, sp, msp, pc>>

(* One iteration of the loop.  The position in the file is restored, so    *)
(* the next iteration reads the next header.                               *)
LoadSegment ==
  /\ phase = "segments" /\ i < Len(file.segments)
  /\ LET s == file.segments[i + 1]
     IN  IF s.present = "nothing" THEN Fail
         ELSE IF s.p_type # "PT_LOAD"
              THEN i' = i + 1 /\ UNCHANGED <<flash, ram, phase>>
         ELSE IF s.present = "header" THEN Fail
         ELSE WriteSegment(s)
  /\ UNCHANGED <<file, sp, msp, pc>>

read32Flash(a) == [k \in 0 .. 3 |-> flash[a + k]]

(* Seeded fault: the bit that marks Thumb code stays in the PC. *)
SetRegisters_KeepsTheThumbBit ==
  /\ phase = "segments" /\ i = Len(file.segments)
  /\ phase' = "loaded"
  /\ sp' = read32Flash(0) /\ msp' = read32Flash(0)
  /\ pc' = read32Flash(4)
  /\ UNCHANGED <<flash, ram, file, i>>

SetRegisters ==
  /\ phase = "segments" /\ i = Len(file.segments)
  /\ phase' = "loaded"
  /\ sp' = read32Flash(0) /\ msp' = read32Flash(0)
  /\ pc' = [read32Flash(4) EXCEPT ![0] = @ - (@ % 2)]
  /\ UNCHANGED <<flash, ram, file, i>>

LoaderNext == ReadHeader \/ LoadSegment \/ SetRegisters

-----------------------------------------------------------------------------
LoaderTypeOK ==
  /\ flash \in [FlashBytes -> Byte] /\ ram \in [RamBytes -> Byte]
  /\ i \in 0 .. Len(file.segments)
  /\ {sp, msp, pc} \subseteq Word /\ pc[0] % 2 = 0

(* The bytes a segment speaks for, those of its tail too, and what it says *)
(* of one of them.                                                         *)
Extent(s) ==
  Bytes(s.p_paddr, IF s.p_memsz > p_filesz(s) THEN s.p_memsz ELSE p_filesz(s))

ByteOfSegment(a, s) ==
  IF a < s.p_paddr + p_filesz(s) THEN s.data[a - s.p_paddr + 1] ELSE 0

Covering(a, n) ==
  {j \in 1 .. n : /\ file.segments[j].p_type = "PT_LOAD"
                  /\ a \in Extent(file.segments[j])}

(* What the first n segments of the file say of the byte at an address:    *)
(* the last of them that covers it decides, and nothing is zero.           *)
ByteOfImage(a, n) ==
  IF Covering(a, n) = {} THEN 0
  ELSE LET last == CHOOSE j \in Covering(a, n) : \A k \in Covering(a, n) : k <= j
       IN  ByteOfSegment(a, file.segments[last])

(* At every moment of load_elf, and after it has thrown, memory is what    *)
(* the segments dealt with say: a segment that is refused has left         *)
(* nothing, one that overlaps an earlier one wins, and no tail is left     *)
(* over.  Flash stays so when the firmware runs.                           *)
MemoryIsTheImage ==
  phase # "undefined" =>
    /\ \A a \in FlashBytes : flash[a] = ByteOfImage(a, i)
    /\ phase \in {"header", "segments", "failed", "loaded"} =>
         \A a \in RamBytes : ram[a] = ByteOfImage(a, i)

-----------------------------------------------------------------------------
(* What the source says of itself and the code does not do.                *)

(* load_elf "Zero-fill (.bss)": a segment whose bytes and tail lie in      *)
(* flash, or in RAM, can be loaded.                                        *)
TailsAreZeroed ==
  (phase = "undefined" /\ i < Len(file.segments)) =>
    LET s == file.segments[i + 1]
    IN  /\ ~Fits(s.p_paddr, s.p_memsz, 0, RAM_SIZE)
        /\ ~Fits(s.p_paddr, s.p_memsz, RAM_BASE, FLASH_SIZE)

(* class Emulator "FLASH_SIZE = 64 * 1024": a complete segment that ends   *)
(* within FLASH_SIZE is not refused.                                       *)
FlashIsLargeEnough ==
  (phase = "failed" /\ file.valid) =>
    LET s == file.segments[i + 1]
    IN  ~(s.present = "all" /\ Fits(s.p_paddr, p_filesz(s), 0, FLASH_SIZE))
=============================================================================
