-------------------------------- MODULE Boot --------------------------------
(***************************************************************************)
(* From the file to main: load_elf, then the Reset_Handler of the firmware *)
(* (elf/setup.c), whose loads and stores are the words of MemoryBus.   *)
(* The symbols of the linker script are part of the firmware.              *)
(***************************************************************************)
EXTENDS ElfLoader

CONSTANT Layouts    \* values of _sidata, _sdata, _edata, _sbss and _ebss

ASSUME LayoutsAssumption ==
  \A l \in Layouts : /\ {l.sidata, l.sdata, l.edata, l.sbss, l.ebss} \subseteq Nat
                     /\ l.sidata < RAM_BASE /\ RAM_BASE <= l.sdata
                     /\ l.sdata <= l.edata /\ l.edata <= l.sbss /\ l.sbss <= l.ebss

VARIABLES layout, src, dst

bootVars == <<loaderVars, layout, src, dst>>

(* *dst = word, which moves on by four. *)
Put(word) ==
  IF Fits(dst, 4, RAM_BASE, FLASH_SIZE)
  THEN /\ ram' = Overwrite(ram, dst, [k \in 1 .. 4 |-> word[k - 1]])
       /\ dst' = dst + 4 /\ UNCHANGED phase
  ELSE phase' = "undefined" /\ UNCHANGED <<ram, dst>>

EnterResetHandler ==
  /\ phase = "loaded" /\ phase' = "copying"
  /\ src' = layout.sidata /\ dst' = layout.sdata
  /\ UNCHANGED <<flash, ram, file, i, sp, msp, pc, layout>>

(* Copy .data from FLASH to RAM, word by word: the last word may reach     *)
(* beyond the end.                                                         *)
CopyData ==
  /\ phase = "copying" /\ dst < layout.edata
  /\ IF Fits(src, 4, 0, RAM_SIZE) THEN Put(read32Flash(src)) /\ src' = src + 4
     ELSE phase' = "undefined" /\ UNCHANGED <<ram, dst, src>>
  /\ UNCHANGED <<flash, file, i, sp, msp, pc, layout>>

(* Seeded fault: .bss is taken to follow wherever the copy has ended. *)
StartZeroing_WhereTheCopyEnded ==
  /\ phase = "copying" /\ dst >= layout.edata /\ phase' = "zeroing"
  /\ UNCHANGED <<flash, ram, file, i, sp, msp, pc, layout, src, dst>>

StartZeroing ==
  /\ phase = "copying" /\ dst >= layout.edata
  /\ phase' = "zeroing" /\ dst' = layout.sbss
  /\ UNCHANGED <<flash, ram, file, i, sp, msp, pc, layout, src>>

ZeroBss ==
  /\ phase = "zeroing" /\ dst < layout.ebss
  /\ Put([k \in 0 .. 3 |-> 0])
  /\ UNCHANGED <<flash, file, i, sp, msp, pc, layout, src>>

CallMain ==
  /\ phase = "zeroing" /\ dst >= layout.ebss /\ phase' = "main"
  /\ UNCHANGED <<flash, ram, file, i, sp, msp, pc, layout, src, dst>>

BootInit == LoaderInit /\ layout \in Layouts /\ src = 0 /\ dst = 0

BootNext == \/ LoaderNext /\ UNCHANGED <<layout, src, dst>>
            \/ EnterResetHandler
            \/ CopyData
            \/ StartZeroing
            \/ ZeroBss
            \/ CallMain

-----------------------------------------------------------------------------
(* What main may rely on finding at an address: the byte of the file, or   *)
(* of the file's copy of .data, or zero in .bss.                           *)
Promised(a) ==
  IF a \in FlashBytes THEN ByteOfImage(a, i)
  ELSE IF a \in layout.sdata .. layout.edata - 1
       THEN ByteOfImage(layout.sidata + (a - layout.sdata), i)
  ELSE 0

(* main finds its initialised variables as the file gives them and the     *)
(* others zero, although both loops work on whole words: what the copy     *)
(* writes beyond .data lies in .bss and is zeroed after it, never before.  *)
MainFindsItsData ==
  phase = "main" =>
    \A a \in (layout.sdata .. layout.edata - 1) \cup (layout.sbss .. layout.ebss - 1) :
      ram[a] = Promised(a)

(* Whatever the file holds, main is reached or the program stops. *)
BootEnds == <>(phase \in {"main", "failed", "undefined"})
=============================================================================
