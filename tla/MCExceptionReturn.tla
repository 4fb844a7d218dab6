-------------------------- MODULE MCExceptionReturn --------------------------
(* A stack top that is not a multiple of eight, room for three frames, and *)
(* three frames to be found in flash: that of the vector table of          *)
(* elf/setup.c, whose word at 0x18 is zero, and two of code or data.       *)
EXTENDS ExceptionReturn

MCCode == {64, 80}

FlashFrame(link, address, number, bit) ==
  [lr |-> link, pc |-> address, exception |-> number, align |-> bit]

SetupFlashFrames == { FlashFrame(0, 0, 0, 0) }

MCFlashFrames == SetupFlashFrames \cup { FlashFrame(-7, 65, 15, 1),
                                         FlashFrame(0, 80, 75, 0) }
=============================================================================
