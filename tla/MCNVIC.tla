------------------------------- MODULE MCNVIC -------------------------------
(* NVIC with two of its 64 interrupts: one with a lower and one with a     *)
(* higher number is all that checkInterrupts can tell apart.               *)
EXTENDS NVIC

MCIRQs == 0 .. 1
=============================================================================
