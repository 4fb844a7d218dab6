--------------------------- MODULE MCSysTickTimer ---------------------------
(* SysTickTimer with a small counter width; SYST_RVR is written with every *)
(* value of the width and with one that overflows it.                      *)
EXTENDS SysTickTimer
=============================================================================
