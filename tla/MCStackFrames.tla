---------------------------- MODULE MCStackFrames ----------------------------
(* Lists over r0, r1 and r7; four words of stack hold two frames with      *)
(* locals between them.                                                    *)
EXTENDS StackFrames
=============================================================================
