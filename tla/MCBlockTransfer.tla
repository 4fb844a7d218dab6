--------------------------- MODULE MCBlockTransfer ---------------------------
(* Three registers and three words: a base in the list and outside of it,    *)
(* blocks that overlap and blocks that leave the region.                   *)
EXTENDS BlockTransfer

MCValue == 0 .. 3
=============================================================================
