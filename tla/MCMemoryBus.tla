----------------------------- MODULE MCMemoryBus -----------------------------
(* Bytes of one bit, five of flash and five of RAM; accesses at both ends  *)
(* of both, across them, through the wrap-around and to the devices.       *)
EXTENDS MemoryBus

MCFlash == [i \in 0 .. 4 |-> (i + 1) % 2]

MCBases == {0, 1, 9, 10, 18, 24, 31}

MCOffsets == {0, 1, 31}
=============================================================================
