----------------------------- MODULE MCDecoder -----------------------------
(* Halfwords at both ends of the range of every test of classify and       *)
(* handleMisc, branches at both ends of their ranges, and the 32-bit       *)
(* instructions decode does not know.                                      *)
EXTENDS Decoder

MCOffsets == {-16777216, -4194306, -4096, -2048, -256, -4, 0, 2, 254, 2046,
              4194304, 8388606, 16777214}

Halfword(h) == [first |-> h, second |-> 0]

Borders ==
  {0, 6143, 6144, 8191, 8192, 16383, 16384, 17407, 17408, 18431, 18432, 20479,
   20480, 24575, 24576, 32767, 32768, 36864, 40960, 45056, 45311, 45312,
   46688, 46719, 47872, 48896, 48960, 49151, 49152, 57088, 57089, 57343}

MCInstructions ==
  {Halfword(h) : h \in Borders}
    \cup {Halfword(EncodeCond(0, o)) : o \in Even(-256, 254)}
    \cup {Halfword(EncodeUncond(o)) : o \in Even(-2048, 2046)}
    \cup {EncodeBL(o) : o \in Even(-16777216, 16777214)}
    \cup {[first |-> 59392, second |-> 0],      \* class 11101
          [first |-> 63488, second |-> 0],      \* class 11111
          [first |-> 62399, second |-> 36687]}  \* DSB
=============================================================================
