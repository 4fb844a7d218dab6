-------------------------------- MODULE MCAlu --------------------------------
(* Two registers of three bits, which have both signs, carries and         *)
(* overflows, and shift amounts beyond the width.                          *)
EXTENDS Alu
LOCAL INSTANCE Bitwise

MCBitAnd(x, y) == x & y
MCBitOr(x, y) == x | y
MCBitXor(x, y) == x ^^ y

MCImmediates == {0, 1, 3}
=============================================================================
