----------------------------- MODULE ByteMemory -----------------------------
(***************************************************************************)
(* What a program may expect of the memory behind its loads and stores: a  *)
(* byte array with a hole between flash and RAM, that keeps what was last  *)
(* stored, least significant byte first.  Nothing is promised of what a    *)
(* load of a halfword finds, nor after an access that leaves the memory.   *)
(***************************************************************************)
EXTENDS Integers

CONSTANTS Word, Readable, Writable, InitialMemory

VARIABLES mem,        \* [Readable -> Byte]
          register,
          origin,     \* where the register has its value from
          broken      \* an access has left the memory

vars == <<mem, register, origin, broken>>

Span(address, length) == address .. address + length - 1

Init == /\ mem = InitialMemory /\ register = [k \in 0 .. 3 |-> 0]
        /\ origin = "computed" /\ broken = FALSE

Store(address, length) ==
  /\ Span(address, length) \subseteq Writable
  /\ mem' = [a \in Readable |-> IF a \in Span(address, length)
                                THEN register[a - address] ELSE mem[a]]
  /\ UNCHANGED <<register, origin, broken>>

Load(address, length) ==
  /\ Span(address, length) \subseteq Readable
  /\ register' = [k \in 0 .. 3 |-> IF k < length THEN mem[address + k] ELSE 0]
  /\ origin' = "memory"
  /\ UNCHANGED <<mem, broken>>

LoadHalfword == register' \in Word /\ origin' = "halfword" /\ UNCHANGED <<mem, broken>>

Compute == register' \in Word /\ origin' = "computed" /\ UNCHANGED <<mem, broken>>

Leave == /\ broken' = TRUE /\ origin' \in {"computed", "memory", "halfword"}
         /\ UNCHANGED <<mem, register>>

Next == /\ ~broken
        /\ \/ \E address \in Writable, length \in {1, 2, 4} : Store(address, length)
           \/ \E address \in Readable, length \in {1, 4} : Load(address, length)
           \/ LoadHalfword
           \/ Compute
           \/ Leave

Spec == Init /\ [][Next]_vars
=============================================================================
