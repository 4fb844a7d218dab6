----------------------------- MODULE StackFrames -----------------------------
(***************************************************************************)
(* PUSH, POP, ADD SP and SUB SP of executeMisc (src/cpu.cpp) under a       *)
(* program that calls and returns: every POP names the registers and the   *)
(* bit M of the PUSH it undoes, locals are given back as they were taken.  *)
(***************************************************************************)
EXTENDS RegisterLists, Sequences

CONSTANT Locals         \* the values of imm7

ASSUME LocalsAssumption == Locals \subseteq Nat \ {0} /\ Value # {}

VARIABLES sp,           \* regs[13]
          frames        \* what the program has not yet given back, newest last

vars == <<memory, regs, outside, sp, frames>>

-----------------------------------------------------------------------------
Saved(list) == [i \in list |-> regs[i]]

(* Seeded fault: the word for the link register is left out of the address *)
(* at which the others are stored.                                         *)
PUSH_AboveTheGap(list, M) ==
  LET registers == list \cup (IF M THEN {13} ELSE {})
  IN  /\ StoreAll(Saved(list), sp - Size(list))
      /\ sp' = sp - Size(registers)
      /\ UNCHANGED regs

(* Room is made for the link register when M is set, but only the          *)
(* registers of the list are stored.                                       *)
PUSH(list, M) ==
  LET registers == list \cup (IF M THEN {13} ELSE {})
  IN  /\ StoreAll(Saved(list), sp - Size(registers))
      /\ sp' = sp - Size(registers)
      /\ UNCHANGED regs

(* Seeded fault: SP always moves past a word for the PC. *)
POP_PastThePC(list, M) ==
  LET registers == {i + 7 : i \in list}
  IN  IF registers = {} THEN UNCHANGED <<regs, sp, memory, outside>>
      ELSE /\ outside' = LoadLeaves(registers \cap 0 .. 7, sp)
           /\ regs' = IF outside' THEN regs ELSE Loaded(registers \cap 0 .. 7, sp)
           /\ sp' = sp + Size(registers) + 1
           /\ UNCHANGED memory

(* The list is shifted by seven and its first eight bits are looked at: r7 *)
(* is loaded when r0 is named.  Bit 15 is never set, M plays no part, and  *)
(* without a list the instruction does nothing.                            *)
POP(list, M) ==
  LET registers == {i + 7 : i \in list}
  IN  IF registers = {} THEN UNCHANGED <<regs, sp, memory, outside>>
      ELSE /\ outside' = LoadLeaves(registers \cap 0 .. 7, sp)
           /\ regs' = IF outside' THEN regs ELSE Loaded(registers \cap 0 .. 7, sp)
           /\ sp' = sp + Size(registers)
           /\ UNCHANGED memory

ADDSUB(words) == sp' = sp + words /\ UNCHANGED <<memory, regs, outside>>

-----------------------------------------------------------------------------
(* The program.  A frame records the SP before, the lowest address taken   *)
(* and the registers saved.                                                *)
Open(list, M) ==
  /\ sp >= 0                    \* bound; a later transfer would be outside
  /\ list # {} \/ M
  /\ PUSH(list, M)
  /\ frames' = Append(frames, [list |-> list, M |-> M, locals |-> 0, before |-> sp,
                               at |-> sp', saved |-> Saved(list)])

OpenLocals(words) ==
  /\ sp >= 0                    \* the same bound
  /\ ADDSUB(-words)
  /\ frames' = Append(frames, [list |-> {}, M |-> FALSE, locals |-> words, before |-> sp,
                               at |-> sp', saved |-> Saved({})])

Newest == frames[Len(frames)]

Close ==
  /\ frames # <<>> /\ frames' = SubSeq(frames, 1, Len(frames) - 1)
  /\ LET f == Newest
     IN  IF f.locals > 0 THEN ADDSUB(f.locals) ELSE POP(f.list, f.M)

(* A store into the locals, by an STR relative to SP. *)
StoreLocal ==
  /\ frames # <<>>
  /\ \E a \in sp .. sp + Newest.locals - 1, v \in Value :
       IF a \in DOMAIN memory
       THEN memory' = [memory EXCEPT ![a] = v] /\ UNCHANGED outside
       ELSE outside' = TRUE /\ UNCHANGED memory
  /\ UNCHANGED <<regs, sp, frames>>

Compute == /\ \E i \in Registers, v \in Value : regs' = [regs EXCEPT ![i] = v]
           /\ UNCHANGED <<memory, sp, frames, outside>>

Init == /\ memory \in [0 .. Words - 1 -> Value]
        /\ regs \in [Registers -> Value]
        /\ sp = Words /\ frames = <<>> /\ outside = FALSE

Next == /\ ~outside
        /\ \/ \E list \in Lists, M \in BOOLEAN : Open(list, M)
           \/ \E words \in Locals : OpenLocals(words)
           \/ Close
           \/ StoreLocal
           \/ Compute

Spec == Init /\ [][Next]_vars

-----------------------------------------------------------------------------
TypeOK ==
  /\ memory \in [0 .. Words - 1 -> Value]
  /\ regs \in [Registers -> Value]
  /\ sp \in Int /\ sp <= Words
  /\ \A k \in DOMAIN frames : frames[k].saved \in [frames[k].list -> Value]
  /\ outside \in BOOLEAN

(* Whatever is called, allocated or stored to later, the registers a PUSH  *)
(* saved stay where it put them until they are popped.  PUSH must store    *)
(* strictly below the older frames and POP must not move SP above them,    *)
(* although the two disagree about the size of a frame.                    *)
FramesIntact ==
  ~outside =>
    \A k \in DOMAIN frames : \A i \in frames[k].list :
      memory[frames[k].at + Rank(i, frames[k].list)] = frames[k].saved[i]

-----------------------------------------------------------------------------
(* What the source says of itself and the code does not do.                *)

(* executeMisc "LR (push) / PC (pop)": the bit M means a register on both  *)
(* sides, so a program that has returned from all its calls has its memory  *)
(* back.                                                                   *)
StackIsBalanced == (frames = <<>> /\ ~outside) => sp = Words

(* README "Cortex-M0 Thumb instruction execution": POP restores what the   *)
(* PUSH it undoes has saved.                                               *)
PopRestores ==
  [][(Close /\ ~outside') =>
       \A i \in Newest.list : regs'[i] = Newest.saved[i]]_vars
=============================================================================
