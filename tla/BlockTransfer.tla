---------------------------- MODULE BlockTransfer ----------------------------
(***************************************************************************)
(* STM and LDM: executeMultiple of src/cpu.cpp, in any order, with other   *)
(* instructions between them.  The values of registers are also addresses. *)
(***************************************************************************)
EXTENDS RegisterLists

ASSUME ValueAssumption == Value \subseteq Nat /\ 0 .. Words \subseteq Value

VARIABLE block    \* what the last STM was asked to store: its base, the address
                  \* there and the registers of the list
blockVars == <<memory, regs, outside, block>>

(* "position" is the lowest register that is not in the list, so it never  *)
(* equals a base in the list: that base is always stored as zero.          *)
Stored(n, list) ==
  LET position == CHOOSE p \in 0 .. 8 : p \notin list /\ \A q \in 0 .. p - 1 : q \in list
  IN  [i \in list |-> IF i = n /\ i # position THEN 0 ELSE regs[i]]

(* Seeded fault: the base moves on by bytes. *)
STM_WritesBackBytes(n, list) ==
  /\ list # {}
  /\ StoreAll(Stored(n, list), regs[n])
  /\ regs' = IF outside' THEN regs ELSE [regs EXCEPT ![n] = @ + 4 * Size(list)]
  /\ block' = [base |-> n, at |-> regs[n], values |-> [i \in list |-> regs[i]]]

STM(n, list) ==
  /\ list # {}
  /\ StoreAll(Stored(n, list), regs[n])
  /\ regs' = IF outside' THEN regs ELSE [regs EXCEPT ![n] = @ + Size(list)]
  /\ block' = [base |-> n, at |-> regs[n], values |-> [i \in list |-> regs[i]]]

(* Seeded fault: the base is written back although it was just loaded. *)
LDM_WritesBack(n, list) ==
  /\ list # {}
  /\ outside' = LoadLeaves(list, regs[n])
  /\ regs' = IF outside' THEN regs
             ELSE [Loaded(list, regs[n]) EXCEPT ![n] = regs[n] + Size(list)]
  /\ UNCHANGED <<memory, block>>

(* A base that is in the list keeps what was loaded into it. *)
LDM(n, list) ==
  /\ list # {}
  /\ outside' = LoadLeaves(list, regs[n])
  /\ regs' = IF outside' THEN regs
             ELSE IF n \in list THEN Loaded(list, regs[n])
             ELSE [Loaded(list, regs[n]) EXCEPT ![n] = @ + Size(list)]
  /\ UNCHANGED <<memory, block>>

(* Without a list nothing is done. *)
executeMultiple(n, list) == STM(n, list) \/ LDM(n, list)

(* Any other instruction; the values it may give a register are bounded. *)
OtherInstruction ==
  /\ \E i \in Registers, v \in 0 .. Words : regs' = [regs EXCEPT ![i] = v]
  /\ UNCHANGED <<memory, outside, block>>

BlockInit ==
  /\ memory = [a \in 0 .. Words - 1 |-> 0]
  /\ regs = [i \in Registers |-> 0]
  /\ outside = FALSE
  /\ block = [base |-> 7, at |-> 0, values |-> [i \in {} |-> 0]]

BlockNext ==
  /\ ~outside
  /\ \/ \E n \in Registers, list \in Lists : executeMultiple(n, list)
     \/ OtherInstruction

BlockSpec == BlockInit /\ [][BlockNext]_blockVars

-----------------------------------------------------------------------------
BlockTypeOK ==
  /\ memory \in [0 .. Words - 1 -> Value]
  /\ regs \in [Registers -> Value]
  /\ outside \in BOOLEAN

(* However the block of an STM is reached again, an LDM of its registers   *)
(* brings back what they held, all but the base, and then points past the  *)
(* block just as the STM did.                                              *)
BlocksReturn ==
  [][\A n \in Registers :
       LET list == DOMAIN block.values IN
       (LDM(n, list) /\ regs[n] = block.at /\ ~outside /\ ~outside') =>
         /\ \A i \in list \ {block.base} : regs'[i] = block.values[i]
         /\ n \notin list => regs'[n] = block.at + Size(list)]_blockVars
=============================================================================
