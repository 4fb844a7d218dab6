---------------------------- MODULE RegisterLists ----------------------------
(***************************************************************************)
(* The loops of PUSH, POP, STM and LDM (executeMisc and executeMultiple of *)
(* src/cpu.cpp): a list of registers against consecutive words.            *)
(*                                                                         *)
(* Addresses count the Words words of a region of RAM.  A transfer outside *)
(* of it ends the model.                                                   *)
(***************************************************************************)
EXTENDS Integers, FiniteSets

CONSTANTS Registers,    \* the numbers of the registers a list may name
          Value, Words

ASSUME RegistersAssumption == Registers \subseteq 0 .. 7 /\ 7 \in Registers
ASSUME WordsAssumption == Words \in Nat

VARIABLES memory, regs,
          outside       \* a transfer left the region

Lists == SUBSET Registers

Size(set) == Cardinality(set)

(* Of the registers of a list the lowest goes to the lowest address. *)
Rank(i, list) == Size({j \in list : j < i})

(* write32 of one value for each register of a list, from an address on. *)
StoreAll(values, address) ==
  LET list  == DOMAIN values
      to(i) == address + Rank(i, list)
  IN  /\ outside' = \E i \in list : to(i) \notin DOMAIN memory
      /\ memory' = IF outside' THEN memory
                   ELSE [a \in DOMAIN memory |->
                           IF \E i \in list : to(i) = a
                           THEN values[CHOOSE i \in list : to(i) = a] ELSE memory[a]]

(* What read32 finds for the registers of a list, from an address on. *)
Loaded(list, address) ==
  [i \in DOMAIN regs |-> IF i \in list THEN memory[address + Rank(i, list)] ELSE regs[i]]

LoadLeaves(list, address) ==
  \E i \in list : address + Rank(i, list) \notin DOMAIN memory
=============================================================================
