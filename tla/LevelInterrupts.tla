--------------------------- MODULE LevelInterrupts ---------------------------
(***************************************************************************)
(* A level-sensitive interrupt controller: sampling the lines makes        *)
(* pending exactly the interrupts whose line is high at that moment, and   *)
(* nothing it saw earlier matters.  "clock" flips with every sampling, so  *)
(* that sampling and a write of one bit by software are different steps.   *)
(***************************************************************************)
EXTENDS Naturals

CONSTANT IRQs

VARIABLES line, pending, enabled, active, clock

vars == <<line, pending, enabled, active, clock>>

Init ==
  /\ line = {} /\ pending = {} /\ enabled = {} /\ active = {}
  /\ clock = FALSE

Flip(set, irq) == {set \cup {irq}, set \ {irq}}

Move(irq) ==
  /\ line' \in Flip(line, irq)
  /\ UNCHANGED <<pending, enabled, active, clock>>

WritePending(irq) ==
  /\ pending' \in Flip(pending, irq)
  /\ UNCHANGED <<line, enabled, active, clock>>

WriteEnabled(irq) ==
  /\ enabled' \in Flip(enabled, irq)
  /\ UNCHANGED <<line, pending, active, clock>>

Sample ==
  /\ pending' = line
  /\ clock' = ~clock
  /\ UNCHANGED <<line, enabled, active>>

(* Of the interrupts that can be taken, the lowest-numbered one is. *)
Accept ==
  /\ \E irq \in (pending \cap enabled) \ active :
       /\ \A other \in (pending \cap enabled) \ active : irq <= other
       /\ pending' = pending \ {irq}
       /\ active' = active \cup {irq}
  /\ UNCHANGED <<line, enabled, clock>>

Return(irq) ==
  /\ active' = active \ {irq}
  /\ UNCHANGED <<line, pending, enabled, clock>>

Next ==
  \/ \E irq \in IRQs :
       \/ Move(irq) \/ WritePending(irq) \/ WriteEnabled(irq) \/ Return(irq)
  \/ Sample
  \/ Accept

Spec == Init /\ [][Next]_vars
=============================================================================
