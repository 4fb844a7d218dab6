-------------------------------- MODULE NVIC --------------------------------
(***************************************************************************)
(* The interrupt controller sketched in include/nvic.hpp (struct NVIC and  *)
(* the class CPU around it).  The processor loop does not use it yet; what *)
(* a device, the firmware and the processor may call is called here in any *)
(* order.  Each array of booleans is the set of indices that are true.     *)
(***************************************************************************)
EXTENDS Naturals

CONSTANT IRQs     \* 0 .. NUM_IRQS - 1

ASSUME IRQsAssumption == IRQs \subseteq Nat

VARIABLES line, prevLine, pending, enabled, active,
          requests,  \* history: set-pending writes neither cleared nor taken
          clock      \* history: flips whenever updateNVIC is called

nvicVars == <<line, prevLine, pending, enabled, active, requests, clock>>

NVICInit ==
  /\ line = {} /\ prevLine = {} /\ pending = {} /\ enabled = {} /\ active = {}
  /\ requests = {} /\ clock = FALSE

assertIRQ(irq) ==
  /\ line' = line \cup {irq}
  /\ UNCHANGED <<prevLine, pending, enabled, active, requests, clock>>

deassertIRQ(irq) ==
  /\ line' = line \ {irq}
  /\ UNCHANGED <<prevLine, pending, enabled, active, requests, clock>>

setPending(irq) ==
  /\ pending' = pending \cup {irq}
  /\ requests' = requests \cup {irq}
  /\ UNCHANGED <<line, prevLine, enabled, active, clock>>

clearPending(irq) ==
  /\ pending' = pending \ {irq}
  /\ requests' = requests \ {irq}
  /\ UNCHANGED <<line, prevLine, enabled, active, clock>>

(* No method writes the array "enabled"; its user has to. *)
writeEnabled(irq) ==
  /\ enabled' \in {enabled \cup {irq}, enabled \ {irq}}
  /\ UNCHANGED <<line, prevLine, pending, active, requests, clock>>

-----------------------------------------------------------------------------
edge(irq) == irq \notin prevLine /\ irq \in line

(* Seeded fault: only an edge makes an interrupt pending. *)
setPend_EdgeOnly(irq) == edge(irq)

setPend(irq) == edge(irq) \/ irq \in line

(* Seeded fault: only a falling edge clears. *)
clearPend_OnFall(irq) == irq \in prevLine /\ irq \notin line

clearPend(irq) == irq \notin line

(* Seeded fault: nothing is ever cleared. *)
updateNVIC_NeverClears ==
  /\ pending' = pending \cup line
  /\ prevLine' = line
  /\ clock' = ~clock
  /\ UNCHANGED <<line, enabled, active, requests>>

(* updateNVIC handles the interrupts one by one and independently. *)
updateNVIC ==
  /\ pending' = {irq \in IRQs :
                   \/ clearPend(irq) /\ setPend(irq)
                   \/ setPend(irq)
                   \/ irq \in pending /\ ~clearPend(irq)}
  /\ prevLine' = line
  /\ clock' = ~clock
  /\ UNCHANGED <<line, enabled, active, requests>>

Eligible == (pending \cap enabled) \ active

(* Seeded fault: the exception number is marked, not the interrupt's. *)
checkInterrupts_Shifted ==
  /\ \E irq \in Eligible :
       /\ \A other \in Eligible : irq <= other
       /\ pending' = pending \ {irq}
       /\ active' = active \cup {irq + 16}
       /\ requests' = requests \ {irq}
  /\ UNCHANGED <<line, prevLine, enabled, clock>>

(* The first interrupt the loop finds is taken; ExceptionTaken.            *)
checkInterrupts ==
  /\ \E irq \in Eligible :
       /\ \A other \in Eligible : irq <= other
       /\ pending' = pending \ {irq}
       /\ active' = active \cup {irq}
       /\ requests' = requests \ {irq}
  /\ UNCHANGED <<line, prevLine, enabled, clock>>

ExceptionReturn(irq) ==
  /\ irq \in active
  /\ active' = active \ {irq}
  /\ UNCHANGED <<line, prevLine, pending, enabled, requests, clock>>

NVICNext ==
  \/ \E irq \in IRQs :
       \/ assertIRQ(irq) \/ deassertIRQ(irq)
       \/ setPending(irq) \/ clearPending(irq) \/ writeEnabled(irq)
       \/ ExceptionReturn(irq)
  \/ updateNVIC
  \/ checkInterrupts

NVICSpec == NVICInit /\ [][NVICNext]_nvicVars

(* A processor that uses the controller samples and checks in every        *)
(* iteration of its loop, and its handlers return.                         *)
NVICFairSpec ==
  /\ NVICSpec
  /\ WF_nvicVars(updateNVIC)
  /\ WF_nvicVars(checkInterrupts)
  /\ \A irq \in IRQs : WF_nvicVars(ExceptionReturn(irq))

-----------------------------------------------------------------------------
NVICTypeOK ==
  /\ line \subseteq IRQs /\ prevLine \subseteq IRQs /\ pending \subseteq IRQs
  /\ enabled \subseteq IRQs /\ active \subseteq IRQs
  /\ requests \subseteq IRQs /\ clock \in BOOLEAN

(* No interrupt is pending, and so none is ever taken, whose line was low  *)
(* when updateNVIC last sampled it and that no software request asks for,  *)
(* although the line may have gone up and down since.                      *)
NoSpuriousInterrupt == pending \subseteq prevLine \cup requests

(* For all its edge detection, the controller is level-sensitive: edge,    *)
(* prevLine and the branch for a contradictory update decide nothing.      *)
Level == INSTANCE LevelInterrupts

ImplementsLevelInterrupts == Level!Spec

(* An enabled interrupt whose line stays high is served again and again,   *)
(* as long as no interrupt with a lower number can be taken in its place   *)
(* and the software does not clear its pending bit (level re-pending in    *)
(* updateNVIC, lowest number first in checkInterrupts).                    *)
HeldLineIsServed ==
  \A irq \in IRQs :
    /\ <>[](/\ irq \in line \cap enabled
            /\ \A lower \in IRQs : lower < irq => lower \notin enabled)
    /\ <>[][~clearPending(irq)]_nvicVars
    => []<>(irq \in active)

-----------------------------------------------------------------------------
(* "Software set-pending (ISPR write)": a request made by software stays   *)
(* pending until it is taken or cleared.                                   *)
SoftwareRequestStays == requests \subseteq pending
=============================================================================
