---------------------------- MODULE PeriodicTimer ----------------------------
(***************************************************************************)
(* What a SysTick promises, without saying how it counts: a timer that is  *)
(* running measures periods.  A period is closed by the tick that finds    *)
(* its whole length elapsed; that tick opens the next period, whose length *)
(* is the reload value of that moment, and raises the request when         *)
(* requests are wanted.  Reprogramming the reload value never changes the  *)
(* period under way, and a request, once raised, stays until it is taken.  *)
(***************************************************************************)
EXTENDS Naturals

VARIABLES running,     \* the timer counts
          wanted,      \* the end of a period raises a request
          reload,      \* length of the periods to come
          length,      \* length of the period under way
          elapsed,     \* ticks of it that have passed
          requested    \* a request waits to be taken

vars == <<running, wanted, reload, length, elapsed, requested>>

Init ==
  /\ ~running /\ ~wanted /\ ~requested
  /\ reload = 0 /\ length = 0 /\ elapsed = 0

(* A tick inside the period. *)
Advance ==
  /\ running
  /\ elapsed < length
  /\ elapsed' = elapsed + 1
  /\ UNCHANGED <<running, wanted, reload, length, requested>>

(* The tick that ends the period. *)
Expire ==
  /\ running
  /\ elapsed = length
  /\ length' = reload
  /\ elapsed' = 0
  /\ requested' = (requested \/ wanted)
  /\ UNCHANGED <<running, wanted, reload>>

Configure ==
  /\ running' \in BOOLEAN
  /\ wanted' \in BOOLEAN
  /\ UNCHANGED <<reload, length, elapsed, requested>>

Program ==
  /\ reload' \in Nat
  /\ UNCHANGED <<running, wanted, length, elapsed, requested>>

(* The period under way is given up: the next tick ends it. *)
Restart ==
  /\ elapsed' = length
  /\ UNCHANGED <<running, wanted, reload, length, requested>>

Take ==
  /\ requested
  /\ requested' = FALSE
  /\ UNCHANGED <<running, wanted, reload, length, elapsed>>

Next == Advance \/ Expire \/ Configure \/ Program \/ Restart \/ Take

Spec == Init /\ [][Next]_vars
=============================================================================
