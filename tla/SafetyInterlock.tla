-------------------------- MODULE SafetyInterlock --------------------------
(***************************************************************************)
(* What the safety node promises of its three outputs, without saying how: *)
(* a latch that only a reset releases, and that keeps the drive without    *)
(* power and without a velocity command for as long as it is set.          *)
(***************************************************************************)
VARIABLES
  latched,     \* the emergency latch
  powered,     \* the contactors are closed
  commanded    \* the last velocity command is not zero

vars == <<latched, powered, commanded>>

Init == ~latched /\ ~powered /\ ~commanded

Trip ==
  /\ latched' = TRUE
  /\ powered' = FALSE
  /\ commanded' = FALSE

Release ==
  /\ latched
  /\ latched' = FALSE
  /\ powered' \in BOOLEAN
  /\ UNCHANGED commanded

PowerUp ==
  /\ ~latched
  /\ powered' = TRUE
  /\ commanded' \in {commanded, FALSE}
  /\ UNCHANGED latched

PowerDown ==
  /\ powered' = FALSE
  /\ commanded' \in {commanded, FALSE}
  /\ UNCHANGED latched

Command ==
  /\ ~latched
  /\ commanded' \in BOOLEAN
  /\ UNCHANGED <<latched, powered>>

Next == Trip \/ Release \/ PowerUp \/ PowerDown \/ Command

Spec == Init /\ [][Next]_vars
=============================================================================
