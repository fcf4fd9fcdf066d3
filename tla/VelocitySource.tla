--------------------------- MODULE VelocitySource ---------------------------
(***************************************************************************)
(* What the multiplexer promises the nodes behind it: a stream of          *)
(* velocities within the limit in force which, while either of its two     *)
(* overseers blocks it, only ever gets slower. Where velocities come from  *)
(* is left open. TwistMux implements this; MonaSystem builds on it.        *)
(***************************************************************************)
EXTENDS Integers

CONSTANTS max_speed_normal, max_speed_degraded

VARIABLES
  on,               \* the velocities are published
  fdir_blocked,     \* the two overseers, as the source knows them
  estop_blocked,
  degraded,
  speed             \* the velocity published last

vars == <<on, fdir_blocked, estop_blocked, degraded, speed>>

Init ==
  /\ on = FALSE
  /\ fdir_blocked = FALSE /\ estop_blocked = FALSE /\ degraded = FALSE
  /\ speed = 0

Switch ==
  /\ on' \in BOOLEAN
  /\ UNCHANGED <<fdir_blocked, estop_blocked, degraded, speed>>

HealthReport(blocks, degrades) ==
  /\ fdir_blocked' = blocks
  /\ degraded' = degrades
  /\ UNCHANGED <<on, estop_blocked, speed>>

SafetyReport(blocks) ==
  /\ estop_blocked' = blocks
  /\ UNCHANGED <<on, fdir_blocked, degraded, speed>>

Blocked == fdir_blocked \/ estop_blocked

Limit == IF degraded THEN max_speed_degraded ELSE max_speed_normal

(* Towards zero, and not beyond it. *)
Slower(v) == (0 <= v /\ v <= speed) \/ (speed <= v /\ v <= 0)

Publish ==
  /\ on
  /\ -Limit <= speed' /\ speed' <= Limit
  /\ Blocked => Slower(speed')
  /\ UNCHANGED <<on, fdir_blocked, estop_blocked, degraded>>

Next ==
  \/ Switch
  \/ \E blocks, degrades \in BOOLEAN : HealthReport(blocks, degrades)
  \/ \E blocks \in BOOLEAN : SafetyReport(blocks)
  \/ Publish

Spec == Init /\ [][Next]_vars
=============================================================================
