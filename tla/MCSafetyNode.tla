---------------------------- MODULE MCSafetyNode ----------------------------
(* Velocities beyond the limits on both sides, between the two limits,     *)
(* within both, and zero.                                                  *)
EXTENDS SafetyNode

MCVelocity == {-3, 0, 1, 2}
=============================================================================
