---------------------------- MODULE MCMonaSystem ----------------------------
(* Model values for MonaSystem. *)
EXTENDS MonaSystem

MCVelocity == {0, 1}
=============================================================================
