----------------------------- MODULE MCTwistMux -----------------------------
(* Model values for TwistMux. *)
EXTENDS TwistMux

(* Both directions; one command is beyond the normal limit of 2. *)
MCVelocity == {-3, 0, 1}
=============================================================================
