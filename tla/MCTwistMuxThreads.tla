------------------------- MODULE MCTwistMuxThreads -------------------------
(* The instance is in the configurations: thread names are model values.   *)
EXTENDS TwistMuxThreads
=============================================================================
