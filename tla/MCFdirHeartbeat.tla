-------------------------- MODULE MCFdirHeartbeat --------------------------
(* Model values for FdirHeartbeat. *)
EXTENDS FdirHeartbeat

CONSTANTS lidar, mux

MCNode == {lidar, mux}
MCTier == [n \in MCNode |-> IF n = mux THEN "FATAL" ELSE "PRIMARY"]
MCResetMechanism == [n \in MCNode |-> IF n = mux THEN "LIFECYCLE_SERVICE" ELSE "HARDWARE_RELAY"]
MCStartupTime == [n \in MCNode |-> 1]
MCOrder == <<lidar, mux>>
=============================================================================
