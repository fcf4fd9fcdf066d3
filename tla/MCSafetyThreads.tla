-------------------------- MODULE MCSafetyThreads --------------------------
(* Model values for SafetyThreads. *)
EXTENDS SafetyThreads

MCVelocity == {0, 1}

AllLevels ==
  {"STARTUP", "OK", "DEGRADED", "RECONFIGURED", "PROTECTIVE_STOP", "EMERGENCY", "UNKNOWN"}

(* Every level where one callback runs at a time; a level under which the  *)
(* robot moves, for two overlapping callbacks.                             *)
MCLevel == [single |-> AllLevels, multi |-> {"DEGRADED"}]

(* One level that powers up, one that changes the state in spite of the    *)
(* latch, one that powers down, and the latch itself.                      *)
MixedLevels == [multi |-> {"OK", "DEGRADED", "STARTUP", "EMERGENCY"}]
=============================================================================
