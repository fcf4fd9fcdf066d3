----------------------------- MODULE Supervisor -----------------------------
(***************************************************************************)
(* What the FDIR manager promises the nodes that listen to it: a verdict   *)
(* per pass, made of the answers of that pass and of a set of components   *)
(* that are given up for good. Strikes, phases, times and relays, which    *)
(* decide when a component is given up, are left open: any that has just   *)
(* failed to answer may be. FdirManager implements this; MonaSystem builds *)
(* on it.                                                                  *)
(***************************************************************************)
CONSTANT Node

STATE_SYSTEM_STARTUP == 0
STATE_SOFTWARE_OK    == 1
STATE_EMERGENCY      == 5
NO_SAMPLE            == 255

VARIABLES
  defective,    \* the components given up
  health,       \* the verdict published last, NO_SAMPLE before the first
  requested,    \* Node -> transition requested by the last pass
  cutoff        \* the last pass cut the drive power itself

vars == <<defective, health, requested, cutoff>>

Init ==
  /\ defective = {}
  /\ health = NO_SAMPLE
  /\ requested = [n \in Node |-> "none"]
  /\ cutoff = FALSE

Verdict(report, lost) ==
  IF \A n \in Node : n \notin defective /\ report[n] = "ACTIVE" THEN STATE_SOFTWARE_OK
  ELSE IF defective \cup lost # {} THEN STATE_EMERGENCY
  ELSE STATE_SYSTEM_STARTUP

(* A component that does not answer may be asked to clean up. *)
Requests(n, answer) ==
  CASE n \in defective \/ answer = "ACTIVE" -> {"none"}
    [] n \notin defective /\ answer = "UNCONFIGURED" -> {"configure"}
    [] n \notin defective /\ answer = "INACTIVE" -> {"activate"}
    [] n \notin defective /\ answer = "UNKNOWN" -> {"none", "cleanup"}

Pass(report, lost) ==
  /\ \A n \in lost : n \notin defective /\ report[n] = "UNKNOWN"
  /\ defective' = defective \cup lost
  /\ health' = Verdict(report, lost)
  /\ \A n \in Node : requested'[n] \in Requests(n, report[n])
  /\ DOMAIN requested' = Node
  /\ cutoff' = (health' = STATE_EMERGENCY)

Restart ==
  /\ defective' = {}
  /\ health' = NO_SAMPLE
  /\ requested' = [n \in Node |-> "none"]
  /\ cutoff' = FALSE

Answer == {"ACTIVE", "INACTIVE", "UNCONFIGURED", "UNKNOWN"}

Next ==
  \/ \E report \in [Node -> Answer], lost \in SUBSET Node : Pass(report, lost)
  \/ Restart

Spec == Init /\ [][Next]_vars
=============================================================================
