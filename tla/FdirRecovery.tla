---------------------------- MODULE FdirRecovery ----------------------------
(***************************************************************************)
(* The per-component part of FdirManagerNode: the record the manager keeps *)
(* of a managed node (struct ManagedNode), the recovery state machine      *)
(* handle_recovery_fsm, the branch monitor_loop takes on a reported        *)
(* lifecycle state, and the aggregation of all nodes into one FdirState.   *)
(* Everything here is a pure operator; FdirManager, FdirTiming and         *)
(* FdirOverlap build their actions from these operators.                   *)
(***************************************************************************)
EXTENDS Integers

Ext == INSTANCE FiniteSetsExt

CONSTANTS
  Node,                  \* the components fdir_policy.yaml enables
  Tier,                  \* Node -> FATAL, PRIMARY or AUXILIARY
  ResetMechanism,        \* Node -> how the component is power cycled
  StartupTime,           \* Node -> startup_time, in clock units
  PowerOffTime,          \* recovery_power_off_time, one value for all nodes
  MAX_RECOVERY_RETRIES   \* 3 in the header

Tiers == {"FATAL", "PRIMARY", "AUXILIARY"}
ResetMechanisms == {"LIFECYCLE_SERVICE", "HARDWARE_RELAY"}

ASSUME TierAssumption == Tier \in [Node -> Tiers]
ASSUME MechanismAssumption == ResetMechanism \in [Node -> ResetMechanisms]
ASSUME TimeAssumption == StartupTime \in [Node -> Nat] /\ PowerOffTime \in Nat
ASSUME RetryAssumption == MAX_RECOVERY_RETRIES \in Nat \ {0}

(***************************************************************************)
(* Levels of FdirState.msg; the aggregation takes the largest.             *)
(***************************************************************************)
STATE_SYSTEM_STARTUP  == 0
STATE_SOFTWARE_OK     == 1
STATE_DEGRADED        == 2
STATE_RECONFIGURED    == 3
STATE_PROTECTIVE_STOP == 4
STATE_EMERGENCY       == 5

FdirLevel == 0..5

(***************************************************************************)
(* What get_node_state returns. UNKNOWN stands for every id the default    *)
(* branch of monitor_loop handles: no answer within SERVICE_TIMEOUT_MS, a  *)
(* service that is not there (the process died), FINALIZED, and the ids of *)
(* transitions in progress.                                                *)
(***************************************************************************)
Report == {"ACTIVE", "INACTIVE", "UNCONFIGURED", "UNKNOWN"}

RecoveryPhase ==
  {"NOMINAL", "POWER_OFF", "WAIT_DISCHARGE", "POWER_ON", "WAIT_BOOT", "DEFECTIVE"}

(***************************************************************************)
(* ManagedNode. elapsed is now - last_phase_change; it is read only to be  *)
(* compared with the two waits, so it stops counting at the longer one.    *)
(***************************************************************************)
LongestWait(n) == IF StartupTime[n] > PowerOffTime THEN StartupTime[n] ELSE PowerOffTime

ManagedNode(n) ==
  [retry_count   : 0..(MAX_RECOVERY_RETRIES + 1),
   phase         : RecoveryPhase,
   elapsed       : 0..LongestWait(n),
   is_defective  : BOOLEAN,
   current_state : Report]

InitialNode ==
  [retry_count |-> 0, phase |-> "NOMINAL", elapsed |-> 0,
   is_defective |-> FALSE, current_state |-> "UNCONFIGURED"]

(* One unit of the clock passes. *)
Older(n, m) ==
  [m EXCEPT !.elapsed = IF m.elapsed < LongestWait(n) THEN m.elapsed + 1 ELSE m.elapsed]

-----------------------------------------------------------------------------
(* handle_recovery_fsm *)

(* Seeded fault: one strike too many is granted. *)
StrikesExhaustedLate(k) == k > MAX_RECOVERY_RETRIES + 1

StrikesExhausted(k) == k > MAX_RECOVERY_RETRIES

LockOut(m) == [m EXCEPT !.is_defective = TRUE, !.phase = "DEFECTIVE"]

(* Seeded fault: the phase moves on but the flag is forgotten. *)
StrikeNoFlag(m) ==
  [m EXCEPT !.retry_count = m.retry_count + 1,
            !.phase = IF StrikesExhausted(m.retry_count + 1) THEN "DEFECTIVE" ELSE "POWER_OFF"]

(* A failure seen in NOMINAL is a strike: either a power cycle starts or   *)
(* the component is locked out.                                            *)
Strike(m) ==
  LET k == m.retry_count + 1
      s == [m EXCEPT !.retry_count = k]
  IN  IF StrikesExhausted(k) THEN LockOut(s) ELSE [s EXCEPT !.phase = "POWER_OFF"]

(* Seeded fault: the end of a power cycle forgives the strikes. *)
EnterTimedForgiving(m, phase) ==
  [m EXCEPT !.phase = phase, !.elapsed = 0, !.retry_count = IF phase = "NOMINAL" THEN 0 ELSE @]

(* The phase changes that also restart the clock of the phase. *)
EnterTimed(m, phase) == [m EXCEPT !.phase = phase, !.elapsed = 0]

(* Seeded fault: the discharge time is not waited for. *)
DischargeOverAtOnce(m) == TRUE

DischargeOver(m) == m.elapsed >= PowerOffTime

(* Seeded fault: the component gets no time to boot. *)
BootOverAtOnce(n, m) == TRUE

BootOver(n, m) == m.elapsed >= StartupTime[n]

HandleRecoveryFsm(n, m) ==
  CASE m.phase = "NOMINAL"        -> Strike(m)
    [] m.phase = "POWER_OFF"      -> EnterTimed(m, "WAIT_DISCHARGE")
    [] m.phase = "WAIT_DISCHARGE" ->
         IF DischargeOver(m) THEN [m EXCEPT !.phase = "POWER_ON"] ELSE m
    [] m.phase = "POWER_ON"       -> EnterTimed(m, "WAIT_BOOT")
    [] m.phase = "WAIT_BOOT"      ->
         IF BootOver(n, m) THEN EnterTimed(m, "NOMINAL") ELSE m
    [] m.phase = "DEFECTIVE"      -> m

-----------------------------------------------------------------------------
(* The body of monitor_loop for one node *)

Stabilized(m) == [m EXCEPT !.retry_count = 0, !.phase = "NOMINAL"]

Evaluate(n, m, state) ==
  LET q == [m EXCEPT !.current_state = state]
  IN  CASE state = "ACTIVE"                      -> Stabilized(q)
        [] state \in {"INACTIVE", "UNCONFIGURED"} -> q
        [] state = "UNKNOWN"                     -> HandleRecoveryFsm(n, q)

(* A defective node is skipped: neither queried nor changed. *)
Visit(n, m, state) == IF m.is_defective THEN m ELSE Evaluate(n, m, state)

(* change_node_state as the loop calls it: at most one request per node. *)
Transition == {"none", "configure", "activate", "cleanup"}

Request(n, m, state) ==
  CASE m.is_defective           -> "none"
    [] ~m.is_defective /\ state = "UNCONFIGURED" -> "configure"
    [] ~m.is_defective /\ state = "INACTIVE"     -> "activate"
    [] OTHER -> IF /\ state = "UNKNOWN"
                   /\ m.phase = "POWER_OFF"
                   /\ ResetMechanism[n] = "LIFECYCLE_SERVICE"
                THEN "cleanup" ELSE "none"

(* Seeded fault: power is not restored at the end of a cycle. *)
RelayNeverClosed(n, before, after, closed) ==
  IF ResetMechanism[n] = "HARDWARE_RELAY" /\ after.phase = "WAIT_DISCHARGE"
  THEN FALSE ELSE closed

(* The relay command after the visit that took the record from before to   *)
(* after: opened on leaving POWER_OFF, closed on entering WAIT_BOOT.       *)
RelayAfter(n, before, after, closed) ==
  IF ResetMechanism[n] # "HARDWARE_RELAY" THEN closed
  ELSE IF before.phase = "POWER_OFF" /\ after.phase = "WAIT_DISCHARGE" THEN FALSE
  ELSE IF before.phase = "POWER_ON" /\ after.phase = "WAIT_BOOT" THEN TRUE
  ELSE closed

-----------------------------------------------------------------------------
(* Aggregation *)

TierLevel(tier) ==
  CASE tier = "FATAL"     -> STATE_EMERGENCY
    [] tier = "PRIMARY"   -> STATE_PROTECTIVE_STOP
    [] tier = "AUXILIARY" -> STATE_DEGRADED

(* What a visited record adds to the maximum. The tier is consulted only   *)
(* for a node past its last strike that is not defective.                  *)
Contribution(n, m) ==
  IF m.is_defective THEN STATE_EMERGENCY
  ELSE IF m.current_state = "UNKNOWN" /\ m.retry_count > MAX_RECOVERY_RETRIES
  THEN TierLevel(Tier[n])
  ELSE STATE_SYSTEM_STARTUP

(* Seeded fault: a defective node is skipped before all_active is cleared. *)
AllActiveIgnoringDefective(nodes) ==
  \A n \in Node : nodes[n].is_defective \/ nodes[n].current_state = "ACTIVE"

(* all_active after every node has been visited. *)
AllActive(nodes) ==
  \A n \in Node : ~nodes[n].is_defective /\ nodes[n].current_state = "ACTIVE"

Levels(nodes) == {STATE_SYSTEM_STARTUP} \cup {Contribution(n, nodes[n]) : n \in Node}

GlobalState(nodes) ==
  IF AllActive(nodes) THEN STATE_SOFTWARE_OK ELSE Ext!Max(Levels(nodes))
=============================================================================
