---------------------------- MODULE FdirManager ----------------------------
(***************************************************************************)
(* FdirManagerNode with monitor_loop as one step: the timer callback runs  *)
(* to completion before the next one starts (FdirOverlap drops this).      *)
(* What the managed nodes answer is the environment's choice.              *)
(***************************************************************************)
EXTENDS FdirRecovery

NO_SAMPLE == 255    \* nothing published yet on the health topic

VARIABLES
  managed_nodes,    \* Node -> ManagedNode record
  relay,            \* Node -> last commanded relay position, TRUE = closed
  requested,        \* Node -> lifecycle transition requested by the last loop
  health,           \* last FdirState published, NO_SAMPLE before the first
  cutoff,           \* the last loop published contactors FALSE and zero twist
  pulse             \* flips with every heartbeat message

vars == <<managed_nodes, relay, requested, health, cutoff, pulse>>

TypeOK ==
  /\ \A n \in Node : managed_nodes[n] \in ManagedNode(n)
  /\ DOMAIN managed_nodes = Node
  /\ relay \in [Node -> BOOLEAN]
  /\ requested \in [Node -> Transition]
  /\ health \in FdirLevel \cup {NO_SAMPLE}
  /\ cutoff \in BOOLEAN
  /\ pulse \in BOOLEAN

Fresh ==
  /\ managed_nodes = [n \in Node |-> InitialNode]
  /\ requested = [n \in Node |-> "none"]
  /\ health = NO_SAMPLE
  /\ cutoff = FALSE
  /\ pulse = FALSE

Init == Fresh /\ relay = [n \in Node |-> TRUE]

-----------------------------------------------------------------------------
Published(level) == level

MonitorLoop(report) ==
  LET visited == [n \in Node |-> Visit(n, managed_nodes[n], report[n])]
      level   == GlobalState(visited)
  IN  /\ managed_nodes' = visited
      /\ relay' = [n \in Node |->
                     RelayAfter(n, managed_nodes[n], visited[n], relay[n])]
      /\ requested' = [n \in Node |-> Request(n, managed_nodes[n], report[n])]
      /\ health' = Published(level)
      /\ cutoff' = (level = STATE_EMERGENCY)
      /\ pulse' = ~pulse

Tick == \E report \in [Node -> Report] : MonitorLoop(report)

(* The clock advances between two loops. *)
Elapse ==
  /\ managed_nodes' = [n \in Node |-> Older(n, managed_nodes[n])]
  /\ UNCHANGED <<relay, requested, health, cutoff, pulse>>

(* The process dies and an operator launches it again: all memory is lost, *)
(* the relays stay where the dead process left them.                       *)
Restart ==
  /\ managed_nodes' = [n \in Node |-> InitialNode]
  /\ requested' = [n \in Node |-> "none"]
  /\ health' = NO_SAMPLE
  /\ cutoff' = FALSE
  /\ pulse' = FALSE
  /\ UNCHANGED relay

Next == Tick \/ Elapse \/ Restart

Spec == Init /\ [][Next]_vars

-----------------------------------------------------------------------------
(* Invariants *)

(* Three-strikes bookkeeping: a component is locked out exactly when its   *)
(* strikes are used up, and a power cycle is only ever in progress for a   *)
(* component that has at least one strike against it                       *)
(* (handle_recovery_fsm, the NOMINAL case and the ACTIVE branch).          *)
LockoutIffExhausted ==
  \A n \in Node :
    LET m == managed_nodes[n]
    IN  /\ m.is_defective <=> m.phase = "DEFECTIVE"
        /\ m.is_defective <=> m.retry_count > MAX_RECOVERY_RETRIES
        /\ m.phase \notin {"NOMINAL", "DEFECTIVE"} => m.retry_count > 0

(* The level on the wire agrees with the records: EMERGENCY (and with it   *)
(* the contactor cut and the zero velocity override) is published if and   *)
(* only if some component is locked out, in the same loop that locks it    *)
(* out; and no other alarm level is ever published.                        *)
EmergencyIffLockout ==
  health # NO_SAMPLE =>
    /\ health = STATE_EMERGENCY <=> \E n \in Node : managed_nodes[n].is_defective
    /\ health = STATE_EMERGENCY <=> cutoff
    /\ health \in {STATE_SYSTEM_STARTUP, STATE_SOFTWARE_OK, STATE_EMERGENCY}

(* SOFTWARE_OK, on which safety_node closes the contactors, means that in  *)
(* the loop that published it every component answered ACTIVE, has no      *)
(* strike and no recovery in progress.                                     *)
OkMeansAllActive ==
  health = STATE_SOFTWARE_OK =>
    \A n \in Node :
      /\ managed_nodes[n].current_state = "ACTIVE"
      /\ managed_nodes[n].phase = "NOMINAL"
      /\ managed_nodes[n].retry_count = 0
      /\ requested[n] = "none"

(* The relay follows the power cycle: open while the component discharges, *)
(* closed while it boots; and whatever ACTIVE answers or restarts of the   *)
(* manager interrupt earlier cycles, a component that has been through a   *)
(* whole cycle without an ACTIVE answer since, in particular a locked-out  *)
(* one, has its power back.                                                *)
RelayFollowsCycle ==
  \A n \in Node : ResetMechanism[n] = "HARDWARE_RELAY" =>
    LET m == managed_nodes[n]
    IN  /\ m.phase \in {"WAIT_DISCHARGE", "POWER_ON"} => ~relay[n]
        /\ m.phase = "WAIT_BOOT" => relay[n]
        /\ m.retry_count > 0 /\ m.phase = "NOMINAL" => relay[n]
        /\ m.retry_count > 1 /\ m.phase \in {"POWER_OFF", "DEFECTIVE"} => relay[n]

-----------------------------------------------------------------------------
(* Action properties *)

(* "Irreversible EMERGENCY": once published, every later level of the same *)
(* incarnation is EMERGENCY, whatever the components answer.               *)
EmergencyIrreversible ==
  [][health = STATE_EMERGENCY => health' = STATE_EMERGENCY \/ Restart]_vars

(* A strike is only ever forgiven by an ACTIVE answer (or a restart), and  *)
(* never forgiven to a locked-out component.                               *)
OnlyActiveForgives ==
  [][\A n \in Node :
       managed_nodes'[n].retry_count < managed_nodes[n].retry_count =>
         \/ Restart
         \/ /\ managed_nodes'[n].current_state = "ACTIVE"
            /\ ~managed_nodes[n].is_defective]_vars

Abstract == INSTANCE Supervisor
              WITH defective <- {n \in Node : managed_nodes[n].is_defective}

(* Towards the other nodes the manager is a supervisor: whatever happens   *)
(* inside its recovery, SOFTWARE_OK and EMERGENCY on the wire, the cutoff  *)
(* and the requests say what the answers of the same pass and the set of   *)
(* locked-out components say, and that set only grows (monitor_loop).      *)
ImplementsSupervisor == Abstract!Spec

-----------------------------------------------------------------------------
(* Liveness *)

(* A component that never answers again is eventually locked out and the   *)
(* drive power cut, unless the manager itself is restarted again and again *)
(* (NO_SAMPLE): no phase of the recovery can stall.                        *)
DeadNodeLockedOut ==
  \A n \in Node :
    (<>[](managed_nodes[n].current_state = "UNKNOWN"))
      => \/ <>[](managed_nodes[n].is_defective /\ cutoff)
         \/ []<>(health = NO_SAMPLE)

-----------------------------------------------------------------------------
(* What the documentation says and the code does not do *)

(* fdir_policy.yaml, tier AUXILIARY: "Failure generates warnings but       *)
(* allows mission continuation".                                           *)
AuxiliaryFailureTolerated ==
  (\A n \in Node : Tier[n] # "AUXILIARY" => ~managed_nodes[n].is_defective)
    => health # STATE_EMERGENCY

(* RecoveryPhase::NOMINAL, "Component operating normally": a component the *)
(* manager reports as part of a healthy system has its power.              *)
OkMeansPowered ==
  health = STATE_SOFTWARE_OK => \A n \in Node : relay[n]

=============================================================================
