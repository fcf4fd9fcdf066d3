------------------------------ MODULE MonaSystem ------------------------------
(***************************************************************************)
(* The FDIR manager, the safety node and the multiplexer over the topics   *)
(* and services that connect them, with the contactors and the motor       *)
(* driver both FDIR and the safety node write to.                          *)
(*                                                                         *)
(* The safety node is SafetyNode, every callback; manager and multiplexer  *)
(* are their abstractions Supervisor and VelocitySource, which FdirManager *)
(* and TwistMux implement. Processes die and are launched again, and       *)
(* answers to get_state come too late. A message reaches its subscriber    *)
(* after any delay, in the order of its topic; of the health topic the     *)
(* safety node keeps QueueDepth messages, of the others the last one.      *)
(***************************************************************************)
EXTENDS Integers, Sequences, FiniteSets

CONSTANTS
  safety, mux,      \* the managed nodes composed here
  Others,           \* further managed nodes, of which only the lifecycle counts
  Velocity,         \* velocities of the multiplexer
  max_speed_normal, max_speed_degraded,
  QueueDepth        \* of the safety node for system/health_state, 10 in the code

ASSUME NodeAssumption == safety # mux /\ safety \notin Others /\ mux \notin Others
ASSUME VelocityAssumption == Velocity \subseteq Int /\ 0 \in Velocity
ASSUME DepthAssumption == QueueDepth \in Nat \ {0}

Node == {safety, mux} \cup Others

VARIABLES
  \* the manager; request is what a node has been asked and has not done yet
  defective, health, request,
  \* the safety node and its outputs
  lifecycle, endpoints, publishing, is_processing_allowed, e_stop_active,
  current_state, last_fdir_state, hardware_contactors_closed,
  contactors, motor, safety_state,
  \* the multiplexer and the other nodes
  stage, on, fdir_blocked, estop_blocked, degraded, speed,
  \* messages under way
  health_queue, mux_health, unheard,
  \* the world
  up                \* the nodes whose process is alive

manager == <<defective, health, request>>
hardware == <<contactors, motor>>
safety_memory == <<lifecycle, endpoints, publishing, is_processing_allowed, e_stop_active,
                   current_state, last_fdir_state, hardware_contactors_closed>>
safety_node == <<safety_memory, hardware, safety_state>>
mux_node == <<on, fdir_blocked, estop_blocked, degraded, speed>>
wire == <<health_queue, mux_health, unheard>>
vars == <<manager, safety_node, stage, mux_node, wire, up>>

Manager == INSTANCE Supervisor
             WITH requested <- request, cutoff <- (health = 5)
Safety == INSTANCE SafetyNode
Mux == INSTANCE VelocitySource

STARTUP   == Manager!STATE_SYSTEM_STARTUP
OK        == Manager!STATE_SOFTWARE_OK
EMERGENCY == Manager!STATE_EMERGENCY
NO_SAMPLE == Manager!NO_SAMPLE

(* The last message of a topic that its subscriber has not handled yet. *)
Topic == {"cmd_vel_smoothed", "safety_state"}

Init ==
  /\ Manager!Init
  /\ Safety!Init
  /\ Mux!Init
  /\ stage = [n \in Node \ {safety} |-> "UNCONFIGURED"]
  /\ health_queue = <<>> /\ mux_health = NO_SAMPLE /\ unheard = {}
  /\ up = Node

-----------------------------------------------------------------------------
(* The manager *)

LifecycleOf(n) == IF n = safety THEN lifecycle ELSE stage[n]

(* get_node_state: a dead process does not answer, and one that is alive   *)
(* may miss the 50 ms.                                                     *)
Answers(missed) ==
  [n \in Node |-> IF n \in up \ missed THEN LifecycleOf(n) ELSE "UNKNOWN"]

(* Seeded fault: a full queue refuses the new message.                     *)
KeepFirst(depth, queue) == IF Len(queue) > depth THEN SubSeq(queue, 1, depth) ELSE queue

KeepLast(depth, queue) == IF Len(queue) > depth THEN Tail(queue) ELSE queue

(* Seeded fault: the manager only reports, it does not cut power itself.   *)
OverrideNever == UNCHANGED hardware

(* The redundant path: in EMERGENCY every pass writes to the hardware.     *)
Override ==
  IF health' = EMERGENCY THEN contactors' = FALSE /\ motor' = 0 ELSE UNCHANGED hardware

Broadcast ==
  /\ health_queue' = IF endpoints THEN KeepLast(QueueDepth, Append(health_queue, health'))
                                  ELSE health_queue
  /\ mux_health' = IF stage[mux] # "UNCONFIGURED" THEN health' ELSE mux_health

Pass(missed, lost) ==
  /\ Manager!Pass(Answers(missed), lost)
  /\ Broadcast
  /\ Override

(* What a pass asks of the nodes; a request to clean up that the node      *)
(* would refuse is left out.                                               *)
Asked(missed, cleaned) ==
  [n \in Node |->
     IF n \in defective THEN "none"
     ELSE CASE Answers(missed)[n] = "UNCONFIGURED" -> "configure"
            [] Answers(missed)[n] = "INACTIVE" -> "activate"
            [] Answers(missed)[n] = "ACTIVE" -> "none"
            [] Answers(missed)[n] = "UNKNOWN" -> IF n \in cleaned THEN "cleanup" ELSE "none"]

MonitorLoop ==
  /\ UNCHANGED <<safety_memory, safety_state, stage, mux_node, unheard, up>>
  /\ \E missed \in SUBSET (up \ defective) :
    \E lost \in SUBSET ((missed \cup (Node \ up)) \ defective),
       cleaned \in SUBSET {n \in missed : LifecycleOf(n) = "INACTIVE"} :
      /\ request' = Asked(missed, cleaned)
      /\ Pass(missed, lost)

RestartManager ==
  /\ Manager!Restart
  /\ UNCHANGED <<safety_node, stage, mux_node, wire, up>>

-----------------------------------------------------------------------------
(* The safety node *)

Idle == UNCHANGED <<manager, stage, mux_node, up>>

HealthToSafety ==
  /\ health_queue # <<>>
  /\ UNCHANGED <<mux_health, unheard>> /\ Idle
  /\ health_queue' = Tail(health_queue)
  /\ IF is_processing_allowed THEN Safety!HealthState(Head(health_queue))
                              ELSE UNCHANGED safety_node

VelocityToSafety ==
  /\ "cmd_vel_smoothed" \in unheard
  /\ UNCHANGED <<health_queue, mux_health>> /\ Idle
  /\ unheard' = unheard \ {"cmd_vel_smoothed"}
  /\ IF is_processing_allowed THEN Safety!SmoothedVel(speed) ELSE UNCHANGED safety_node

(* What publish_global_state sends to the multiplexer. *)
Announced(topics) ==
  IF publishing /\ stage[mux] # "UNCONFIGURED" THEN topics \cup {"safety_state"} ELSE topics

(* The reports of the multiplexer carry nothing the safety node acts on;   *)
(* as long as it publishes there is always one under way.                  *)
MuxStateToSafety ==
  /\ on
  /\ is_processing_allowed
  /\ UNCHANGED <<health_queue, mux_health>> /\ Idle
  /\ Safety!MuxState
  /\ unheard' = Announced(unheard)

(* Motion is reported at any time: a robot rolls on, or is pushed.         *)
Odometry ==
  /\ safety \in up
  /\ Safety!OdomMoving
  /\ unheard' = Announced(unheard)
  /\ UNCHANGED <<health_queue, mux_health>> /\ Idle

Press ==
  /\ safety \in up
  /\ Safety!EStop
  /\ unheard' = Announced(unheard)
  /\ UNCHANGED <<health_queue, mux_health>> /\ Idle

Reset ==
  /\ safety \in up
  /\ Safety!EStopReset
  /\ unheard' = Announced(unheard)
  /\ UNCHANGED <<health_queue, mux_health>> /\ Idle

(* change_state: a request that does not fit the state is refused. *)
SafetyTransition ==
  /\ safety \in up /\ request[safety] # "none"
  /\ request' = [request EXCEPT ![safety] = "none"]
  /\ CASE request[safety] = "configure" /\ lifecycle = "UNCONFIGURED" -> Safety!OnConfigure
       [] request[safety] = "activate" /\ lifecycle = "INACTIVE" -> Safety!OnActivate
       [] request[safety] = "cleanup" /\ lifecycle = "INACTIVE" -> Safety!OnCleanup
       [] OTHER -> UNCHANGED safety_node
  /\ health_queue' = IF endpoints' THEN health_queue ELSE <<>>
  /\ UNCHANGED <<defective, health, stage, mux_node, mux_health, unheard, up>>

-----------------------------------------------------------------------------
(* The multiplexer and the other nodes *)

Loop ==
  /\ mux \in up
  /\ UNCHANGED <<manager, safety_node, stage, health_queue, mux_health, up>>
  /\ speed' \in Velocity
  /\ Mux!Publish
  /\ unheard' = IF endpoints THEN unheard \cup {"cmd_vel_smoothed"} ELSE unheard

(* Seeded fault: the levels from OK on block the multiplexer, not those    *)
(* above it.                                                               *)
HealthToMuxFromOk ==
  /\ mux_health # NO_SAMPLE
  /\ mux_health' = NO_SAMPLE
  /\ Mux!HealthReport(mux_health >= OK, FALSE)
  /\ UNCHANGED <<manager, safety_node, stage, health_queue, unheard, up>>

HealthToMux ==
  /\ mux_health # NO_SAMPLE
  /\ mux_health' = NO_SAMPLE
  /\ Mux!HealthReport(mux_health = EMERGENCY, FALSE)
  /\ UNCHANGED <<manager, safety_node, stage, health_queue, unheard, up>>

SafetyStateToMux ==
  /\ "safety_state" \in unheard
  /\ unheard' = unheard \ {"safety_state"}
  /\ Mux!SafetyReport(safety_state = "EMERGENCY")
  /\ UNCHANGED <<manager, safety_node, stage, health_queue, mux_health, up>>

After(stage_now, transition) ==
  CASE transition = "configure" /\ stage_now = "UNCONFIGURED" -> "INACTIVE"
    [] transition = "activate" /\ stage_now = "INACTIVE" -> "ACTIVE"
    [] transition = "cleanup" /\ stage_now = "INACTIVE" -> "UNCONFIGURED"
    [] OTHER -> stage_now

NodeTransition(n) ==
  /\ n \in up /\ request[n] # "none"
  /\ request' = [request EXCEPT ![n] = "none"]
  /\ stage' = [stage EXCEPT ![n] = After(stage[n], request[n])]
  /\ IF n = mux
     THEN /\ on' = (stage'[mux] = "ACTIVE")
          /\ mux_health' = IF stage'[mux] = "UNCONFIGURED" THEN NO_SAMPLE ELSE mux_health
          /\ unheard' = IF stage'[mux] = "UNCONFIGURED" THEN unheard \ {"safety_state"}
                                                        ELSE unheard
     ELSE UNCHANGED <<on, mux_health, unheard>>
  /\ UNCHANGED <<defective, health, safety_node, fdir_blocked, estop_blocked, degraded,
                 speed, health_queue, up>>

-----------------------------------------------------------------------------
(* Failures and the world *)

CrashSafety ==
  /\ safety \in up
  /\ up' = up \ {safety}
  /\ Safety!Crash
  /\ request' = [request EXCEPT ![safety] = "none"]
  /\ health_queue' = <<>>
  /\ unheard' = unheard \cap {"safety_state"}
  /\ UNCHANGED <<defective, health, stage, mux_node, mux_health>>

(* A new multiplexer starts with clear flags; the velocity published last  *)
(* is still on its way.                                                    *)
CrashNode(n) ==
  /\ n \in up
  /\ up' = up \ {n}
  /\ stage' = [stage EXCEPT ![n] = "UNCONFIGURED"]
  /\ request' = [request EXCEPT ![n] = "none"]
  /\ IF n = mux
     THEN /\ on' = FALSE /\ fdir_blocked' = FALSE /\ estop_blocked' = FALSE
          /\ degraded' = FALSE
          /\ mux_health' = NO_SAMPLE
          /\ unheard' = unheard \ {"safety_state"}
     ELSE UNCHANGED <<on, fdir_blocked, estop_blocked, degraded, mux_health, unheard>>
  /\ UNCHANGED <<defective, health, safety_node, speed, health_queue>>

Relaunch(n) ==
  /\ n \notin up
  /\ up' = up \cup {n}
  /\ UNCHANGED <<manager, safety_node, stage, mux_node, wire>>

Deliver == HealthToSafety \/ VelocityToSafety \/ MuxStateToSafety \/ HealthToMux
             \/ SafetyStateToMux

Failures ==
  RestartManager \/ CrashSafety \/ \E n \in Node \ {safety} : CrashNode(n)

Next ==
  \/ MonitorLoop
  \/ Deliver
  \/ Odometry \/ Press \/ Reset
  \/ SafetyTransition
  \/ \E n \in Node \ {safety} : NodeTransition(n)
  \/ Loop
  \/ Failures
  \/ \E n \in Node : Relaunch(n)

Spec == Init /\ [][Next]_vars

(* The timers fire, no mailbox stays full for ever, and the moving average *)
(* of a blocked multiplexer reaches zero.                                  *)
Fairness ==
  /\ WF_vars(MonitorLoop) /\ WF_vars(MuxStateToSafety)
  /\ []<>(health_queue = <<>>) /\ []<>(mux_health = NO_SAMPLE)
  /\ \A topic \in Topic : []<>(topic \notin unheard)
  /\ []<>(on /\ Mux!Blocked => speed = 0)

FairSpec == Spec /\ Fairness

-----------------------------------------------------------------------------
(* Action properties *)

(* Once the manager has published a lockout the contactors are closed only *)
(* by the operator, or by an OK of the manager that the safety node had    *)
(* not handled yet, and then the message of the lockout is still behind it *)
(* in the queue: the power cannot stay on (override_and_cut_power,         *)
(* health_state_callback).                                                 *)
LockoutOvertakesPermission ==
  [][health = EMERGENCY /\ ~contactors /\ contactors' =>
       Reset \/ \E i \in DOMAIN health_queue' : health_queue'[i] = EMERGENCY]_vars

-----------------------------------------------------------------------------
(* Liveness *)

(* After a lockout the motor driver is told to stop for good, whichever of *)
(* the three processes died in whatever state, unless the multiplexer is   *)
(* launched again and again.                                               *)
RunawayPrevented ==
  <>[](health = EMERGENCY) /\ (<>[](mux \in up) \/ <>[](mux \notin up)) => <>[](motor = 0)

(* After a lockout the contactors are opened for good, also without a      *)
(* safety node and through stale messages, unless the operator resets      *)
(* again and again.                                                        *)
LockoutCutsPower ==
  <>[](health = EMERGENCY) => <>[]~contactors \/ []<><<Reset>>_vars

(* A system that stays healthy and unlatched gets its power back, unless   *)
(* the cutoff of the manager went unnoticed (its message was dropped from  *)
(* the queue, and the manager restarted): then the safety node believes    *)
(* the contactors closed, and does not repeat the command.                 *)
PowerReturns ==
  <>[](health = OK /\ ~e_stop_active)
    => <>[]contactors \/ <>[](hardware_contactors_closed /\ ~contactors)

(* And its multiplexer is released by both of its overseers.               *)
BlockadeLifts ==
  <>[](health = OK /\ ~e_stop_active) => <>[](~fdir_blocked /\ ~estop_blocked)
=============================================================================
