-------------------------- MODULE MonaSystemProofs --------------------------
(***************************************************************************)
(* Proofs about MonaSystem for any further nodes, any velocities and any   *)
(* depth of the safety node's queue: no permission that is still under way *)
(* when the manager locks the robot out gets the last word.                *)
(***************************************************************************)
EXTENDS MonaSystem, SequenceTheorems, TLAPS

Last(queue) == queue[Len(queue)]

(* KEEP_LAST drops the oldest message, never the newest. *)
LEMMA KeepLastKeepsLast ==
  ASSUME NEW S, NEW queue \in Seq(S), NEW message \in S, NEW depth \in Nat \ {0}
  PROVE  /\ KeepLast(depth, Append(queue, message)) \in Seq(S)
         /\ Last(KeepLast(depth, Append(queue, message))) = message
<1> DEFINE long == Append(queue, message)
<1>1. /\ long \in Seq(S) /\ long # <<>>
      /\ Len(long) = Len(queue) + 1 /\ Len(queue) \in Nat
      /\ long[Len(long)] = message
  BY AppendProperties, LenProperties
<1> HIDE DEF long
<1>2. CASE Len(long) > depth
  <2>1. /\ Tail(long) \in Seq(S)
        /\ Len(Tail(long)) = Len(long) - 1
        /\ \A i \in 1..Len(Tail(long)) : Tail(long)[i] = long[i + 1]
    BY <1>1, HeadTailProperties
  <2>2. Len(Tail(long)) \in Nat \ {0}
    BY <1>1, <1>2, <2>1
  <2>3. Last(Tail(long)) = message
    BY <1>1, <2>1, <2>2 DEF Last
  <2> QED BY <1>2, <2>1, <2>3 DEF KeepLast, long
<1>3. CASE ~(Len(long) > depth)
  BY <1>1, <1>3 DEF KeepLast, Last, long
<1> QED BY <1>2, <1>3

LEMMA TailKeepsLast ==
  ASSUME NEW S, NEW queue \in Seq(S), queue # <<>>
  PROVE  /\ Tail(queue) \in Seq(S)
         /\ Tail(queue) = <<>> => Head(queue) = Last(queue)
         /\ Tail(queue) # <<>> => Last(Tail(queue)) = Last(queue)
                                  /\ Len(Tail(queue)) \in DOMAIN Tail(queue)
<1>1. /\ Len(queue) \in Nat /\ Head(queue) = queue[1]
      /\ Tail(queue) \in Seq(S)
      /\ Len(Tail(queue)) = Len(queue) - 1
      /\ \A i \in 1..Len(Tail(queue)) : Tail(queue)[i] = queue[i + 1]
  BY HeadTailProperties, LenProperties
<1>2. CASE Tail(queue) = <<>>
  <2>1. Len(Tail(queue)) = 0
    <3>1. Len(<<>>) = 0
      OBVIOUS
    <3> QED BY <1>2, <3>1
  <2> DEFINE n == Len(queue)
  <2>2. n \in Nat /\ 0 = n - 1
    BY <1>1, <2>1
  <2> HIDE DEF n
  <2>3. n = 1
    BY <2>2
  <2>4. Len(queue) = 1
    BY <2>3 DEF n
  <2> QED BY <1>1, <1>2, <2>4 DEF Last
<1>3. CASE Tail(queue) # <<>>
  <2> DEFINE rest == Tail(queue)
  <2>1. rest \in Seq(S) /\ rest # <<>>
    BY <1>1, <1>3
  <2> HIDE DEF rest
  <2>2. Len(rest) \in Nat \ {0} /\ DOMAIN rest = 1..Len(rest)
    BY <2>1, EmptySeq, LenProperties
  <2>3. Len(rest) \in 1..Len(rest)
    BY <2>2
  <2>4. rest[Len(rest)] = queue[Len(rest) + 1] /\ Len(rest) + 1 = Len(queue)
    BY <1>1, <2>2, <2>3 DEF rest
  <2> QED BY <1>1, <1>3, <2>2, <2>3, <2>4 DEF Last, rest
<1> QED BY <1>2, <1>3

-----------------------------------------------------------------------------
(* The queue *)

(* A node without a subscription has no queue, and while the manager holds *)
(* the lockout its message is the newest there is.                         *)
QueueInv ==
  /\ health_queue \in Seq({STARTUP, OK, EMERGENCY})
  /\ ~endpoints => health_queue = <<>>
  /\ health = EMERGENCY /\ health_queue # <<>> => Last(health_queue) = EMERGENCY

Levels == STARTUP = 0 /\ OK = 1 /\ EMERGENCY = 5 /\ NO_SAMPLE = 255

LEMMA LevelValues == Levels
BY DEF Levels, STARTUP, OK, EMERGENCY, NO_SAMPLE, Manager!STATE_SYSTEM_STARTUP,
       Manager!STATE_SOFTWARE_OK, Manager!STATE_EMERGENCY, Manager!NO_SAMPLE

LEMMA PassKeepsQueue ==
  ASSUME QueueInv, MonitorLoop
  PROVE  QueueInv'
<1>1. UNCHANGED endpoints
  BY DEF MonitorLoop, safety_memory
<1>2. health' \in {STARTUP, OK, EMERGENCY} /\ Broadcast
  <2>1. PICK missed \in SUBSET (up \ defective) :
             \E lost \in SUBSET ((missed \cup (Node \ up)) \ defective) : Pass(missed, lost)
    BY DEF MonitorLoop
  <2>2. PICK lost \in SUBSET ((missed \cup (Node \ up)) \ defective) : Pass(missed, lost)
    BY <2>1
  <2>3. health' = Manager!Verdict(Answers(missed), lost) /\ Broadcast
    BY <2>2 DEF Pass, Manager!Pass
  <2>4. Manager!Verdict(Answers(missed), lost) \in {STARTUP, OK, EMERGENCY}
    BY DEF Manager!Verdict, STARTUP, OK, EMERGENCY
  <2> QED BY <2>3, <2>4
<1>3. CASE endpoints
  <2>1. health_queue' = KeepLast(QueueDepth, Append(health_queue, health'))
    BY <1>2, <1>3 DEF Broadcast
  <2>2. /\ health_queue' \in Seq({STARTUP, OK, EMERGENCY})
        /\ Last(health_queue') = health'
    <3> DEFINE Level == {STARTUP, OK, EMERGENCY}
    <3>1. health_queue \in Seq(Level) /\ health' \in Level /\ QueueDepth \in Nat \ {0}
      BY <1>2, DepthAssumption DEF QueueInv
    <3> HIDE DEF Level
    <3>2. /\ KeepLast(QueueDepth, Append(health_queue, health')) \in Seq(Level)
          /\ Last(KeepLast(QueueDepth, Append(health_queue, health'))) = health'
      BY <3>1, KeepLastKeepsLast
    <3> QED BY <2>1, <3>2 DEF Level
  <2>3. Last(health_queue)' = health'
    BY <2>2 DEF Last
  <2> QED BY <1>1, <1>3, <2>2, <2>3 DEF QueueInv
<1>4. CASE ~endpoints
  BY <1>1, <1>2, <1>4 DEF Broadcast, QueueInv
<1> QED BY <1>3, <1>4

LEMMA DeliveryKeepsQueue ==
  ASSUME QueueInv, HealthToSafety
  PROVE  QueueInv'
<1>1. health_queue # <<>> /\ health_queue' = Tail(health_queue) /\ UNCHANGED health
  BY DEF HealthToSafety, Idle, manager
<1>2. UNCHANGED endpoints
  BY DEF HealthToSafety, Safety!HealthState, Safety!node, safety_node, safety_memory
<1>3. /\ health_queue' \in Seq({STARTUP, OK, EMERGENCY})
      /\ health_queue' # <<>> => Last(health_queue)' = Last(health_queue)
  <2>1. /\ health_queue' \in Seq({STARTUP, OK, EMERGENCY})
        /\ health_queue' # <<>> => Last(health_queue') = Last(health_queue)
    BY <1>1, TailKeepsLast DEF QueueInv
  <2> QED BY <2>1 DEF Last
<1> QED BY <1>1, <1>2, <1>3 DEF QueueInv

(* The other steps leave the queue and the verdict alone, or empty it. *)
LEMMA RestKeepsQueue ==
  ASSUME QueueInv, [Next]_vars, ~MonitorLoop, ~HealthToSafety
  PROVE  QueueInv'
<1> DEFINE Kept == UNCHANGED <<health, health_queue, endpoints>>
           Emptied == UNCHANGED health /\ health_queue' = <<>>
<1>1. Kept => QueueInv'
  BY DEF QueueInv, Last
<1>2. Emptied => QueueInv'
  BY DEF QueueInv, Last
<1> HIDE DEF Kept, Emptied
<1> USE DEF Idle, manager, safety_node, safety_memory, wire, Safety!node
<1>3. CASE VelocityToSafety \/ MuxStateToSafety
  <2>1. Kept
    BY <1>3 DEF VelocityToSafety, MuxStateToSafety, Safety!SmoothedVel, Safety!MuxState, Kept
  <2> QED BY <1>1, <2>1
<1>4. CASE Odometry \/ Press \/ Reset
  <2>1. Kept
    BY <1>4 DEF Odometry, Press, Reset, Safety!OdomMoving, Safety!EStop, Safety!EStopReset, Kept
  <2> QED BY <1>1, <2>1
<1>5. CASE HealthToMux \/ SafetyStateToMux \/ Loop
  <2>1. Kept
    BY <1>5 DEF HealthToMux, SafetyStateToMux, Loop, Kept
  <2> QED BY <1>1, <2>1
<1>6. CASE (\E n \in Node \ {safety} : NodeTransition(n) \/ CrashNode(n)) \/ \E n \in Node : Relaunch(n)
  <2>1. Kept
    BY <1>6 DEF NodeTransition, CrashNode, Relaunch, Kept
  <2> QED BY <1>1, <2>1
<1>7. CASE SafetyTransition
  <2>1. UNCHANGED health /\ health_queue' = IF endpoints' THEN health_queue ELSE <<>>
    BY <1>7 DEF SafetyTransition
  <2> QED BY <2>1 DEF QueueInv, Last
<1>8. CASE CrashSafety
  <2>1. Emptied
    BY <1>8 DEF CrashSafety, Emptied
  <2> QED BY <1>2, <2>1
<1>9. CASE RestartManager
  <2>1. health' = NO_SAMPLE /\ UNCHANGED <<health_queue, endpoints>>
    BY <1>9 DEF RestartManager, Manager!Restart, NO_SAMPLE
  <2>2. health' # EMERGENCY
    BY <2>1, LevelValues DEF Levels
  <2> QED BY <2>1, <2>2 DEF QueueInv
<1>10. CASE UNCHANGED vars
  <2>1. Kept
    BY <1>10 DEF vars, Kept
  <2> QED BY <1>1, <2>1
<1> QED BY <1>3, <1>4, <1>5, <1>6, <1>7, <1>8, <1>9, <1>10 DEF Next, Deliver, Failures

(* The newest message in the safety node's queue is that of the lockout,   *)
(* as long as the lockout lasts and the queue is not empty.                *)
THEOREM QueueCorrect == Spec => []QueueInv
<1>1. Init => QueueInv
  <2> SUFFICES ASSUME Init PROVE QueueInv
    OBVIOUS
  <2>1. health_queue = <<>> /\ health = NO_SAMPLE
    BY DEF Init, Manager!Init, NO_SAMPLE
  <2>2. <<>> \in Seq({STARTUP, OK, EMERGENCY})
    OBVIOUS
  <2> QED BY <2>1, <2>2 DEF QueueInv
<1>2. QueueInv /\ [Next]_vars => QueueInv'
  BY PassKeepsQueue, DeliveryKeepsQueue, RestKeepsQueue
<1> QED BY <1>1, <1>2, PTL DEF Spec

-----------------------------------------------------------------------------
(* The lockout *)

(* Who switches the power on: the operator, or a message that permits it.  *)
LEMMA WhoSwitchesOn ==
  ASSUME [Next]_vars, ~contactors, contactors'
  PROVE  \/ Reset
         \/ HealthToSafety /\ is_processing_allowed /\ Head(health_queue) # EMERGENCY
<1>1. ASSUME NEW active, Safety!SetHardwareContactors(FALSE, active) PROVE FALSE
  BY <1>1 DEF Safety!SetHardwareContactors
<1>2. CASE MonitorLoop
  <2>1. PICK missed \in SUBSET (up \ defective) :
             \E lost \in SUBSET ((missed \cup (Node \ up)) \ defective) : Pass(missed, lost)
    BY <1>2 DEF MonitorLoop
  <2> QED BY <2>1 DEF Pass, Override, hardware
<1>3. CASE HealthToSafety
  <2>1. is_processing_allowed /\ Safety!HealthState(Head(health_queue))
    BY <1>3 DEF HealthToSafety, safety_node, hardware
  <2>2. ~Safety!HealthEmergency
    BY <1>1 DEF Safety!HealthEmergency
  <2>3. Head(health_queue) # EMERGENCY
    BY <2>1, <2>2, LevelValues
    DEF Levels, Safety!HealthState, Safety!STATE_SYSTEM_STARTUP, Safety!STATE_SOFTWARE_OK,
        Safety!STATE_DEGRADED, Safety!STATE_RECONFIGURED, Safety!STATE_PROTECTIVE_STOP,
        Safety!STATE_EMERGENCY, Safety!UNKNOWN_LEVEL
  <2> QED BY <1>3, <2>1, <2>3
<1>4. CASE VelocityToSafety \/ MuxStateToSafety
  BY <1>4 DEF VelocityToSafety, MuxStateToSafety, Safety!SmoothedVel, Safety!MuxState,
              safety_node, hardware
<1>5. CASE Odometry \/ Press
  BY <1>1, <1>5 DEF Odometry, Press, Safety!OdomMoving, Safety!EStop
<1>6. CASE SafetyTransition
  BY <1>1, <1>6 DEF SafetyTransition, Safety!OnConfigure, Safety!OnActivate, Safety!OnCleanup,
                    safety_node, hardware
<1>7. CASE HealthToMux \/ SafetyStateToMux \/ Loop \/ RestartManager
  BY <1>7 DEF HealthToMux, SafetyStateToMux, Loop, RestartManager, safety_node, hardware
<1>8. CASE (\E n \in Node \ {safety} : NodeTransition(n) \/ CrashNode(n)) \/ \E n \in Node : Relaunch(n)
  BY <1>8 DEF NodeTransition, CrashNode, Relaunch, safety_node, hardware
<1>9. CASE CrashSafety
  BY <1>9 DEF CrashSafety, Safety!Crash
<1>10. CASE UNCHANGED vars
  BY <1>10 DEF vars, safety_node, hardware
<1> QED BY <1>2, <1>3, <1>4, <1>5, <1>6, <1>7, <1>8, <1>9, <1>10 DEF Next, Deliver, Failures

(* After a lockout the contactors are closed only by the operator, or by a *)
(* message that overtook nothing: that of the lockout is still behind it.  *)
THEOREM LockoutOvertakes == Spec => LockoutOvertakesPermission
<1> DEFINE Behind == \E i \in DOMAIN health_queue' : health_queue'[i] = EMERGENCY
<1>1. QueueInv /\ [Next]_vars =>
        [health = EMERGENCY /\ ~contactors /\ contactors' => Reset \/ Behind]_vars
  <2> SUFFICES ASSUME QueueInv, [Next]_vars, health = EMERGENCY, ~contactors, contactors', ~Reset
               PROVE  Behind
    OBVIOUS
  <2>1. HealthToSafety /\ Head(health_queue) # EMERGENCY
    BY WhoSwitchesOn
  <2>2. health_queue # <<>> /\ health_queue' = Tail(health_queue)
    BY <2>1 DEF HealthToSafety
  <2>3. Last(health_queue) = EMERGENCY /\ health_queue \in Seq({STARTUP, OK, EMERGENCY})
    BY <2>2 DEF QueueInv
  <2>4. Tail(health_queue) # <<>>
    BY <2>1, <2>2, <2>3, TailKeepsLast
  <2>5. Last(Tail(health_queue)) = EMERGENCY /\ Len(Tail(health_queue)) \in DOMAIN Tail(health_queue)
    BY <2>2, <2>3, <2>4, TailKeepsLast
  <2> QED BY <2>2, <2>5 DEF Last
<1> QED BY <1>1, QueueCorrect, PTL DEF Spec, LockoutOvertakesPermission

-----------------------------------------------------------------------------
(* The safety node among processes that die *)

(* What survives of the safety node's invariants when it can be killed and *)
(* launched again over hardware that keeps its last command, and when the  *)
(* manager writes to the same hardware: the node no longer knows whether   *)
(* the contactors are closed (BeliefCoversContactors is lost), but it      *)
(* still publishes whenever it processes, and a latched node has commanded *)
(* the contactors open.                                                    *)
SafetyInv ==
  /\ Safety!StoppedMeansZero
  /\ is_processing_allowed => publishing
  /\ is_processing_allowed => lifecycle = "ACTIVE"
  /\ e_stop_active => ~hardware_contactors_closed

(* A handled message keeps it. *)
LEMMA HealthKeepsSafety ==
  ASSUME SafetyInv, NEW level, Safety!HealthState(level)
  PROVE  SafetyInv'
<1> USE DEF SafetyInv, Safety!StoppedMeansZero, Safety!MotionForbidden, Safety!node,
            Safety!PublishStop, Safety!SetHardwareContactors
<1>1. is_processing_allowed /\ publishing /\ UNCHANGED <<lifecycle, is_processing_allowed, publishing>>
  BY DEF Safety!HealthState
<1>2. CASE Safety!HealthStartup
  BY <1>1, <1>2 DEF Safety!HealthStartup
<1>3. CASE Safety!HealthEmergency
  BY <1>1, <1>3 DEF Safety!HealthEmergency
<1>4. CASE /\ Safety!HealthKeepsPower(level)
           /\ level \in {Safety!STATE_PROTECTIVE_STOP, Safety!STATE_DEGRADED,
                         Safety!STATE_RECONFIGURED}
  <2>1. e_stop_active => ~hardware_contactors_closed'
    BY <1>4 DEF Safety!HealthKeepsPower
  <2>2. current_state' = "PROTECTIVE_STOP" => motor' = 0
    BY <1>1, <1>4 DEF Safety!HealthKeepsPower, Safety!STATE_PROTECTIVE_STOP, Safety!STATE_DEGRADED
  <2>3. current_state' # "EMERGENCY" /\ UNCHANGED e_stop_active
    BY <1>4 DEF Safety!HealthKeepsPower
  <2>4. e_stop_active => motor' = 0
    BY <1>1, <1>4 DEF Safety!HealthKeepsPower
  <2> QED BY <1>1, <2>1, <2>2, <2>3, <2>4
<1>5. CASE Safety!HealthOk
  BY <1>1, <1>5 DEF Safety!HealthOk
<1>6. CASE Safety!HealthUnknown
  BY <1>1, <1>6 DEF Safety!HealthUnknown
<1> QED BY <1>2, <1>3, <1>4, <1>5, <1>6 DEF Safety!HealthState

LEMMA StepKeepsSafety ==
  ASSUME SafetyInv, [Next]_vars
  PROVE  SafetyInv'
<1> DEFINE Kept == UNCHANGED <<lifecycle, publishing, is_processing_allowed, e_stop_active,
                               current_state, hardware_contactors_closed>>
           Still == Kept /\ (motor' = motor \/ motor' = 0)
<1>1. Still => SafetyInv'
  BY DEF SafetyInv, Safety!StoppedMeansZero, Safety!MotionForbidden
<1> HIDE DEF Still
<1>2. CASE MonitorLoop
  <2>1. PICK missed \in SUBSET (up \ defective) :
             \E lost \in SUBSET ((missed \cup (Node \ up)) \ defective) : Pass(missed, lost)
    BY <1>2 DEF MonitorLoop
  <2>2. motor' = motor \/ motor' = 0
    BY <2>1 DEF Pass, Override, hardware
  <2> QED BY <1>1, <1>2, <2>2 DEF MonitorLoop, safety_memory, Still
<1>3. CASE HealthToSafety
  <2>1. CASE Safety!HealthState(Head(health_queue))
    BY <2>1, HealthKeepsSafety
  <2>2. CASE UNCHANGED safety_node
    BY <1>1, <2>2 DEF Still, safety_node, safety_memory, hardware
  <2> QED BY <1>3, <2>1, <2>2 DEF HealthToSafety
<1>4. CASE VelocityToSafety
  <2>1. CASE Safety!SmoothedVel(speed)
    BY <2>1 DEF SafetyInv, Safety!SmoothedVel, Safety!node, Safety!StoppedMeansZero,
                Safety!MotionForbidden
  <2>2. CASE UNCHANGED safety_node
    BY <1>1, <2>2 DEF Still, safety_node, safety_memory, hardware
  <2> QED BY <1>4, <2>1, <2>2 DEF VelocityToSafety
<1>5. CASE MuxStateToSafety
  BY <1>1, <1>5 DEF MuxStateToSafety, Safety!MuxState, Safety!node, Still
<1>6. CASE Odometry
  BY <1>6 DEF Odometry, Safety!OdomMoving, Safety!node, Safety!SetHardwareContactors, SafetyInv,
              Safety!StoppedMeansZero, Safety!MotionForbidden
<1>7. CASE Press
  BY <1>7 DEF Press, Safety!EStop, Safety!node, Safety!SetHardwareContactors,
              Safety!PublishStop, SafetyInv, Safety!StoppedMeansZero, Safety!MotionForbidden
<1>8. CASE Reset
  BY <1>8 DEF Reset, Safety!EStopReset, Safety!node, SafetyInv, Safety!StoppedMeansZero,
              Safety!MotionForbidden
<1>9. CASE SafetyTransition
  <2>1. CASE Safety!OnConfigure
    BY <2>1 DEF Safety!OnConfigure, SafetyInv, Safety!StoppedMeansZero, Safety!MotionForbidden
  <2>2. CASE Safety!OnActivate \/ Safety!OnCleanup
    <3>1. hardware_contactors_closed' = FALSE /\ UNCHANGED <<e_stop_active, current_state, motor>>
      BY <2>2 DEF Safety!OnActivate, Safety!OnCleanup, Safety!SetHardwareContactors
    <3>2. \/ is_processing_allowed' = TRUE /\ publishing' = TRUE /\ lifecycle' = "ACTIVE"
          \/ is_processing_allowed' = FALSE
      BY <2>2 DEF Safety!OnActivate, Safety!OnCleanup
    <3> QED BY <3>1, <3>2 DEF SafetyInv, Safety!StoppedMeansZero, Safety!MotionForbidden
  <2>3. CASE UNCHANGED safety_node
    BY <1>1, <2>3 DEF Still, safety_node, safety_memory, hardware
  <2> QED BY <1>9, <2>1, <2>2, <2>3 DEF SafetyTransition
<1>10. CASE HealthToMux \/ SafetyStateToMux \/ Loop \/ RestartManager
  BY <1>1, <1>10 DEF HealthToMux, SafetyStateToMux, Loop, RestartManager, Still, safety_node,
                     safety_memory, hardware
<1>11. CASE (\E n \in Node \ {safety} : NodeTransition(n) \/ CrashNode(n)) \/ \E n \in Node : Relaunch(n)
  BY <1>1, <1>11 DEF NodeTransition, CrashNode, Relaunch, Still, safety_node, safety_memory,
                     hardware
<1>12. CASE CrashSafety
  BY <1>12 DEF CrashSafety, Safety!Crash, SafetyInv, Safety!StoppedMeansZero,
               Safety!MotionForbidden
<1>13. CASE UNCHANGED vars
  BY <1>1, <1>13 DEF vars, Still, safety_node, safety_memory, hardware
<1> QED BY <1>2, <1>3, <1>4, <1>5, <1>6, <1>7, <1>8, <1>9, <1>10, <1>11, <1>12, <1>13
        DEF Next, Deliver, Failures

LEMMA SafetyInvariance == Spec => []SafetyInv
<1>1. Init => SafetyInv
  BY DEF Init, Safety!Init, Safety!Constructed, SafetyInv, Safety!StoppedMeansZero,
         Safety!MotionForbidden
<1> QED BY <1>1, StepKeepsSafety, PTL DEF Spec

(* In the whole system, too, with processes that die, late messages and a  *)
(* manager that cuts in, the motor driver's last command is zero whenever  *)
(* the living safety node is in a state that forbids motion (publish_stop, *)
(* smoothed_vel_callback, override_and_cut_power).                         *)
THEOREM StopHoldsInSystem == Spec => []Safety!StoppedMeansZero
<1>1. SafetyInv => Safety!StoppedMeansZero
  BY DEF SafetyInv
<1> QED BY <1>1, SafetyInvariance, PTL

(* Only the operator, or a SOFTWARE_OK that an activated node with a clear *)
(* latch handles, closes the contactors: no death, no launch and no other  *)
(* message does, however long it was under way (set_hardware_contactors,   *)
(* health_state_callback, estop_reset_callback).                           *)
THEOREM PowerUpInSystem ==
  Spec => [][~contactors /\ contactors' =>
               \/ Reset
               \/ /\ HealthToSafety /\ Head(health_queue) = OK
                  /\ lifecycle = "ACTIVE" /\ ~e_stop_active]_vars
<1> DEFINE Permitted == /\ HealthToSafety /\ Head(health_queue) = OK
                        /\ lifecycle = "ACTIVE" /\ ~e_stop_active
<1>1. QueueInv /\ SafetyInv /\ [Next]_vars =>
        [~contactors /\ contactors' => Reset \/ Permitted]_vars
  <2> SUFFICES ASSUME QueueInv, SafetyInv, [Next]_vars, ~contactors, contactors', ~Reset
               PROVE  Permitted
    OBVIOUS
  <2>1. HealthToSafety /\ is_processing_allowed /\ Head(health_queue) # EMERGENCY
    BY WhoSwitchesOn
  <2>2. Safety!HealthState(Head(health_queue)) /\ health_queue # <<>>
    BY <2>1 DEF HealthToSafety
  <2>3. Head(health_queue) \in {STARTUP, OK, EMERGENCY}
    <3> DEFINE Level == {STARTUP, OK, EMERGENCY}
    <3>1. health_queue \in Seq(Level)
      BY DEF QueueInv
    <3> HIDE DEF Level
    <3>2. Head(health_queue) \in Level
      BY <2>2, <3>1, HeadTailProperties
    <3> QED BY <3>2 DEF Level
  <2>4. ~Safety!HealthStartup
    BY DEF Safety!HealthStartup, Safety!SetHardwareContactors
  <2>5. Head(health_queue) = OK
    BY <2>1, <2>2, <2>3, <2>4, LevelValues
    DEF Levels, Safety!HealthState, Safety!STATE_SYSTEM_STARTUP, Safety!STATE_SOFTWARE_OK,
        Safety!STATE_DEGRADED, Safety!STATE_RECONFIGURED, Safety!STATE_PROTECTIVE_STOP,
        Safety!STATE_EMERGENCY, Safety!UNKNOWN_LEVEL
  <2>6. Safety!HealthOk
    BY <2>2, <2>5, LevelValues
    DEF Levels, Safety!HealthState, Safety!STATE_SYSTEM_STARTUP, Safety!STATE_SOFTWARE_OK,
        Safety!STATE_DEGRADED, Safety!STATE_RECONFIGURED, Safety!STATE_PROTECTIVE_STOP,
        Safety!STATE_EMERGENCY, Safety!UNKNOWN_LEVEL
  <2>7. ~e_stop_active
    BY <2>6 DEF Safety!HealthOk
  <2> QED BY <2>1, <2>5, <2>7 DEF SafetyInv
<1> QED BY <1>1, QueueCorrect, SafetyInvariance, PTL DEF Spec
=============================================================================
