-------------------------- MODULE SafetyNodeProofs --------------------------
(***************************************************************************)
(* Proofs about SafetyNode for any set of velocities and any limits: the   *)
(* interlock invariants, and that the node implements SafetyInterlock.     *)
(***************************************************************************)
EXTENDS SafetyNode, TLAPS

(* What the lifecycle state says of the gate and the publishers; needed    *)
(* because set_hardware_contactors is silent without an active publisher.  *)
LifecycleInv ==
  /\ is_processing_allowed <=> lifecycle = "ACTIVE"
  /\ lifecycle = "ACTIVE" => publishing
  /\ lifecycle \in {"UNCONFIGURED", "INACTIVE"} => ~publishing

IInv ==
  /\ TypeOK
  /\ LifecycleInv
  /\ EStopInterlock
  /\ StoppedMeansZero
  /\ BeliefCoversContactors
  /\ InactiveMeansOpen

LEMMA ClampInRange ==
  ASSUME NEW v \in Velocity
  PROVE  Clamp(v, CurrentLimit) \in MotorCommand /\ 0 \in MotorCommand
BY VelocityAssumption DEF Clamp, CurrentLimit, MotorCommand

LEMMA InitInv == Init => IInv
BY VelocityAssumption
DEF Init, Constructed, IInv, TypeOK, LifecycleInv, EStopInterlock, StoppedMeansZero,
    BeliefCoversContactors, InactiveMeansOpen, MotionForbidden, MotorCommand,
    Lifecycle, SafetyState, HealthLevel, UNKNOWN_LEVEL

(* The contactors are open after the step, and known to be. *)
Opened ==
  /\ contactors' \in BOOLEAN /\ ~contactors'
  /\ hardware_contactors_closed' \in BOOLEAN /\ ~hardware_contactors_closed'

(* Opening never leaves the contactors closed: the belief covers them.     *)
LEMMA OpeningOpens ==
  ASSUME IInv, NEW active \in BOOLEAN, SetHardwareContactors(FALSE, active),
         active \/ ~contactors
  PROVE  Opened
BY DEF Opened, IInv, TypeOK, BeliefCoversContactors, SetHardwareContactors

(* Closing writes the belief whether or not it publishes.                  *)
LEMMA ClosingIsBelieved ==
  ASSUME IInv, NEW active \in BOOLEAN, SetHardwareContactors(TRUE, active)
  PROVE  /\ hardware_contactors_closed'
         /\ contactors' \in BOOLEAN
         /\ ~active => contactors' = contactors
BY DEF IInv, TypeOK, SetHardwareContactors

LEMMA TransitionsInv == IInv /\ Transitions => IInv'
<1> SUFFICES ASSUME IInv, Transitions PROVE IInv'
  OBVIOUS
<1> USE DEF LifecycleInv, EStopInterlock, StoppedMeansZero, BeliefCoversContactors,
            InactiveMeansOpen, MotionForbidden, Opened
<1>1. CASE OnConfigure
  BY <1>1 DEF OnConfigure, IInv, TypeOK, Lifecycle
<1>2. CASE OnActivate
  <2>1. Opened
    BY <1>2, OpeningOpens DEF OnActivate
  <2> QED BY <1>2, <2>1 DEF OnActivate, IInv, TypeOK, Lifecycle
<1>3. CASE OnDeactivate
  <2>1. Opened
    BY <1>3, OpeningOpens DEF OnDeactivate, IInv, TypeOK
  <2> QED BY <1>3, <2>1 DEF OnDeactivate, IInv, TypeOK, Lifecycle
<1>4. CASE OnCleanup
  <2>1. Opened
    BY <1>4, OpeningOpens DEF OnCleanup, IInv, TypeOK
  <2> QED BY <1>4, <2>1 DEF OnCleanup, IInv, TypeOK, Lifecycle
<1>5. CASE OnShutdown
  <2>1. Opened
    BY <1>5, OpeningOpens DEF OnShutdown, IInv, TypeOK, Lifecycle
  <2> QED BY <1>5, <2>1 DEF OnShutdown, IInv, TypeOK, Lifecycle
<1> QED BY <1>1, <1>2, <1>3, <1>4, <1>5 DEF Transitions

LEMMA HealthInv == ASSUME NEW level \in HealthLevel PROVE IInv /\ HealthState(level) => IInv'
<1> SUFFICES ASSUME IInv, HealthState(level) PROVE IInv'
  OBVIOUS
<1> USE DEF LifecycleInv, EStopInterlock, StoppedMeansZero, BeliefCoversContactors,
            InactiveMeansOpen, MotionForbidden, Opened
<1>1. /\ UNCHANGED <<lifecycle, endpoints, publishing, is_processing_allowed, safety_state>>
      /\ last_fdir_state' = level /\ lifecycle = "ACTIVE" /\ publishing
  BY DEF HealthState, node, IInv
<1>2. 0 \in MotorCommand /\ (PublishStop => motor' = 0)
  BY <1>1, VelocityAssumption DEF MotorCommand, PublishStop
<1>3. CASE HealthStartup
  <2>1. Opened
    BY <1>1, <1>3, OpeningOpens DEF HealthStartup
  <2> QED BY <1>1, <1>2, <1>3, <2>1 DEF HealthStartup, IInv, TypeOK, SafetyState
<1>4. CASE HealthEmergency
  <2>1. Opened
    BY <1>1, <1>4, OpeningOpens DEF HealthEmergency
  <2> QED BY <1>1, <1>2, <1>4, <2>1 DEF HealthEmergency, IInv, TypeOK, SafetyState
<1>5. CASE HealthUnknown
  <2>1. Opened
    BY <1>1, <1>5, OpeningOpens DEF HealthUnknown
  <2> QED BY <1>1, <1>5, <2>1 DEF HealthUnknown, IInv, TypeOK
<1>6. CASE HealthOk
  <2>1. CASE e_stop_active
    BY <1>1, <1>6, <2>1 DEF HealthOk, IInv, TypeOK
  <2>2. CASE ~e_stop_active
    <3>1. hardware_contactors_closed' /\ contactors' \in BOOLEAN
      BY <1>1, <1>6, <2>2, ClosingIsBelieved DEF HealthOk
    <3>2. hardware_contactors_closed' \in BOOLEAN
      BY <1>6, <2>2 DEF HealthOk, SetHardwareContactors
    <3> QED BY <1>1, <1>6, <2>2, <3>1, <3>2 DEF HealthOk, IInv, TypeOK, SafetyState
  <2> QED BY <2>1, <2>2
<1>7. CASE HealthKeepsPower(level) /\ level \in {STATE_PROTECTIVE_STOP, STATE_DEGRADED, STATE_RECONFIGURED}
  <2>1. motor' \in {0, motor} /\ (current_state' = "PROTECTIVE_STOP" => motor' = 0)
    BY <1>2, <1>7 DEF HealthKeepsPower, STATE_DEGRADED, STATE_PROTECTIVE_STOP
  <2>2. current_state' \in {"PROTECTIVE_STOP", "DEGRADED"} /\ e_stop_active' = e_stop_active
    BY <1>7 DEF HealthKeepsPower
  <2>3. CASE e_stop_active
    BY <1>1, <1>2, <1>7, <2>1, <2>2, <2>3 DEF HealthKeepsPower, IInv, TypeOK, SafetyState
  <2>4. CASE ~e_stop_active
    <3>1. hardware_contactors_closed' /\ contactors' \in BOOLEAN
      BY <1>1, <1>7, <2>4, ClosingIsBelieved DEF HealthKeepsPower
    <3>2. hardware_contactors_closed' \in BOOLEAN
      BY <1>7, <2>4 DEF HealthKeepsPower, SetHardwareContactors
    <3> QED BY <1>1, <1>2, <2>1, <2>2, <2>4, <3>1, <3>2 DEF IInv, TypeOK, SafetyState
  <2> QED BY <2>3, <2>4
<1> QED BY <1>3, <1>4, <1>5, <1>6, <1>7 DEF HealthState

LEMMA CallbacksInv == IInv /\ Callbacks => IInv'
<1> SUFFICES ASSUME IInv, Callbacks PROVE IInv'
  OBVIOUS
<1> USE DEF LifecycleInv, EStopInterlock, StoppedMeansZero, BeliefCoversContactors,
            InactiveMeansOpen, MotionForbidden, Opened
<1>1. ASSUME NEW v \in Velocity, SmoothedVel(v) PROVE IInv'
  BY <1>1, ClampInRange DEF SmoothedVel, node, IInv, TypeOK
<1>2. ASSUME NEW level \in HealthLevel, HealthState(level) PROVE IInv'
  BY <1>2, HealthInv
<1>3. CASE MuxState
  BY <1>3 DEF MuxState, PublishGlobalState, Reported, node, IInv, TypeOK, SafetyState
<1>4. CASE OdomMoving
  <2>1. Opened
    BY <1>4, OpeningOpens DEF OdomMoving, IInv, TypeOK
  <2> QED BY <1>4, <2>1
       DEF OdomMoving, PublishGlobalState, Reported, node, IInv, TypeOK, SafetyState
<1>5. CASE EStop
  <2>1. Opened
    BY <1>5, OpeningOpens DEF EStop, IInv, TypeOK
  <2>2. motor' = 0 /\ 0 \in MotorCommand
    BY <1>5, VelocityAssumption DEF EStop, PublishStop, MotorCommand, IInv
  <2> QED BY <1>5, <2>1, <2>2
       DEF EStop, PublishGlobalState, Reported, node, IInv, TypeOK, SafetyState
<1>6. CASE EStopReset
  <2>1. /\ hardware_contactors_closed' /\ contactors' \in BOOLEAN
        /\ ~publishing => contactors' = contactors
    BY <1>6, ClosingIsBelieved DEF EStopReset, IInv, TypeOK
  <2>2. hardware_contactors_closed' \in BOOLEAN
    BY <1>6 DEF EStopReset, SetHardwareContactors
  <2> QED BY <1>6, <2>1, <2>2
       DEF EStopReset, PublishGlobalState, Reported, node, IInv, TypeOK, SafetyState
<1> QED BY <1>1, <1>2, <1>3, <1>4, <1>5, <1>6 DEF Callbacks

LEMMA StepInv == IInv /\ [Next]_vars => IInv'
<1>1. IInv /\ UNCHANGED vars => IInv'
  BY DEF IInv, vars, node, TypeOK, LifecycleInv, EStopInterlock, StoppedMeansZero,
         BeliefCoversContactors, InactiveMeansOpen, MotionForbidden
<1> QED BY <1>1, TransitionsInv, CallbacksInv DEF Next

(* The inductive invariant holds in every reachable state. *)
THEOREM Invariance == Spec => []IInv
BY InitInv, StepInv, PTL DEF Spec

(* Every variable keeps its type; the motors only ever get an accepted     *)
(* velocity or a limit.                                                    *)
THEOREM TypeCorrect == Spec => []TypeOK
<1>1. IInv => TypeOK
  BY DEF IInv
<1> QED BY <1>1, Invariance, PTL

(* While the latch is set the contactors are open. *)
THEOREM InterlockCorrect == Spec => []EStopInterlock
<1>1. IInv => EStopInterlock
  BY DEF IInv
<1> QED BY <1>1, Invariance, PTL

(* While motion is forbidden the last motor command is zero. *)
THEOREM StopCorrect == Spec => []StoppedMeansZero
<1>1. IInv => StoppedMeansZero
  BY DEF IInv
<1> QED BY <1>1, Invariance, PTL

(* Closed contactors are believed closed. *)
THEOREM BeliefCorrect == Spec => []BeliefCoversContactors
<1>1. IInv => BeliefCoversContactors
  BY DEF IInv
<1> QED BY <1>1, Invariance, PTL

(* An unconfigured or inactive node has left the contactors open. *)
THEOREM InactiveCorrect == Spec => []InactiveMeansOpen
<1>1. IInv => InactiveMeansOpen
  BY DEF IInv
<1> QED BY <1>1, Invariance, PTL

(* Only the reset service clears the latch. *)
THEOREM LatchCorrect == Spec => OnlyResetClearsLatch
<1>1. IInv /\ [Next]_vars => [e_stop_active /\ ~e_stop_active' => EStopReset]_vars
  <2> SUFFICES ASSUME IInv, Next, ~EStopReset, e_stop_active PROVE e_stop_active'
    BY DEF vars
  <2>1. CASE Transitions
    BY <2>1 DEF Transitions, OnConfigure, OnActivate, OnDeactivate, OnCleanup, OnShutdown
  <2>2. ASSUME NEW level \in HealthLevel, HealthState(level) PROVE e_stop_active'
    BY <2>2 DEF HealthState, HealthStartup, HealthEmergency, HealthKeepsPower, HealthOk, HealthUnknown
  <2>3. ASSUME NEW v \in Velocity, SmoothedVel(v) PROVE e_stop_active'
    BY <2>3 DEF SmoothedVel
  <2>4. CASE MuxState \/ OdomMoving \/ EStop
    BY <2>4 DEF MuxState, OdomMoving, EStop
  <2> QED BY <2>1, <2>2, <2>3, <2>4 DEF Next, Callbacks
<1> QED BY <1>1, Invariance, PTL DEF Spec, OnlyResetClearsLatch

(* Power is switched on by the reset, or by handling a permitting report   *)
(* with a clear latch, and by no other callback or transition.             *)
THEOREM PowerUpCorrect == Spec => PowerUpAuthorised
<1> DEFINE Permitted ==
      /\ ~e_stop_active
      /\ \E level \in {STATE_SOFTWARE_OK, STATE_DEGRADED, STATE_RECONFIGURED,
                       STATE_PROTECTIVE_STOP} : HealthState(level)
           Authorised == EStopReset \/ Permitted
<1>1. IInv /\ [Next]_vars => [~contactors /\ contactors' => Authorised]_vars
  <2> SUFFICES ASSUME IInv, Next, ~contactors, contactors', ~EStopReset PROVE Authorised
    BY DEF vars
  <2>1. ASSUME NEW allowed \in BOOLEAN, SetHardwareContactors(FALSE, allowed) PROVE FALSE
    BY <2>1 DEF SetHardwareContactors
  <2>2. publishing \in BOOLEAN
    BY DEF IInv, TypeOK
  <2>3. CASE Transitions
    BY <2>1, <2>2, <2>3 DEF Transitions, OnConfigure, OnActivate, OnDeactivate, OnCleanup, OnShutdown
  <2>4. ASSUME NEW level \in HealthLevel, HealthState(level) PROVE Permitted
    <3>1. ~HealthStartup /\ ~HealthEmergency /\ ~HealthUnknown
      BY <2>1, <2>2 DEF HealthStartup, HealthEmergency, HealthUnknown
    <3>2. /\ level \in {STATE_SOFTWARE_OK, STATE_DEGRADED, STATE_RECONFIGURED,
                       STATE_PROTECTIVE_STOP}
          /\ ~e_stop_active
      BY <2>4, <3>1 DEF HealthState, HealthKeepsPower, HealthOk
    <3> QED BY <2>4, <3>2
  <2>5. ASSUME NEW v \in Velocity, SmoothedVel(v) PROVE FALSE
    BY <2>5 DEF SmoothedVel
  <2>6. CASE MuxState \/ OdomMoving \/ EStop
    BY <2>1, <2>2, <2>6 DEF MuxState, OdomMoving, EStop
  <2> QED BY <2>3, <2>4, <2>5, <2>6 DEF Next, Callbacks
<1> QED BY <1>1, Invariance, PTL DEF Spec, PowerUpAuthorised

-----------------------------------------------------------------------------
(* Refinement *)

(* Opening the contactors with the motor command untouched or zeroed is    *)
(* the abstract PowerDown, latched or not.                                 *)
LEMMA OpeningIsPowerDown ==
  ASSUME Opened, motor' \in {0, motor}, e_stop_active' = e_stop_active
  PROVE  Interlock!PowerDown
BY DEF Opened, Interlock!PowerDown

LEMMA TransitionRefines == IInv /\ Transitions => [Interlock!Next]_Interlock!vars
<1> SUFFICES ASSUME IInv, Transitions PROVE [Interlock!Next]_Interlock!vars
  OBVIOUS
<1>1. CASE OnConfigure
  BY <1>1 DEF OnConfigure, Interlock!vars
<1>2. CASE OnActivate \/ OnDeactivate \/ OnCleanup \/ OnShutdown
  <2>1. Opened
    BY <1>2, OpeningOpens
    DEF OnActivate, OnDeactivate, OnCleanup, OnShutdown, IInv, TypeOK, LifecycleInv,
        InactiveMeansOpen, Lifecycle
  <2>2. motor' = motor /\ e_stop_active' = e_stop_active
    BY <1>2 DEF OnActivate, OnDeactivate, OnCleanup, OnShutdown
  <2> QED BY <2>1, <2>2, OpeningIsPowerDown DEF Interlock!Next
<1> QED BY <1>1, <1>2 DEF Transitions

LEMMA HealthRefines ==
  ASSUME NEW level \in HealthLevel
  PROVE  IInv /\ HealthState(level) => [Interlock!Next]_Interlock!vars
<1> SUFFICES ASSUME IInv, HealthState(level) PROVE [Interlock!Next]_Interlock!vars
  OBVIOUS
<1> USE DEF Interlock!Next
<1>1. publishing /\ (PublishStop => motor' = 0)
  BY DEF HealthState, IInv, LifecycleInv, PublishStop
<1>2. CASE HealthStartup \/ HealthUnknown
  <2>1. Opened
    BY <1>1, <1>2, OpeningOpens DEF HealthStartup, HealthUnknown
  <2>2. motor' \in {0, motor} /\ e_stop_active' = e_stop_active
    BY <1>1, <1>2 DEF HealthStartup, HealthUnknown
  <2> QED BY <2>1, <2>2, OpeningIsPowerDown
<1>3. CASE HealthEmergency
  <2>1. Opened
    BY <1>1, <1>3, OpeningOpens DEF HealthEmergency
  <2> QED BY <1>1, <1>3, <2>1 DEF HealthEmergency, Opened, Interlock!Trip
<1>4. CASE HealthOk \/ HealthKeepsPower(level)
  <2>1. motor' \in {0, motor} /\ e_stop_active' = e_stop_active
    BY <1>1, <1>4 DEF HealthOk, HealthKeepsPower
  <2>2. CASE e_stop_active
    <3>1. motor' = motor
      BY <2>1, <2>2 DEF IInv, StoppedMeansZero, MotionForbidden
    <3>2. contactors' = contactors
      BY <1>4, <2>2 DEF HealthOk, HealthKeepsPower
    <3> QED BY <2>1, <3>1, <3>2 DEF Interlock!vars
  <2>3. CASE ~e_stop_active
    <3>1. SetHardwareContactors(TRUE, publishing)
      BY <1>4, <2>3 DEF HealthOk, HealthKeepsPower
    <3>2. contactors' = TRUE \/ contactors' = contactors
      BY <3>1 DEF SetHardwareContactors
    <3>3. CASE contactors' = TRUE
      BY <2>1, <2>3, <3>3 DEF Interlock!PowerUp
    <3>4. CASE contactors' = contactors
      BY <2>1, <2>3, <3>4 DEF Interlock!Command
    <3> QED BY <3>2, <3>3, <3>4
  <2> QED BY <2>2, <2>3
<1> QED BY <1>2, <1>3, <1>4 DEF HealthState

LEMMA CallbackRefines == IInv /\ Callbacks => [Interlock!Next]_Interlock!vars
<1> SUFFICES ASSUME IInv, Callbacks PROVE [Interlock!Next]_Interlock!vars
  OBVIOUS
<1> USE DEF Interlock!Next
<1>1. ASSUME NEW v \in Velocity, SmoothedVel(v) PROVE [Interlock!Next]_Interlock!vars
  <2>1. e_stop_active' = e_stop_active /\ contactors' = contactors
    BY <1>1 DEF SmoothedVel
  <2>2. CASE e_stop_active
    <3>1. motor' = 0 /\ motor = 0
      BY <1>1, <2>2 DEF SmoothedVel, MotionForbidden, IInv, StoppedMeansZero
    <3> QED BY <2>1, <3>1 DEF Interlock!vars
  <2>3. CASE ~e_stop_active
    BY <2>1, <2>3 DEF Interlock!Command
  <2> QED BY <2>2, <2>3
<1>2. ASSUME NEW level \in HealthLevel, HealthState(level)
      PROVE  [Interlock!Next]_Interlock!vars
  BY <1>2, HealthRefines
<1>3. CASE MuxState
  BY <1>3 DEF MuxState, Interlock!vars
<1>4. CASE OdomMoving \/ EStop
  <2>1. Opened
    BY <1>4, OpeningOpens DEF OdomMoving, EStop, IInv, TypeOK, LifecycleInv
  <2>2. motor' = 0
    BY <1>4 DEF OdomMoving, EStop, PublishStop, IInv, StoppedMeansZero, MotionForbidden, LifecycleInv
  <2>3. e_stop_active' = TRUE
    BY <1>4 DEF OdomMoving, EStop
  <2> QED BY <2>1, <2>2, <2>3 DEF Opened, Interlock!Trip
<1>5. CASE EStopReset
  <2>1. e_stop_active /\ e_stop_active' = FALSE /\ motor' = motor
    BY <1>5 DEF EStopReset, IInv, InactiveMeansOpen
  <2>2. contactors' \in BOOLEAN
    BY <1>5, ClosingIsBelieved DEF EStopReset, IInv, TypeOK
  <2> QED BY <2>1, <2>2 DEF Interlock!Release
<1> QED BY <1>1, <1>2, <1>3, <1>4, <1>5 DEF Callbacks

(* Every run of the node is a run of the abstract interlock: the latch,    *)
(* the contactors and the motor command, seen from outside, follow it      *)
(* through every callback and every lifecycle transition.                  *)
THEOREM Implementation == Spec => ImplementsInterlock
<1>1. Init => Interlock!Init
  BY DEF Init, Constructed, Interlock!Init
<1>2. IInv /\ [Next]_vars => [Interlock!Next]_Interlock!vars
  <2>1. UNCHANGED vars => UNCHANGED Interlock!vars
    BY DEF vars, Interlock!vars
  <2> QED BY <2>1, TransitionRefines, CallbackRefines DEF Next
<1> QED BY <1>1, <1>2, Invariance, PTL DEF Spec, ImplementsInterlock, Interlock!Spec
=============================================================================
