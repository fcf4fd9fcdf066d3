----------------------------- MODULE SafetyNode -----------------------------
(***************************************************************************)
(* SafetyNode of mona_safety with every callback as one step, which is     *)
(* what a single-threaded executor gives and what the unit tests run.      *)
(* SafetyThreads splits the callbacks.                                     *)
(*                                                                         *)
(* A velocity is one axis of the Twist: the code clamps the three axes     *)
(* separately and by the same limit. last_mux_state_ appears in message    *)
(* texts only and is left out.                                             *)
(***************************************************************************)
EXTENDS Integers

CONSTANTS
  Velocity,             \* velocities cmd_vel_smoothed may carry
  max_speed_normal,     \* parameters read by on_configure
  max_speed_degraded

ASSUME VelocityAssumption == Velocity \subseteq Int /\ 0 \in Velocity
ASSUME LimitAssumption ==
  /\ max_speed_degraded \in Nat /\ max_speed_normal \in Nat
  /\ max_speed_degraded <= max_speed_normal

(* FdirState.msg; UNKNOWN_LEVEL is any byte the switch has no case for,    *)
(* and also what last_fdir_state_ starts with (255).                       *)
STATE_SYSTEM_STARTUP  == 0
STATE_SOFTWARE_OK     == 1
STATE_DEGRADED        == 2
STATE_RECONFIGURED    == 3
STATE_PROTECTIVE_STOP == 4
STATE_EMERGENCY       == 5
UNKNOWN_LEVEL         == 255
HealthLevel == 0..5 \cup {UNKNOWN_LEVEL}

SafetyState == {"NORMAL", "DEGRADED", "PROTECTIVE_STOP", "EMERGENCY"}
Lifecycle == {"UNCONFIGURED", "INACTIVE", "ACTIVE", "FINALIZED"}

VARIABLES
  lifecycle,                    \* primary state of the lifecycle node
  endpoints,                    \* subscriptions, services, publishers exist
  publishing,                   \* the lifecycle publishers are activated
  is_processing_allowed,
  e_stop_active,
  current_state,
  last_fdir_state,
  hardware_contactors_closed,   \* what the node believes it commanded
  contactors,                   \* last value on hardware/contactors
  motor,                        \* last velocity on hardware/motor_cmd
  safety_state                  \* last value on system/safety_state

node == <<lifecycle, endpoints, publishing, is_processing_allowed>>
vars == <<node, e_stop_active, current_state, last_fdir_state,
          hardware_contactors_closed, contactors, motor, safety_state>>

(* The range of what can reach the motors: an input or a limit. *)
MotorCommand ==
  Velocity \cup {max_speed_normal, max_speed_degraded, -max_speed_normal, -max_speed_degraded}

TypeOK ==
  /\ lifecycle \in Lifecycle
  /\ endpoints \in BOOLEAN
  /\ publishing \in BOOLEAN
  /\ is_processing_allowed \in BOOLEAN
  /\ e_stop_active \in BOOLEAN
  /\ current_state \in SafetyState
  /\ last_fdir_state \in HealthLevel
  /\ hardware_contactors_closed \in BOOLEAN
  /\ contactors \in BOOLEAN
  /\ motor \in MotorCommand
  /\ safety_state \in SafetyState \cup {"NONE"}

(* The constructor's initializer list puts current_state_ in NORMAL. *)
Constructed ==
  /\ lifecycle = "UNCONFIGURED"
  /\ endpoints = FALSE
  /\ publishing = FALSE
  /\ is_processing_allowed = FALSE
  /\ e_stop_active = FALSE
  /\ current_state = "NORMAL"
  /\ last_fdir_state = UNKNOWN_LEVEL
  /\ hardware_contactors_closed = FALSE

(* Powered down hardware, nothing published. *)
Init ==
  /\ Constructed
  /\ contactors = FALSE
  /\ motor = 0
  /\ safety_state = "NONE"

-----------------------------------------------------------------------------
(* Helpers *)

(* Seeded fault: the belief is compared, but not written.                  *)
SetContactorsUnrecorded(enable, active) ==
  /\ UNCHANGED hardware_contactors_closed
  /\ contactors' = IF hardware_contactors_closed # enable /\ active THEN enable ELSE contactors

(* Publishes on change only, and only through an activated publisher; the  *)
(* belief is updated in any case.                                          *)
SetHardwareContactors(enable, active) ==
  /\ hardware_contactors_closed' = enable
  /\ contactors' = IF hardware_contactors_closed # enable /\ active THEN enable ELSE contactors

(* Seeded fault: stopping leaves the last command standing.                *)
PublishStopForgotten == motor' = motor

PublishStop == motor' = IF publishing THEN 0 ELSE motor

Reported(estop, state) == IF estop THEN "EMERGENCY" ELSE state

PublishGlobalState(estop, state) ==
  safety_state' = IF publishing THEN Reported(estop, state) ELSE safety_state

Clamp(v, limit) == IF v > limit THEN limit ELSE IF v < -limit THEN -limit ELSE v

CurrentLimit == IF current_state = "DEGRADED" THEN max_speed_degraded ELSE max_speed_normal

MotionForbidden == e_stop_active \/ current_state \in {"PROTECTIVE_STOP", "EMERGENCY"}

-----------------------------------------------------------------------------
(* Lifecycle transitions *)

OnConfigure ==
  /\ lifecycle = "UNCONFIGURED"
  /\ lifecycle' = "INACTIVE"
  /\ endpoints' = TRUE
  /\ publishing' = FALSE
  /\ UNCHANGED <<is_processing_allowed, e_stop_active, current_state, last_fdir_state,
                 hardware_contactors_closed, contactors, motor, safety_state>>

OnActivate ==
  /\ lifecycle = "INACTIVE"
  /\ lifecycle' = "ACTIVE"
  /\ is_processing_allowed' = TRUE
  /\ publishing' = TRUE
  /\ SetHardwareContactors(FALSE, TRUE)
  /\ UNCHANGED <<endpoints, e_stop_active, current_state, last_fdir_state, motor, safety_state>>

(* Seeded fault: the publishers are silenced before the contactors open.   *)
OnDeactivateSilentFirst ==
  /\ lifecycle = "ACTIVE"
  /\ lifecycle' = "INACTIVE"
  /\ is_processing_allowed' = FALSE
  /\ SetHardwareContactors(FALSE, FALSE)
  /\ publishing' = FALSE
  /\ UNCHANGED <<endpoints, e_stop_active, current_state, last_fdir_state, motor, safety_state>>

OnDeactivate ==
  /\ lifecycle = "ACTIVE"
  /\ lifecycle' = "INACTIVE"
  /\ is_processing_allowed' = FALSE
  /\ SetHardwareContactors(FALSE, publishing)
  /\ publishing' = FALSE
  /\ UNCHANGED <<endpoints, e_stop_active, current_state, last_fdir_state, motor, safety_state>>

OnCleanup ==
  /\ lifecycle = "INACTIVE"
  /\ lifecycle' = "UNCONFIGURED"
  /\ is_processing_allowed' = FALSE
  /\ SetHardwareContactors(FALSE, publishing)
  /\ endpoints' = FALSE
  /\ publishing' = FALSE
  /\ UNCHANGED <<e_stop_active, current_state, last_fdir_state, motor, safety_state>>

(* Nothing but the gate and the contactors: services and publishers stay.  *)
OnShutdown ==
  /\ lifecycle # "FINALIZED"
  /\ lifecycle' = "FINALIZED"
  /\ is_processing_allowed' = FALSE
  /\ SetHardwareContactors(FALSE, publishing)
  /\ UNCHANGED <<endpoints, publishing, e_stop_active, current_state, last_fdir_state,
                 motor, safety_state>>

-----------------------------------------------------------------------------
(* Callbacks; all but the reset are gated by is_processing_allowed *)

(* Seeded fault: the velocity is added to the last command.                *)
SmoothedVelAccumulating(v) ==
  /\ is_processing_allowed /\ publishing
  /\ motor' = IF MotionForbidden THEN 0 ELSE motor + v
  /\ UNCHANGED <<node, e_stop_active, current_state, last_fdir_state,
                 hardware_contactors_closed, contactors, safety_state>>

(* Seeded fault: a velocity that may pass also restores the power, on the  *)
(* word of the last report, which may date from an earlier activation.     *)
SmoothedVelPowering(v) ==
  /\ is_processing_allowed /\ publishing
  /\ motor' = IF MotionForbidden THEN 0 ELSE Clamp(v, CurrentLimit)
  /\ IF MotionForbidden \/ last_fdir_state # STATE_SOFTWARE_OK
     THEN UNCHANGED <<hardware_contactors_closed, contactors>>
     ELSE SetHardwareContactors(TRUE, publishing)
  /\ UNCHANGED <<node, e_stop_active, current_state, last_fdir_state, safety_state>>

SmoothedVel(v) ==
  /\ is_processing_allowed /\ publishing
  /\ motor' = IF MotionForbidden THEN 0 ELSE Clamp(v, CurrentLimit)
  /\ UNCHANGED <<node, e_stop_active, current_state, last_fdir_state,
                 hardware_contactors_closed, contactors, safety_state>>

(* PROTECTIVE_STOP, DEGRADED and RECONFIGURED set the state latched or not *)
(* and keep the contactors closed unless latched.                          *)
HealthKeepsPower(level) ==
  /\ current_state' = IF level = STATE_PROTECTIVE_STOP THEN "PROTECTIVE_STOP" ELSE "DEGRADED"
  /\ IF level = STATE_DEGRADED THEN UNCHANGED motor ELSE PublishStop
  /\ IF e_stop_active THEN UNCHANGED <<hardware_contactors_closed, contactors>>
                      ELSE SetHardwareContactors(TRUE, publishing)
  /\ UNCHANGED e_stop_active

HealthStartup ==
  /\ current_state' = "PROTECTIVE_STOP"
  /\ PublishStop
  /\ SetHardwareContactors(FALSE, publishing)
  /\ UNCHANGED e_stop_active

HealthEmergency ==
  /\ e_stop_active' = TRUE
  /\ current_state' = "EMERGENCY"
  /\ PublishStop
  /\ SetHardwareContactors(FALSE, publishing)

(* Seeded fault: SOFTWARE_OK does not look at the latch.                   *)
HealthOkUnlatched ==
  /\ current_state' = "NORMAL"
  /\ SetHardwareContactors(TRUE, publishing)
  /\ UNCHANGED <<e_stop_active, motor>>

(* Seeded fault: an OK that does not change the state is ignored.          *)
HealthOkOnChange ==
  /\ IF e_stop_active \/ current_state = "NORMAL"
     THEN UNCHANGED <<current_state, hardware_contactors_closed, contactors>>
     ELSE current_state' = "NORMAL" /\ SetHardwareContactors(TRUE, publishing)
  /\ UNCHANGED <<e_stop_active, motor>>

HealthOk ==
  /\ IF e_stop_active
     THEN UNCHANGED <<current_state, hardware_contactors_closed, contactors>>
     ELSE current_state' = "NORMAL" /\ SetHardwareContactors(TRUE, publishing)
  /\ UNCHANGED <<e_stop_active, motor>>

HealthUnknown ==
  /\ SetHardwareContactors(FALSE, publishing)
  /\ UNCHANGED <<e_stop_active, current_state, motor>>

HealthState(level) ==
  /\ is_processing_allowed
  /\ last_fdir_state' = level
  /\ \/ level = STATE_SYSTEM_STARTUP /\ HealthStartup
     \/ level = STATE_EMERGENCY /\ HealthEmergency
     \/ /\ level \in {STATE_PROTECTIVE_STOP, STATE_DEGRADED, STATE_RECONFIGURED}
        /\ HealthKeepsPower(level)
     \/ level = STATE_SOFTWARE_OK /\ HealthOk
     \/ level = UNKNOWN_LEVEL /\ HealthUnknown
  /\ UNCHANGED <<node, safety_state>>

(* Every report of the mux makes the node publish its own state. *)
MuxState ==
  /\ is_processing_allowed
  /\ PublishGlobalState(e_stop_active, current_state)
  /\ UNCHANGED <<node, e_stop_active, current_state, last_fdir_state,
                 hardware_contactors_closed, contactors, motor>>

(* Odometry faster than 0.05 m/s during a protective stop escalates; no    *)
(* stop command is sent. Slower odometry and other states change nothing.  *)
OdomMoving ==
  /\ is_processing_allowed
  /\ current_state = "PROTECTIVE_STOP"
  /\ e_stop_active' = TRUE
  /\ current_state' = "EMERGENCY"
  /\ SetHardwareContactors(FALSE, publishing)
  /\ PublishGlobalState(TRUE, "EMERGENCY")
  /\ UNCHANGED <<node, last_fdir_state, motor>>

EStop ==
  /\ is_processing_allowed
  /\ e_stop_active' = TRUE
  /\ current_state' = "EMERGENCY"
  /\ PublishStop
  /\ SetHardwareContactors(FALSE, publishing)
  /\ PublishGlobalState(TRUE, "EMERGENCY")
  /\ UNCHANGED <<node, last_fdir_state>>

(* The one callback that does not look at is_processing_allowed: it needs  *)
(* only its service to exist.                                              *)
EStopReset ==
  /\ endpoints
  /\ current_state = "EMERGENCY" \/ e_stop_active
  /\ current_state' = "NORMAL"
  /\ e_stop_active' = FALSE
  /\ SetHardwareContactors(TRUE, publishing)
  /\ PublishGlobalState(FALSE, "NORMAL")
  /\ UNCHANGED <<node, last_fdir_state, motor>>

Transitions == OnConfigure \/ OnActivate \/ OnDeactivate \/ OnCleanup \/ OnShutdown

Callbacks ==
  \/ \E v \in Velocity : SmoothedVel(v)
  \/ \E level \in HealthLevel : HealthState(level)
  \/ MuxState
  \/ OdomMoving
  \/ EStop
  \/ EStopReset

Next == Transitions \/ Callbacks

Spec == Init /\ [][Next]_vars

(* The process dies without running its destructor and is launched again:  *)
(* the node is new, contactors and motor driver hold what they were told.  *)
Crash ==
  /\ lifecycle' = "UNCONFIGURED"
  /\ endpoints' = FALSE
  /\ publishing' = FALSE
  /\ is_processing_allowed' = FALSE
  /\ e_stop_active' = FALSE
  /\ current_state' = "NORMAL"
  /\ last_fdir_state' = UNKNOWN_LEVEL
  /\ hardware_contactors_closed' = FALSE
  /\ UNCHANGED <<contactors, motor, safety_state>>

CrashSpec == Init /\ [][Next \/ Crash]_vars

-----------------------------------------------------------------------------
(* Invariants *)

(* The interlock (estop_callback, health_state_callback, odom_callback     *)
(* against every branch that closes contactors): while the latch is set    *)
(* the contactors are open, and the node knows it.                         *)
EStopInterlock ==
  e_stop_active => ~contactors /\ ~hardware_contactors_closed

(* No command outlives the state that forbids it: in every stopping state, *)
(* entered by whichever callback and carried through whichever lifecycle   *)
(* transitions, the motor driver's last command is zero (publish_stop,     *)
(* which odom_callback omits).                                             *)
StoppedMeansZero == MotionForbidden => motor = 0

(* The deduplication in set_hardware_contactors is safe as long as the     *)
(* node's belief errs on one side only: closed contactors are believed     *)
(* closed, so that a command to open is never swallowed.                   *)
BeliefCoversContactors == contactors => hardware_contactors_closed

(* A node that is not configured, or deactivated, has left the contactors  *)
(* open (on_deactivate opens them before it silences the publisher), and   *)
(* EMERGENCY is never entered without the latch.                           *)
InactiveMeansOpen ==
  /\ lifecycle \in {"UNCONFIGURED", "INACTIVE"} => ~contactors
  /\ current_state = "EMERGENCY" => e_stop_active

-----------------------------------------------------------------------------
(* Action properties *)

(* Whatever arrives, and through deactivation, cleanup and a new           *)
(* activation, only estop_reset_callback clears the latch.                 *)
OnlyResetClearsLatch == [][e_stop_active /\ ~e_stop_active' => EStopReset]_vars

(* Power is switched on by the reset service, or by handling a report of   *)
(* FDIR that permits it, with a clear latch (health_state_callback,        *)
(* estop_reset_callback): no transition, no other callback and no other    *)
(* report does it, also not on the word of a report that was handled       *)
(* earlier, before a deactivation. (Reports are handled behind the gate;   *)
(* the reset works also in a node that has been shut down.)                *)
PowerUpAuthorised ==
  [][~contactors /\ contactors' =>
       \/ EStopReset
       \/ /\ ~e_stop_active
          /\ \E level \in {STATE_SOFTWARE_OK, STATE_DEGRADED, STATE_RECONFIGURED,
                          STATE_PROTECTIVE_STOP} : HealthState(level)]_vars

Interlock == INSTANCE SafetyInterlock
               WITH latched <- e_stop_active, powered <- contactors, commanded <- motor # 0

(* The node implements the abstract interlock. *)
ImplementsInterlock == Interlock!Spec

-----------------------------------------------------------------------------
(* What the documentation says and the code does not do *)

(* test_safety_logic.cpp: "Contactors remained closed during E-STOP!"      *)
EStopOpensContactors == e_stop_active => ~contactors
=============================================================================
