------------------------------ MODULE TwistMux ------------------------------
(***************************************************************************)
(* TwistMuxNode of mona_control: arbitration between the operator          *)
(* (cmd_teleop) and Nav2 (cmd_nav), every callback as one step, which      *)
(* mux_mutex_ gives for the commands and the loop but not for the flags.   *)
(*                                                                         *)
(* The two time stamps are kept as ages: what now() - last_..._time_       *)
(* yields, counted in units of the clock and saturated where no comparison *)
(* of the code tells the values apart. A velocity is one axis of a Twist.  *)
(* The moving average with 0 < ema_alpha <= 1 is any value from the old    *)
(* velocity to the target.                                                 *)
(***************************************************************************)
EXTENDS Integers

CONSTANTS
  Velocity,             \* velocities the two sources may send
  cmd_timeout,          \* parameters read by on_configure
  manual_timeout,
  max_speed_normal,
  max_speed_degraded

ASSUME VelocityAssumption == Velocity \subseteq Int /\ 0 \in Velocity
ASSUME TimeoutAssumption ==       \* 0.5 s and 2.0 s as launched
  cmd_timeout \in Nat /\ manual_timeout \in Nat /\ cmd_timeout < manual_timeout
ASSUME LimitAssumption == max_speed_normal \in Nat /\ max_speed_degraded \in Nat

TwistMuxState == {"UCFG", "IDLE", "MANUAL", "AUTONOMOUS", "BLOCKED"}
Lifecycle == {"UNCONFIGURED", "INACTIVE", "ACTIVE", "FINALIZED", "CRASHED"}
FdirLevel == {"STARTUP", "SOFTWARE_OK", "DEGRADED", "RECONFIGURED", "PROTECTIVE_STOP", "EMERGENCY"}

VARIABLES
  lifecycle,          \* primary state; CRASHED: the process has terminated
  endpoints,          \* subscriptions and timer exist
  publishing,         \* smooth_pub_ and state_pub_ are activated
  is_fdir_blocked,
  is_estop_blocked,
  is_safety_blocked,
  is_degraded,
  current_state,
  teleop_age,         \* now - last_teleop_time_
  nav_age,            \* now - last_nav_time_
  last_teleop_msg,
  last_nav_msg,
  target_vel,
  current_vel,        \* also the last value on cmd_vel_smoothed
  nav_goal            \* Nav2 is executing a goal

node  == <<lifecycle, endpoints, publishing>>
flags == <<is_fdir_blocked, is_estop_blocked, is_safety_blocked, is_degraded>>
input == <<teleop_age, nav_age, last_teleop_msg, last_nav_msg>>
drive == <<target_vel, current_vel>>
vars  == <<node, flags, current_state, input, drive, nav_goal>>

AgeBound == manual_timeout + cmd_timeout + 1

Least(a, b) == IF a < b THEN a ELSE b
Greatest(a, b) == IF a < b THEN b ELSE a

Clamp(v, limit) == IF v > limit THEN limit ELSE IF v < -limit THEN -limit ELSE v

TypeOK ==
  /\ lifecycle \in Lifecycle
  /\ endpoints \in BOOLEAN
  /\ publishing \in BOOLEAN
  /\ is_fdir_blocked \in BOOLEAN
  /\ is_estop_blocked \in BOOLEAN
  /\ is_safety_blocked \in BOOLEAN
  /\ is_degraded \in BOOLEAN
  /\ current_state \in TwistMuxState
  /\ teleop_age \in 0..AgeBound
  /\ nav_age \in 0..AgeBound
  /\ last_teleop_msg \in Velocity
  /\ last_nav_msg \in Velocity
  /\ target_vel \in Velocity
  /\ current_vel \in Int
  /\ nav_goal \in BOOLEAN

(* The constructor stamps both times with now(). *)
Init ==
  /\ lifecycle = "UNCONFIGURED" /\ endpoints = FALSE /\ publishing = FALSE
  /\ is_fdir_blocked = FALSE /\ is_estop_blocked = FALSE
  /\ is_safety_blocked = FALSE /\ is_degraded = FALSE
  /\ current_state = "UCFG"
  /\ teleop_age = 0 /\ nav_age = 0
  /\ last_teleop_msg = 0 /\ last_nav_msg = 0
  /\ target_vel = 0 /\ current_vel = 0
  /\ nav_goal = FALSE

-----------------------------------------------------------------------------
(* Lifecycle transitions *)

OnConfigure ==
  /\ lifecycle = "UNCONFIGURED"
  /\ lifecycle' = "INACTIVE"
  /\ endpoints' = TRUE
  /\ UNCHANGED <<publishing, flags, current_state, input, drive, nav_goal>>

(* Seeded fault: activation keeps the time stamps of the construction.     *)
OnActivateKeepingTimes ==
  /\ lifecycle = "INACTIVE"
  /\ lifecycle' = "ACTIVE"
  /\ publishing' = TRUE
  /\ current_state' = "IDLE"
  /\ UNCHANGED <<endpoints, flags, input, drive, nav_goal>>

(* Seeded fault: the offset is added to now() instead of subtracted.       *)
OnActivateInFuture ==
  /\ lifecycle = "INACTIVE"
  /\ lifecycle' = "ACTIVE"
  /\ publishing' = TRUE
  /\ teleop_age' = -(manual_timeout + 1)
  /\ nav_age' = -(manual_timeout + 1)
  /\ current_state' = "IDLE"
  /\ UNCHANGED <<endpoints, flags, last_teleop_msg, last_nav_msg, drive, nav_goal>>

(* The time stamps are put in the past; the messages and the filter keep   *)
(* what an earlier activation left in them.                                *)
OnActivate ==
  /\ lifecycle = "INACTIVE"
  /\ lifecycle' = "ACTIVE"
  /\ publishing' = TRUE
  /\ teleop_age' = manual_timeout + 1
  /\ nav_age' = manual_timeout + 1
  /\ current_state' = "IDLE"
  /\ UNCHANGED <<endpoints, flags, last_teleop_msg, last_nav_msg, drive, nav_goal>>

OnDeactivate ==
  /\ lifecycle = "ACTIVE"
  /\ lifecycle' = "INACTIVE"
  /\ publishing' = FALSE
  /\ UNCHANGED <<endpoints, flags, current_state, input, drive, nav_goal>>

OnCleanup ==
  /\ lifecycle = "INACTIVE"
  /\ lifecycle' = "UNCONFIGURED"
  /\ endpoints' = FALSE
  /\ publishing' = FALSE
  /\ UNCHANGED <<flags, current_state, input, drive, nav_goal>>

(* on_shutdown does nothing: timer, subscriptions and publishers live on.  *)
OnShutdown ==
  /\ lifecycle \notin {"FINALIZED", "CRASHED"}
  /\ lifecycle' = "FINALIZED"
  /\ UNCHANGED <<endpoints, publishing, flags, current_state, input, drive, nav_goal>>

-----------------------------------------------------------------------------
(* Subscriptions: none of them looks at the lifecycle state *)

FdirState(level) ==
  /\ endpoints
  /\ is_degraded' = (level = "DEGRADED")
  /\ is_fdir_blocked' = (level \in {"EMERGENCY", "PROTECTIVE_STOP", "RECONFIGURED"})
  /\ is_safety_blocked' = (is_fdir_blocked' \/ is_estop_blocked)
  /\ UNCHANGED <<node, is_estop_blocked, current_state, input, drive, nav_goal>>

(* Seeded fault: the verdict of the other overseer is overwritten.         *)
SafetyStateAlone(emergency) ==
  /\ endpoints
  /\ is_estop_blocked' = emergency
  /\ is_safety_blocked' = emergency
  /\ UNCHANGED <<node, is_fdir_blocked, is_degraded, current_state, input, drive, nav_goal>>

SafetyState(emergency) ==
  /\ endpoints
  /\ is_estop_blocked' = emergency
  /\ is_safety_blocked' = (is_fdir_blocked \/ is_estop_blocked')
  /\ UNCHANGED <<node, is_fdir_blocked, is_degraded, current_state, input, drive, nav_goal>>

(* Seeded fault: the zero commands of an idle gamepad extend the lockout.  *)
TeleopAfterZeroSpam(v) ==
  /\ endpoints /\ ~is_safety_blocked
  /\ last_teleop_msg' = v
  /\ teleop_age' = 0
  /\ current_state' = IF v = 0 THEN current_state ELSE "MANUAL"
  /\ nav_goal' = (nav_goal /\ (v = 0 \/ current_state # "AUTONOMOUS"))
  /\ UNCHANGED <<node, flags, nav_age, last_nav_msg, drive>>

(* A zero command is stored, but neither takes over nor extends the        *)
(* lockout; a takeover cancels the goal only if it interrupts AUTONOMOUS.  *)
Teleop(v) ==
  /\ endpoints /\ ~is_safety_blocked
  /\ last_teleop_msg' = v
  /\ IF v = 0
     THEN UNCHANGED <<teleop_age, current_state, nav_goal>>
     ELSE /\ teleop_age' = 0
          /\ current_state' = "MANUAL"
          /\ nav_goal' = (nav_goal /\ current_state # "AUTONOMOUS")
  /\ UNCHANGED <<node, flags, nav_age, last_nav_msg, drive>>

(* The time is stamped before the lockout is looked at. *)
Nav(v) ==
  /\ endpoints /\ ~is_safety_blocked
  /\ nav_age' = 0
  /\ IF teleop_age < manual_timeout
     THEN UNCHANGED <<current_state, last_nav_msg>>
     ELSE current_state' = "AUTONOMOUS" /\ last_nav_msg' = v
  /\ UNCHANGED <<node, flags, teleop_age, last_teleop_msg, drive, nav_goal>>

-----------------------------------------------------------------------------
(* The control loop, every 10 ms *)

(* Seeded fault: the watchdog never fires.                                 *)
NeverSilent == FALSE

Silent == teleop_age > cmd_timeout /\ nav_age > cmd_timeout

CurrentLimit == IF is_degraded THEN max_speed_degraded ELSE max_speed_normal

Smoothed(target) ==
  {Clamp(v, CurrentLimit) : v \in Least(current_vel, target)..Greatest(current_vel, target)}

(* What every completed pass does: publish the state, filter, clamp,       *)
(* publish the velocity.                                                   *)
Drive(target) ==
  /\ target_vel' = target
  /\ current_vel' \in Smoothed(target)
  /\ UNCHANGED <<node, flags, input, nav_goal>>

LoopBlocked ==
  /\ publishing /\ is_safety_blocked
  /\ current_state' = "BLOCKED"
  /\ Drive(0)

(* Seeded fault: going idle leaves the set-point as it was.                *)
LoopIdleKeepingTarget ==
  /\ publishing /\ ~is_safety_blocked /\ Silent
  /\ current_state' = "IDLE"
  /\ Drive(target_vel)

LoopIdle ==
  /\ publishing /\ ~is_safety_blocked /\ Silent
  /\ current_state' = "IDLE"
  /\ Drive(0)

LoopRoute ==
  /\ publishing /\ ~is_safety_blocked /\ ~Silent
  /\ current_state \in {"MANUAL", "AUTONOMOUS"}
  /\ Drive(IF current_state = "MANUAL" THEN last_teleop_msg ELSE last_nav_msg)
  /\ UNCHANGED current_state

(* Any other state throws out of the timer callback, which ends the        *)
(* process. Nothing relaunches it.                                         *)
LoopThrow ==
  /\ publishing /\ ~is_safety_blocked /\ ~Silent
  /\ current_state \notin {"MANUAL", "AUTONOMOUS"}
  /\ lifecycle' = "CRASHED"
  /\ endpoints' = FALSE /\ publishing' = FALSE
  /\ UNCHANGED <<flags, current_state, input, drive, nav_goal>>

ControlLoop == LoopBlocked \/ LoopIdle \/ LoopRoute \/ LoopThrow

-----------------------------------------------------------------------------
(* The environment *)

Elapse ==
  /\ lifecycle # "CRASHED"
  /\ teleop_age' = Least(teleop_age + 1, AgeBound)
  /\ nav_age' = Least(nav_age + 1, AgeBound)
  /\ UNCHANGED <<node, flags, current_state, last_teleop_msg, last_nav_msg, drive, nav_goal>>

(* Nav2 accepts a goal. *)
Navigate ==
  /\ lifecycle # "CRASHED"
  /\ nav_goal' = TRUE
  /\ UNCHANGED <<node, flags, current_state, input, drive>>

Transitions == OnConfigure \/ OnActivate \/ OnDeactivate \/ OnCleanup \/ OnShutdown

Messages ==
  \/ \E level \in FdirLevel : FdirState(level)
  \/ \E emergency \in BOOLEAN : SafetyState(emergency)
  \/ \E v \in Velocity : Teleop(v) \/ Nav(v)

Next == Transitions \/ Messages \/ ControlLoop \/ Elapse \/ Navigate

Spec == Init /\ [][Next]_vars

(* The wall timer keeps firing and the clock keeps running. *)
FairSpec == Spec /\ WF_vars(ControlLoop) /\ WF_vars(Elapse)

-----------------------------------------------------------------------------
(* Invariants *)

(* The manual lockout: navigation drives only when the operator has been   *)
(* silent for manual_takeover_time, whatever reactivations and blockades   *)
(* lie between (nav_callback, teleop_callback, on_activate).               *)
LockoutRespected == current_state = "AUTONOMOUS" => teleop_age >= manual_timeout

(* Fresh navigation traffic that did not win was received inside the       *)
(* lockout. It bounds how long such traffic can keep an outdated manual    *)
(* command, or an IDLE state, in front of the routing.                     *)
FreshNavMeansLockout ==
  current_state \notin {"AUTONOMOUS", "BLOCKED"} /\ nav_age <= cmd_timeout
    => teleop_age < manual_timeout + nav_age

(* The throw of control_loop is never reached with a state the enumeration *)
(* does not route or with UCFG, and from IDLE only inside the lockout,     *)
(* with the operator silent and navigation traffic fresh.                  *)
ThrowWindow ==
  lifecycle = "CRASHED" =>
    \/ current_state = "BLOCKED"
    \/ /\ current_state = "IDLE"
       /\ cmd_timeout < teleop_age /\ teleop_age < manual_timeout + cmd_timeout
       /\ nav_age <= cmd_timeout

-----------------------------------------------------------------------------
(* Action properties *)

Magnitude(v) == IF v < 0 THEN -v ELSE v

(* While the mux stays blocked no message, lifecycle transition or pass of *)
(* the loop selects a source or speeds the robot up.                       *)
BlockedNeverAccelerates ==
  [][is_safety_blocked /\ is_safety_blocked'
       => /\ Magnitude(current_vel') <= Magnitude(current_vel)
          /\ current_state' \in {current_state, "IDLE", "BLOCKED"}]_vars

(* The set-point the loop follows is not arbitrarily old: a navigation     *)
(* command at most cmd_timeout, a manual one less than the two timeouts    *)
(* together: refused navigation commands keep the watchdog quiet.          *)
BoundedStaleness ==
  [][LoopRoute =>
       IF current_state = "AUTONOMOUS" THEN nav_age <= cmd_timeout
                                       ELSE teleop_age < manual_timeout + cmd_timeout]_vars

Source == INSTANCE VelocitySource
            WITH on <- publishing, fdir_blocked <- is_fdir_blocked,
                 estop_blocked <- is_estop_blocked, degraded <- is_degraded,
                 speed <- current_vel

(* Towards the safety node the multiplexer is a source of velocities within *)
(* the limit in force that only gets slower while FDIR or the safety node   *)
(* blocks it, although it decides by a third flag (is_safety_blocked_) and  *)
(* keeps old commands, target and filter through blockades and transitions. *)
ImplementsSource == Source!Spec

-----------------------------------------------------------------------------
(* Liveness *)

(* The communication watchdog: as long as the node publishes, either a     *)
(* fresh command keeps arriving or the set-point returns to zero, however  *)
(* the blockade is raised and cleared meanwhile.                           *)
Watchdog == []<>(~publishing \/ ~Silent \/ target_vel = 0)

-----------------------------------------------------------------------------
(* What the documentation says and the code does not do *)

(* test_twist_mux_safety.cpp: "Verify recovery from EMERGENCY state back   *)
(* to Nominal".                                                            *)
RecoversFromBlock == ~(lifecycle = "CRASHED" /\ current_state = "BLOCKED")

(* safety_and_fdir.md: "Upon gamepad override, this echelon explicitly     *)
(* dispatches a CancelGoal request to the Nav2 server": an operator who    *)
(* takes over from navigation that is still sending has its goal cancelled.*)
OverrideCancelsGoal ==
  [][publishing /\ nav_age <= cmd_timeout
      /\ current_state # "MANUAL" /\ current_state' = "MANUAL" => ~nav_goal']_vars
=============================================================================
