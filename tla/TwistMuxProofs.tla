--------------------------- MODULE TwistMuxProofs ---------------------------
(***************************************************************************)
(* Proofs about TwistMux for any velocities, limits and timeouts: the      *)
(* manual lockout, the only ways into the throw, the age of what the loop  *)
(* follows, and that a blocked mux never speeds up.                        *)
(***************************************************************************)
EXTENDS TwistMux, TLAPS

(* A node that publishes has been activated; a dead process does nothing.  *)
Activated ==
  /\ publishing => current_state # "UCFG"
  /\ lifecycle = "CRASHED" => ~endpoints /\ ~publishing

(* IDLE is entered with the operator silent and left when he moves.        *)
IdleMeansReleased == current_state = "IDLE" => teleop_age > cmd_timeout

Arbitration ==
  /\ Activated
  /\ IdleMeansReleased
  /\ LockoutRespected
  /\ FreshNavMeansLockout
  /\ ThrowWindow

IInv == TypeOK /\ Arbitration

-----------------------------------------------------------------------------
(* The filter stays between the old velocity and the target, and the clamp *)
(* moves it towards zero at most.                                          *)

LEMMA ClampShrinks ==
  ASSUME NEW v \in Int
  PROVE  Clamp(v, CurrentLimit) \in Int /\ Magnitude(Clamp(v, CurrentLimit)) <= Magnitude(v)
BY LimitAssumption DEF Clamp, CurrentLimit, Magnitude

LEMMA DriveTyped ==
  ASSUME TypeOK, NEW target \in Velocity, Drive(target)
  PROVE  target_vel' \in Velocity /\ current_vel' \in Int
<1>1. target \in Int
  BY VelocityAssumption
<1>2. Least(current_vel, target) \in Int /\ Greatest(current_vel, target) \in Int
  BY <1>1 DEF Least, Greatest, TypeOK
<1>3. PICK v \in Least(current_vel, target)..Greatest(current_vel, target) :
         current_vel' = Clamp(v, CurrentLimit)
  BY DEF Drive, Smoothed
<1> QED BY <1>2, <1>3, ClampShrinks DEF Drive

LEMMA BrakingShrinks ==
  ASSUME TypeOK, Drive(0)
  PROVE  Magnitude(current_vel') <= Magnitude(current_vel)
<1>1. PICK v \in Least(current_vel, 0)..Greatest(current_vel, 0) :
         current_vel' = Clamp(v, CurrentLimit)
  BY DEF Drive, Smoothed
<1>2. current_vel \in Int /\ v \in Int
  BY DEF TypeOK, Least, Greatest
<1>3. Magnitude(v) <= Magnitude(current_vel)
  BY <1>1, <1>2 DEF Magnitude, Least, Greatest
<1>4. Magnitude(Clamp(v, CurrentLimit)) <= Magnitude(v) /\ Clamp(v, CurrentLimit) \in Int
  BY <1>2, ClampShrinks
<1> QED BY <1>1, <1>2, <1>3, <1>4 DEF Magnitude

-----------------------------------------------------------------------------
LEMMA InitInv == Init => IInv
<1> SUFFICES ASSUME Init PROVE IInv
  OBVIOUS
<1>1. 0 \in 0..AgeBound
  BY TimeoutAssumption DEF AgeBound
<1>2. TypeOK
  BY <1>1, VelocityAssumption DEF Init, TypeOK, Lifecycle, TwistMuxState
<1>3. Arbitration
  BY TimeoutAssumption
  DEF Init, Arbitration, Activated, IdleMeansReleased, LockoutRespected,
      FreshNavMeansLockout, ThrowWindow
<1> QED BY <1>2, <1>3 DEF IInv

LEMMA TransitionsInv == IInv /\ Transitions => IInv'
<1> SUFFICES ASSUME IInv, Transitions PROVE IInv'
  OBVIOUS
<1> USE TimeoutAssumption
        DEF IInv, Arbitration, Activated, IdleMeansReleased, LockoutRespected,
            FreshNavMeansLockout, ThrowWindow, TypeOK, Lifecycle, TwistMuxState,
            flags, input, drive
<1>1. CASE OnConfigure
  BY <1>1 DEF OnConfigure
<1>2. CASE OnActivate
  BY <1>2 DEF OnActivate, AgeBound
<1>3. CASE OnDeactivate
  BY <1>3 DEF OnDeactivate
<1>4. CASE OnCleanup
  BY <1>4 DEF OnCleanup
<1>5. CASE OnShutdown
  BY <1>5 DEF OnShutdown
<1> QED BY <1>1, <1>2, <1>3, <1>4, <1>5 DEF Transitions

LEMMA MessagesInv == IInv /\ Messages => IInv'
<1> SUFFICES ASSUME IInv, Messages PROVE IInv'
  OBVIOUS
<1> USE TimeoutAssumption
        DEF IInv, Arbitration, Activated, IdleMeansReleased, LockoutRespected,
            FreshNavMeansLockout, ThrowWindow, TypeOK, Lifecycle, TwistMuxState,
            node, flags, input, drive
<1>1. ASSUME NEW level \in FdirLevel, FdirState(level) PROVE IInv'
  BY <1>1 DEF FdirState
<1>2. ASSUME NEW emergency \in BOOLEAN, SafetyState(emergency) PROVE IInv'
  BY <1>2 DEF SafetyState
<1>3. ASSUME NEW v \in Velocity, Teleop(v) PROVE IInv'
  <2>1. CASE v = 0
    BY <1>3, <2>1 DEF Teleop
  <2>2. CASE v # 0
    BY <1>3, <2>2 DEF Teleop, AgeBound
  <2> QED BY <2>1, <2>2
<1>4. ASSUME NEW v \in Velocity, Nav(v) PROVE IInv'
  <2>1. CASE teleop_age < manual_timeout
    BY <1>4, <2>1 DEF Nav, AgeBound
  <2>2. CASE ~(teleop_age < manual_timeout)
    BY <1>4, <2>2 DEF Nav, AgeBound
  <2> QED BY <2>1, <2>2
<1> QED BY <1>1, <1>2, <1>3, <1>4 DEF Messages

LEMMA LoopInv == IInv /\ ControlLoop => IInv'
<1> SUFFICES ASSUME IInv, ControlLoop PROVE IInv'
  OBVIOUS
<1> USE TimeoutAssumption
        DEF IInv, Arbitration, Activated, IdleMeansReleased, LockoutRespected,
            FreshNavMeansLockout, ThrowWindow, node, flags, input
<1>0. 0 \in Velocity
  BY VelocityAssumption
<1>1. CASE LoopBlocked
  <2>1. TypeOK'
    BY <1>0, <1>1, DriveTyped DEF LoopBlocked, Drive, TypeOK, TwistMuxState
  <2> QED BY <1>1, <2>1 DEF LoopBlocked, Drive, TypeOK
<1>2. CASE LoopIdle
  <2>1. TypeOK'
    BY <1>0, <1>2, DriveTyped DEF LoopIdle, Drive, TypeOK, TwistMuxState
  <2> QED BY <1>2, <2>1 DEF LoopIdle, Drive, TypeOK, Silent
<1>3. CASE LoopRoute
  <2>1. PICK target \in Velocity : Drive(target)
    BY <1>3 DEF LoopRoute, TypeOK
  <2>2. TypeOK'
    BY <1>3, <2>1, DriveTyped DEF LoopRoute, Drive, TypeOK, TwistMuxState
  <2> QED BY <1>3, <2>1, <2>2 DEF LoopRoute, Drive, TypeOK
<1>4. CASE LoopThrow
  <2>1. TypeOK'
    BY <1>4 DEF LoopThrow, TypeOK, drive, Lifecycle
  <2>2. current_state \in {"IDLE", "BLOCKED"}
    BY <1>4 DEF LoopThrow, TypeOK, TwistMuxState
  <2>4. UNCHANGED <<current_state, teleop_age, nav_age>>
    BY <1>4 DEF LoopThrow
  <2>3. current_state = "IDLE" =>
          /\ nav_age <= cmd_timeout /\ cmd_timeout < teleop_age
          /\ teleop_age < manual_timeout + cmd_timeout
    BY <1>4 DEF LoopThrow, TypeOK, Silent, AgeBound
  <2>5. Activated' /\ IdleMeansReleased' /\ LockoutRespected' /\ FreshNavMeansLockout'
    BY <1>4, <2>4 DEF LoopThrow, TypeOK
  <2>6. ThrowWindow'
    BY <2>2, <2>3, <2>4
  <2> QED BY <2>1, <2>5, <2>6
<1> QED BY <1>1, <1>2, <1>3, <1>4 DEF ControlLoop

LEMMA Ageing ==
  ASSUME NEW bound \in Nat, NEW age \in 0..bound
  PROVE  /\ Least(age + 1, bound) \in 0..bound
         /\ Least(age + 1, bound) >= age
         /\ age < bound => Least(age + 1, bound) = age + 1
         /\ age = bound => Least(age + 1, bound) = bound
BY DEF Least

(* Ages grow together, but for the saturation, which no comparison sees.   *)
LEMMA ElapseInv == IInv /\ Elapse => IInv'
<1> SUFFICES ASSUME IInv, Elapse PROVE IInv'
  OBVIOUS
<1>0. AgeBound \in Nat
  BY TimeoutAssumption DEF AgeBound
<1>1. /\ teleop_age \in 0..AgeBound /\ teleop_age' \in 0..AgeBound
      /\ nav_age \in 0..AgeBound /\ nav_age' \in 0..AgeBound
      /\ teleop_age' >= teleop_age
      /\ teleop_age' = teleop_age + 1 \/ teleop_age = AgeBound
      /\ nav_age' = nav_age + 1 \/ (nav_age = AgeBound /\ nav_age' = AgeBound)
  <2>1. teleop_age \in 0..AgeBound /\ nav_age \in 0..AgeBound
    BY DEF IInv, TypeOK
  <2>2. teleop_age' = Least(teleop_age + 1, AgeBound) /\ nav_age' = Least(nav_age + 1, AgeBound)
    BY DEF Elapse
  <2>3. /\ teleop_age' \in 0..AgeBound /\ teleop_age' >= teleop_age
        /\ teleop_age < AgeBound => teleop_age' = teleop_age + 1
    BY <1>0, <2>1, <2>2, Ageing
  <2>4. /\ nav_age' \in 0..AgeBound
        /\ nav_age < AgeBound => nav_age' = nav_age + 1
        /\ nav_age = AgeBound => nav_age' = AgeBound
    BY <1>0, <2>1, <2>2, Ageing
  <2>5. (teleop_age < AgeBound \/ teleop_age = AgeBound) /\ (nav_age < AgeBound \/ nav_age = AgeBound)
    BY <1>0, <2>1
  <2>6. teleop_age' = teleop_age + 1 \/ teleop_age = AgeBound
    BY <2>3, <2>5
  <2>7. nav_age' = nav_age + 1 \/ (nav_age = AgeBound /\ nav_age' = AgeBound)
    BY <2>4, <2>5
  <2> QED BY <2>1, <2>3, <2>4, <2>6, <2>7
<1>2. TypeOK'
  BY <1>1 DEF Elapse, IInv, TypeOK, node, flags, drive
<1>3. UNCHANGED <<lifecycle, endpoints, publishing, current_state>> /\ lifecycle # "CRASHED"
  BY DEF Elapse, node
<1>4. FreshNavMeansLockout'
  <2>1. SUFFICES ASSUME current_state \notin {"AUTONOMOUS", "BLOCKED"}, nav_age' <= cmd_timeout
                 PROVE  teleop_age' < manual_timeout + nav_age'
    BY <1>3 DEF FreshNavMeansLockout
  <2>2. nav_age' = nav_age + 1
    BY <1>1, <2>1, TimeoutAssumption DEF AgeBound
  <2>3. teleop_age < manual_timeout + nav_age
    BY <1>1, <2>1, <2>2, TimeoutAssumption
    DEF IInv, Arbitration, FreshNavMeansLockout, AgeBound
  <2>4. teleop_age' = teleop_age + 1
    BY <1>1, <2>1, <2>2, <2>3, TimeoutAssumption DEF AgeBound
  <2> QED BY <1>1, <2>2, <2>3, <2>4, TimeoutAssumption DEF AgeBound
<1>5. Activated' /\ IdleMeansReleased' /\ LockoutRespected' /\ ThrowWindow'
  BY <1>1, <1>3, TimeoutAssumption
  DEF IInv, Arbitration, Activated, IdleMeansReleased, LockoutRespected, ThrowWindow, AgeBound
<1> QED BY <1>2, <1>4, <1>5 DEF IInv, Arbitration

LEMMA NextInv == IInv /\ [Next]_vars => IInv'
<1> SUFFICES ASSUME IInv, [Next]_vars PROVE IInv'
  OBVIOUS
<1> USE DEF IInv, Arbitration, Activated, IdleMeansReleased, LockoutRespected,
            FreshNavMeansLockout, ThrowWindow, TypeOK, node, flags, input, drive
<1>1. CASE Navigate
  BY <1>1 DEF Navigate
<1>2. CASE UNCHANGED vars
  BY <1>2 DEF vars
<1> QED BY <1>1, <1>2, TransitionsInv, MessagesInv, LoopInv, ElapseInv DEF Next

-----------------------------------------------------------------------------
(* The inductive invariant holds in every reachable state. *)
THEOREM Invariance == Spec => []IInv
BY InitInv, NextInv, PTL DEF Spec

(* Type correctness: in particular the ages stay within their saturation   *)
(* and the set-point is always a velocity some source sent, or zero.       *)
THEOREM TypeCorrect == Spec => []TypeOK
<1>1. IInv => TypeOK
  BY DEF IInv
<1> QED BY <1>1, Invariance, PTL

(* Navigation never drives inside the manual lockout of nav_callback.      *)
THEOREM LockoutCorrect == Spec => []LockoutRespected
<1>1. IInv => LockoutRespected
  BY DEF IInv, Arbitration
<1> QED BY <1>1, Invariance, PTL

(* Fresh navigation traffic that was refused was refused by the lockout.   *)
THEOREM FreshNavCorrect == Spec => []FreshNavMeansLockout
<1>1. IInv => FreshNavMeansLockout
  BY DEF IInv, Arbitration
<1> QED BY <1>1, Invariance, PTL

(* control_loop throws only after a blockade, or from IDLE with navigation *)
(* traffic inside the lockout.                                             *)
THEOREM ThrowCorrect == Spec => []ThrowWindow
<1>1. IInv => ThrowWindow
  BY DEF IInv, Arbitration
<1> QED BY <1>1, Invariance, PTL

(* The loop never follows a navigation command older than cmd_timeout, nor *)
(* a manual one as old as both timeouts together.                          *)
THEOREM StalenessCorrect == Spec => BoundedStaleness
<1>1. IInv /\ LoopRoute =>
        IF current_state = "AUTONOMOUS" THEN nav_age <= cmd_timeout
                                        ELSE teleop_age < manual_timeout + cmd_timeout
  BY TimeoutAssumption
  DEF IInv, TypeOK, Arbitration, LockoutRespected, FreshNavMeansLockout, LoopRoute, Silent,
      AgeBound
<1> QED BY <1>1, Invariance, PTL DEF BoundedStaleness

(* Nothing speeds up or selects a source while the blockade lasts.         *)
THEOREM BlockedCorrect == Spec => BlockedNeverAccelerates
<1>1. IInv /\ [Next]_vars =>
        (is_safety_blocked /\ is_safety_blocked'
           => /\ Magnitude(current_vel') <= Magnitude(current_vel)
              /\ current_state' \in {current_state, "IDLE", "BLOCKED"})
  <2> SUFFICES ASSUME TypeOK, [Next]_vars, is_safety_blocked, is_safety_blocked'
               PROVE  /\ Magnitude(current_vel') <= Magnitude(current_vel)
                      /\ current_state' \in {current_state, "IDLE", "BLOCKED"}
    BY DEF IInv
  <2>1. CASE LoopBlocked
    BY <2>1, BrakingShrinks DEF LoopBlocked
  <2>2. CASE ~LoopBlocked
    <3>1. current_vel' = current_vel /\ current_state' \in {current_state, "IDLE", "BLOCKED"}
      BY <2>2
      DEF Next, vars, Transitions, OnConfigure, OnActivate, OnDeactivate, OnCleanup, OnShutdown,
          Messages, FdirState, SafetyState, Teleop, Nav, ControlLoop, LoopIdle, LoopRoute,
          LoopThrow, Elapse, Navigate, drive
    <3> QED BY <3>1 DEF TypeOK, Magnitude
  <2> QED BY <2>1, <2>2
<1> QED BY <1>1, Invariance, PTL DEF Spec, BlockedNeverAccelerates

-----------------------------------------------------------------------------
(* The multiplexer implements the velocity source *)

(* The third flag is the disjunction of the two overseers. *)
FlagsAgree ==
  /\ is_fdir_blocked \in BOOLEAN /\ is_estop_blocked \in BOOLEAN
  /\ is_safety_blocked <=> is_fdir_blocked \/ is_estop_blocked

LEMMA FlagsInv == Spec => []FlagsAgree
<1>1. Init => FlagsAgree
  BY DEF Init, FlagsAgree
<1>2. FlagsAgree /\ [Next]_vars => FlagsAgree'
  <2> SUFFICES ASSUME FlagsAgree, [Next]_vars PROVE FlagsAgree'
    OBVIOUS
  <2>1. CASE UNCHANGED flags
    BY <2>1 DEF FlagsAgree, flags
  <2>2. ASSUME NEW level \in FdirLevel, FdirState(level) PROVE FlagsAgree'
    BY <2>2 DEF FdirState, FlagsAgree
  <2>3. ASSUME NEW emergency \in BOOLEAN, SafetyState(emergency) PROVE FlagsAgree'
    BY <2>3 DEF SafetyState, FlagsAgree
  <2> QED BY <2>1, <2>2, <2>3
        DEF Next, vars, Transitions, OnConfigure, OnActivate, OnDeactivate, OnCleanup, OnShutdown,
            Messages, Teleop, Nav, ControlLoop, LoopBlocked, LoopIdle, LoopRoute, LoopThrow,
            Drive, Elapse, Navigate
<1> QED BY <1>1, <1>2, PTL DEF Spec

(* A pass of the loop towards any set-point ends within the limit; towards *)
(* zero it only gets slower.                                               *)
LEMMA DriveWithinLimit ==
  ASSUME TypeOK, NEW target \in Velocity, Drive(target)
  PROVE  /\ -CurrentLimit <= current_vel' /\ current_vel' <= CurrentLimit
         /\ target = 0 => Source!Slower(current_vel')
<1>1. target \in Int /\ current_vel \in Int
  BY VelocityAssumption DEF TypeOK
<1>2. Least(current_vel, target) \in Int /\ Greatest(current_vel, target) \in Int
  BY <1>1 DEF Least, Greatest
<1>3. PICK v \in Least(current_vel, target)..Greatest(current_vel, target) :
         current_vel' = Clamp(v, CurrentLimit)
  BY DEF Drive, Smoothed
<1>4. v \in Int /\ CurrentLimit \in Nat
  BY <1>2, <1>3, LimitAssumption DEF CurrentLimit
<1>5. -CurrentLimit <= current_vel' /\ current_vel' <= CurrentLimit
  BY <1>3, <1>4 DEF Clamp
<1>6. ASSUME target = 0 PROVE Source!Slower(current_vel')
  <2>1. (0 <= v /\ v <= current_vel) \/ (current_vel <= v /\ v <= 0)
    BY <1>1, <1>3, <1>4, <1>6 DEF Least, Greatest
  <2> QED BY <1>1, <1>3, <1>4, <2>1 DEF Source!Slower, Clamp
<1> QED BY <1>5, <1>6

LEMMA LoopPublishes == TypeOK /\ FlagsAgree /\ ControlLoop => Source!Next
<1> SUFFICES ASSUME TypeOK, FlagsAgree, ControlLoop PROVE Source!Next
  OBVIOUS
<1>1. Source!Limit = CurrentLimit
  BY DEF Source!Limit, CurrentLimit
<1>2. ASSUME NEW target \in Velocity, Drive(target), publishing, Source!Blocked => target = 0
      PROVE  Source!Publish
  BY <1>1, <1>2, DriveWithinLimit DEF Source!Publish, Drive, node, flags
<1>3. CASE LoopBlocked
  BY <1>2, <1>3, VelocityAssumption DEF LoopBlocked, Source!Next
<1>4. CASE LoopIdle
  <2>1. ~Source!Blocked
    BY <1>4 DEF LoopIdle, FlagsAgree, Source!Blocked
  <2> QED BY <1>2, <1>4, <2>1, VelocityAssumption DEF LoopIdle, Source!Next
<1>5. CASE LoopRoute
  <2>1. ~Source!Blocked
    BY <1>5 DEF LoopRoute, FlagsAgree, Source!Blocked
  <2>2. last_teleop_msg \in Velocity /\ last_nav_msg \in Velocity
    BY DEF TypeOK
  <2> QED BY <1>2, <1>5, <2>1, <2>2 DEF LoopRoute, Source!Next
<1>6. CASE LoopThrow
  BY <1>6 DEF LoopThrow, flags, drive, Source!Next, Source!Switch
<1> QED BY <1>3, <1>4, <1>5, <1>6 DEF ControlLoop

LEMMA TransitionSwitches == TypeOK /\ Transitions => [Source!Next]_(Source!vars)
<1> SUFFICES ASSUME TypeOK, Transitions PROVE [Source!Next]_(Source!vars)
  OBVIOUS
<1>1. publishing' \in BOOLEAN /\ UNCHANGED flags /\ UNCHANGED drive
  BY DEF TypeOK, Transitions, OnConfigure, OnActivate, OnDeactivate, OnCleanup, OnShutdown
<1>2. Source!Switch
  BY <1>1 DEF Source!Switch, flags, drive
<1> QED BY <1>2 DEF Source!Next

LEMMA MessageReports == TypeOK /\ Messages => [Source!Next]_(Source!vars)
<1> SUFFICES ASSUME TypeOK, Messages PROVE [Source!Next]_(Source!vars)
  OBVIOUS
<1>1. ASSUME NEW level \in FdirLevel, FdirState(level) PROVE Source!Next
  <2> DEFINE stops == level \in {"EMERGENCY", "PROTECTIVE_STOP", "RECONFIGURED"}
             slows == level = "DEGRADED"
  <2>0. stops \in BOOLEAN /\ slows \in BOOLEAN
    OBVIOUS
  <2> HIDE DEF stops, slows
  <2>1. PICK blocks \in BOOLEAN : blocks = stops
    BY <2>0
  <2>2. PICK degrades \in BOOLEAN : degrades = slows
    BY <2>0
  <2>3. Source!HealthReport(blocks, degrades)
    BY <1>1, <2>1, <2>2 DEF FdirState, Source!HealthReport, node, drive, stops, slows
  <2> QED BY <2>3 DEF Source!Next
<1>2. ASSUME NEW emergency \in BOOLEAN, SafetyState(emergency) PROVE Source!Next
  <2>1. Source!SafetyReport(emergency)
    BY <1>2 DEF SafetyState, Source!SafetyReport, node, drive
  <2> QED BY <2>1 DEF Source!Next
<1>3. ASSUME NEW v \in Velocity, Teleop(v) \/ Nav(v) PROVE UNCHANGED Source!vars
  BY <1>3 DEF Teleop, Nav, node, flags, drive, Source!vars
<1> QED BY <1>1, <1>2, <1>3 DEF Messages

(* Every step of the node is a step of the source or changes nothing the   *)
(* nodes behind it can see.                                                *)
THEOREM MuxImplementsSource == Spec => ImplementsSource
<1>1. Init => Source!Init
  BY DEF Init, Source!Init
<1>2. TypeOK /\ FlagsAgree /\ [Next]_vars => [Source!Next]_(Source!vars)
  <2>1. UNCHANGED vars \/ Elapse \/ Navigate => UNCHANGED Source!vars
    BY DEF vars, node, flags, drive, Elapse, Navigate, Source!vars
  <2> QED BY <2>1, LoopPublishes, TransitionSwitches, MessageReports DEF Next
<1> QED BY <1>1, <1>2, TypeCorrect, FlagsInv, PTL DEF Spec, ImplementsSource, Source!Spec
=============================================================================
