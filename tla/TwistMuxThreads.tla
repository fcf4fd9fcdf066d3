--------------------------- MODULE TwistMuxThreads ---------------------------
(***************************************************************************)
(* TwistMuxNode of mona_control as component_container_mt runs it. Its     *)
(* subscriptions and the 10 ms timer are in one Reentrant group and run    *)
(* beside each other and beside themselves; the lifecycle transitions run  *)
(* in the default group, one at a time. mux_mutex_ covers the commands and *)
(* the loop, but neither the four flags, which are atomics, nor the        *)
(* transitions.                                                            *)
(*                                                                         *)
(* As in SafetyThreads a thread holds what is left of its callback. Time   *)
(* and velocities are kept only as far as the loop decides by them: is one *)
(* of the two time stamps younger than cmd_timeout, and does the set-point *)
(* come from a command. Whether navigation is within the manual lockout is *)
(* open here; TwistMux has the times. A node that is shut down is one that *)
(* makes no more transitions.                                              *)
(***************************************************************************)
EXTENDS Naturals, Sequences

CONSTANTS
  Reentrant,    \* threads that serve the Reentrant group
  Default,      \* the thread that serves the default group
  NoThread      \* holds the mutex when nobody does

ASSUME ThreadAssumption == Default \notin Reentrant /\ NoThread \notin Reentrant \cup {Default}

Thread == Reentrant \cup {Default}
TwistMuxState == {"UCFG", "IDLE", "MANUAL", "AUTONOMOUS", "BLOCKED"}
Publisher == {"null", "inactive", "active"}

VARIABLES
  process,              \* running, or how it ended
  endpoints,            \* the subscriptions and the timer exist
  smooth_pub,
  state_pub,            \* not null; whether it is activated decides nothing
  is_fdir_blocked, is_estop_blocked, is_safety_blocked,
  current_state,
  fresh,                \* a time stamp is younger than cmd_timeout
  driven,               \* target_vel_ is a command, not zero
  mux_mutex,            \* the thread that holds it, or NoThread
  todo                  \* Thread -> accesses its callback still makes

resources == <<endpoints, smooth_pub, state_pub>>
flags == <<is_fdir_blocked, is_estop_blocked, is_safety_blocked>>
drive == <<current_state, fresh, driven>>
vars == <<process, resources, flags, drive, mux_mutex, todo>>

TypeOK ==
  /\ process \in {"running", "threw", "segfault"}
  /\ endpoints \in BOOLEAN
  /\ smooth_pub \in Publisher /\ state_pub \in BOOLEAN
  /\ is_fdir_blocked \in BOOLEAN
  /\ is_estop_blocked \in BOOLEAN
  /\ is_safety_blocked \in BOOLEAN
  /\ current_state \in TwistMuxState
  /\ fresh \in BOOLEAN
  /\ driven \in BOOLEAN
  /\ mux_mutex \in Thread \cup {NoThread}
  /\ \A t \in Thread : Len(todo[t]) <= 4

(* The constructor stamps both times with now(). *)
Init ==
  /\ process = "running"
  /\ endpoints = FALSE /\ smooth_pub = "null" /\ state_pub = FALSE
  /\ is_fdir_blocked = FALSE /\ is_estop_blocked = FALSE /\ is_safety_blocked = FALSE
  /\ current_state = "UCFG" /\ fresh = TRUE /\ driven = FALSE
  /\ mux_mutex = NoThread
  /\ todo = [t \in Thread |-> <<>>]

-----------------------------------------------------------------------------
(* The callbacks as sequences of accesses *)

Op(name, value) == [op |-> name, arg |-> value]

Lock == <<Op("lock", "-")>>

(* Seeded fault: the flag that was just written is left out of the OR.     *)
CombineEstopOnly == <<Op("readEstop", "-")>>

(* is_fdir_blocked_ || is_estop_blocked_, the right side read only if the  *)
(* left one is clear; the write of the result follows from what was read.  *)
Combine == <<Op("readFdir", "-"), Op("readEstop", "-")>>

FdirState(blocked)   == <<Op("fdir", blocked)>> \o Combine
SafetyState(blocked) == <<Op("estop", blocked)>> \o Combine

(* A zero command of the operator changes nothing that is kept here. *)
Teleop == Lock \o <<Op("refuse", "-"), Op("takeOver", "-")>>
Nav    == Lock \o <<Op("refuse", "-"), Op("follow", "-")>>

(* Seeded fault: the loop does not take the mutex.                         *)
ControlLoopUnlocked ==
  <<Op("activated", "-"), Op("decide", TRUE), Op("manual", "-"), Op("autonomous", "-")>>

ControlLoop ==
  <<Op("activated", "-"), Op("lockAndAge", "-"), Op("manual", "-"), Op("autonomous", "-")>>

Publication == <<Op("report", "-"), Op("drive", "-")>>

OnConfigure ==
  <<Op("smooth", "inactive"), Op("state", TRUE), Op("endpoints", TRUE)>>

(* Seeded fault: activation leaves the state as the constructor set it.    *)
OnActivateKeepingState ==
  <<Op("smooth", "active"), Op("past", "-")>>

OnActivate == <<Op("smooth", "active"), Op("past", "-"), Op("idle", "-")>>

OnDeactivate == <<Op("smooth", "inactive")>>

OnCleanup == <<Op("endpoints", FALSE), Op("state", FALSE), Op("smooth", "null")>>

-----------------------------------------------------------------------------
(* Starting a callback *)

Start(t, callback) ==
  /\ todo[t] = <<>>
  /\ todo' = [todo EXCEPT ![t] = callback]
  /\ UNCHANGED <<process, resources, flags, drive, mux_mutex>>

ServeReport(t) ==
  /\ endpoints
  /\ \E blocked \in BOOLEAN : Start(t, FdirState(blocked)) \/ Start(t, SafetyState(blocked))

ServeCommand(t) == endpoints /\ (Start(t, Teleop) \/ Start(t, Nav))

ServeTimer(t) == endpoints /\ Start(t, ControlLoop)

(* The state machine of the lifecycle node: it follows the publishers. *)
ServeTransition ==
  \/ smooth_pub = "null"     /\ Start(Default, OnConfigure)
  \/ smooth_pub = "inactive" /\ (Start(Default, OnActivate) \/ Start(Default, OnCleanup))
  \/ smooth_pub = "active"   /\ Start(Default, OnDeactivate)

-----------------------------------------------------------------------------
(* One access of thread t *)

At(t, name) == todo[t] # <<>> /\ Head(todo[t]).op = name
Arg(t) == Head(todo[t]).arg

Continue(t) == todo' = [todo EXCEPT ![t] = Tail(@)]
Replace(t, rest) == todo' = [todo EXCEPT ![t] = rest]

(* The flags *)

WriteFlag(t) ==
  /\ \/ At(t, "fdir") /\ is_fdir_blocked' = Arg(t)
                      /\ UNCHANGED <<is_estop_blocked, is_safety_blocked>>
     \/ At(t, "estop") /\ is_estop_blocked' = Arg(t)
                       /\ UNCHANGED <<is_fdir_blocked, is_safety_blocked>>
     \/ At(t, "combined") /\ is_safety_blocked' = Arg(t)
                          /\ UNCHANGED <<is_fdir_blocked, is_estop_blocked>>
  /\ Continue(t)
  /\ UNCHANGED <<process, resources, drive, mux_mutex>>

ReadFlag(t) ==
  /\ \/ /\ At(t, "readFdir")
        /\ Replace(t, IF is_fdir_blocked THEN <<Op("combined", TRUE)>> ELSE Tail(todo[t]))
     \/ /\ At(t, "readEstop")
        /\ Replace(t, <<Op("combined", is_estop_blocked)>>)
  /\ UNCHANGED <<process, resources, flags, drive, mux_mutex>>

(* The mutex *)

Acquire(t) ==
  /\ At(t, "lock") /\ Continue(t)
  /\ mux_mutex = NoThread /\ mux_mutex' = t
  /\ UNCHANGED <<process, resources, flags, drive>>

Release(t) == mux_mutex' = IF mux_mutex = t THEN NoThread ELSE mux_mutex

Refuse(t) ==
  /\ At(t, "refuse")
  /\ IF is_safety_blocked THEN Replace(t, <<>>) /\ Release(t)
                          ELSE Continue(t) /\ UNCHANGED mux_mutex
  /\ UNCHANGED <<process, resources, flags, drive>>

TakeOver(t) ==
  /\ At(t, "takeOver") /\ Continue(t) /\ Release(t)
  /\ fresh' = TRUE
  /\ current_state' = "MANUAL"
  /\ UNCHANGED <<process, resources, flags, driven>>

(* The time is stamped also when the lockout then refuses the command. *)
Follow(t) ==
  /\ At(t, "follow") /\ Continue(t) /\ Release(t)
  /\ fresh' = TRUE
  /\ current_state' \in {current_state, "AUTONOMOUS"}
  /\ UNCHANGED <<process, resources, flags, driven>>

-----------------------------------------------------------------------------
(* The control loop *)

(* A publisher that has been reset is a null pointer. *)
Dereference(exists) == process' = IF exists THEN process ELSE "segfault"

TestActivated(t) ==
  /\ At(t, "activated")
  /\ Dereference(smooth_pub # "null")
  /\ Replace(t, IF smooth_pub = "active" THEN Tail(todo[t]) ELSE <<>>)
  /\ UNCHANGED <<resources, flags, drive, mux_mutex>>

(* The loop computes both ages as soon as it holds the mutex. *)
LockAndAge(t) ==
  /\ At(t, "lockAndAge")
  /\ Replace(t, <<Op("decide", fresh)>> \o Tail(todo[t]))
  /\ mux_mutex = NoThread /\ mux_mutex' = t
  /\ UNCHANGED <<process, resources, flags, drive>>

(* BLOCKED and IDLE are written with a zero set-point in a step of their   *)
(* own; the state is read once for each of the two it may route, and any   *)
(* other throws.                                                           *)
Decide(t) ==
  /\ At(t, "decide")
  /\ Replace(t, IF is_safety_blocked THEN <<Op("stop", "BLOCKED")>> \o Publication
                ELSE IF Arg(t) THEN Tail(todo[t])
                ELSE <<Op("stop", "IDLE")>> \o Publication)
  /\ UNCHANGED <<process, resources, flags, drive, mux_mutex>>

TestManual(t) ==
  /\ At(t, "manual")
  /\ Replace(t, IF current_state = "MANUAL" THEN <<Op("route", "-")>> \o Publication
                                            ELSE Tail(todo[t]))
  /\ UNCHANGED <<process, resources, flags, drive, mux_mutex>>

TestAutonomous(t) ==
  /\ At(t, "autonomous")
  /\ IF current_state = "AUTONOMOUS"
     THEN Replace(t, <<Op("route", "-")>> \o Publication) /\ UNCHANGED process
     ELSE UNCHANGED todo /\ process' = "threw"
  /\ UNCHANGED <<resources, flags, drive, mux_mutex>>

SetTarget(t) ==
  /\ \/ At(t, "stop") /\ current_state' = Arg(t) /\ driven' = FALSE
     \/ At(t, "route") /\ driven' = TRUE /\ UNCHANGED current_state
  /\ Continue(t)
  /\ UNCHANGED <<process, resources, flags, fresh, mux_mutex>>

(* publish_state *)
PublishState(t) ==
  /\ At(t, "report") /\ Continue(t)
  /\ Dereference(state_pub)
  /\ UNCHANGED <<resources, flags, drive, mux_mutex>>

PublishVelocity(t) ==
  /\ At(t, "drive") /\ Continue(t) /\ Release(t)
  /\ Dereference(smooth_pub # "null")
  /\ UNCHANGED <<resources, flags, drive>>

-----------------------------------------------------------------------------
(* The transitions: none of them takes the mutex *)

WriteResource(t) ==
  /\ \/ At(t, "smooth") /\ smooth_pub' = Arg(t) /\ UNCHANGED <<state_pub, endpoints>>
     \/ At(t, "state") /\ state_pub' = Arg(t) /\ UNCHANGED <<smooth_pub, endpoints>>
     \/ At(t, "endpoints") /\ endpoints' = Arg(t) /\ UNCHANGED <<smooth_pub, state_pub>>
  /\ Continue(t)
  /\ UNCHANGED <<process, flags, drive, mux_mutex>>

(* The second of the two stamps is what makes the loop find silence. *)
StampPast(t) ==
  /\ At(t, "past") /\ Continue(t)
  /\ fresh' = FALSE
  /\ UNCHANGED <<process, resources, flags, current_state, driven, mux_mutex>>

EnterIdle(t) ==
  /\ At(t, "idle") /\ Continue(t)
  /\ current_state' = "IDLE"
  /\ UNCHANGED <<process, resources, flags, fresh, driven, mux_mutex>>

Execute(t) ==
  \/ WriteFlag(t) \/ ReadFlag(t)
  \/ Acquire(t) \/ Refuse(t) \/ TakeOver(t) \/ Follow(t)
  \/ TestActivated(t) \/ LockAndAge(t) \/ Decide(t) \/ TestManual(t) \/ TestAutonomous(t)
  \/ SetTarget(t) \/ PublishState(t) \/ PublishVelocity(t)
  \/ WriteResource(t) \/ StampPast(t) \/ EnterIdle(t)

(* cmd_timeout passes without a command. *)
Elapse ==
  /\ fresh
  /\ fresh' = FALSE
  /\ UNCHANGED <<process, resources, flags, current_state, driven, mux_mutex, todo>>

Next ==
  /\ process = "running"
  /\ \/ \E t \in Reentrant : ServeReport(t) \/ ServeCommand(t) \/ ServeTimer(t)
     \/ ServeTransition
     \/ \E t \in Thread : Execute(t)
     \/ Elapse

Spec == Init /\ [][Next]_vars

(* A callback once started runs to its end, as long as the process lives.  *)
FairSpec == Spec /\ \A t \in Thread : WF_vars(process = "running" /\ Execute(t))

-----------------------------------------------------------------------------
(* Invariants *)

(* Why the loop may end the process. Besides the two states TwistMux knows *)
(* (ThrowWindow), it can find UCFG, which on_activate replaces only after  *)
(* it has activated the publisher the loop tests: but only during that     *)
(* first activation, and never a state a command has set.                  *)
ThrowCauses ==
  process = "threw" =>
    \/ current_state \in {"BLOCKED", "IDLE"}
    \/ current_state = "UCFG" /\ todo[Default] # <<>>

-----------------------------------------------------------------------------
(* Action property *)

(* The mux never reports BLOCKED while its set-point is a command: the     *)
(* mutex keeps passes of the loop, commands and a transition that rewrites *)
(* the state from coming between the decision and the report.              *)
BlockedReportIsTrue ==
  [][\A t \in Reentrant : PublishState(t) /\ current_state = "BLOCKED" => ~driven]_vars

-----------------------------------------------------------------------------
(* Liveness *)

(* The timer fires every 10 ms, FDIR reports every 100 ms and the safety   *)
(* node for every report of the mux: both are served again and again.      *)
Served ==
  /\ []<><<\E t \in Reentrant : ServeTimer(t)>>_vars
  /\ []<><<\E t \in Reentrant : ServeReport(t)>>_vars

(* Two callbacks compute is_safety_blocked_ from two flags without a lock, *)
(* so one can overwrite the other with what it read before, and the mux be *)
(* unblocked in an EMERGENCY. The loss is not for good: as long as timer   *)
(* and reports are served and either node stands by its verdict, the       *)
(* set-point of the publishing mux returns to zero and stays there.        *)
BlockReachesOutput ==
  Served /\ <>[](smooth_pub = "active") /\ (<>[]is_fdir_blocked \/ <>[]is_estop_blocked)
    => <>[](~driven)

-----------------------------------------------------------------------------
(* What the comments say and the code does not do *)

(* on_cleanup: "Cancel timer first to avoid Race Conditions and Segfaults" *)
CleanupAvoidsSegfault == process # "segfault"
=============================================================================
