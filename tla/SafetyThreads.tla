--------------------------- MODULE SafetyThreads ---------------------------
(***************************************************************************)
(* SafetyNode of mona_safety as component_container_mt runs it. The three  *)
(* subscriptions of the Reentrant group run in several threads at once;    *)
(* odometry, the two services and the lifecycle transitions share the      *)
(* default group, one at a time, but beside the others.                    *)
(*                                                                         *)
(* A callback is the sequence of its accesses to shared state; a thread    *)
(* holds what is left of the callback it runs and executes one access per  *)
(* step. current_state_ and hardware_contactors_closed_ are plain members  *)
(* written by several threads: they are read and written whole, which is   *)
(* what the supported builds make of this race. The node is configured     *)
(* throughout; SafetyNode has the remaining transitions.                   *)
(***************************************************************************)
EXTENDS Integers, Sequences

CONSTANTS
  Reentrant,    \* threads that serve the Reentrant group
  Default,      \* the thread that serves the default group
  Executors,    \* how the node may be run: in one thread as in the unit
                \* tests, or by component_container_mt
  Level,        \* the FdirState levels delivered under each executor
  Velocity      \* smoothed velocities delivered, within the limits

ASSUME ThreadAssumption == Default \notin Reentrant
ASSUME ExecutorAssumption == Executors \subseteq {"single", "multi"}
ASSUME VelocityAssumption == Velocity \subseteq Int /\ 0 \in Velocity
ASSUME LevelAssumption ==
  \A x \in Executors :
    Level[x] \subseteq {"STARTUP", "OK", "DEGRADED", "RECONFIGURED", "PROTECTIVE_STOP",
                       "EMERGENCY", "UNKNOWN"}

Thread == Reentrant \cup {Default}
State == {"NORMAL", "DEGRADED", "PROTECTIVE_STOP", "EMERGENCY"}

VARIABLES
  executor,                     \* which one runs the node
  is_processing_allowed,
  publishing,                   \* subset of the publishers that are activated
  e_stop_active,
  current_state,
  hardware_contactors_closed,
  contactors,                   \* last value on hardware/contactors
  motor,                        \* last velocity on hardware/motor_cmd
  safety_state,                 \* last value on system/safety_state
  todo                          \* Thread -> accesses its callback still makes

output == <<contactors, motor, safety_state>>
memory == <<is_processing_allowed, publishing, e_stop_active, current_state,
            hardware_contactors_closed>>
process == <<memory, output, todo>>
vars == <<executor, process>>

Publisher == {"motor", "state", "contactors"}

TypeOK ==
  /\ executor \in Executors
  /\ is_processing_allowed \in BOOLEAN
  /\ publishing \subseteq Publisher
  /\ e_stop_active \in BOOLEAN
  /\ current_state \in State
  /\ hardware_contactors_closed \in BOOLEAN
  /\ contactors \in BOOLEAN
  /\ motor \in Velocity
  /\ safety_state \in State \cup {"NONE"}
  /\ \A t \in Thread : Len(todo[t]) <= 8

(* Configured, not yet activated. *)
Init ==
  /\ executor \in Executors
  /\ is_processing_allowed = FALSE
  /\ publishing = {}
  /\ e_stop_active = FALSE
  /\ current_state = "NORMAL"
  /\ hardware_contactors_closed = FALSE
  /\ contactors = FALSE
  /\ motor = 0
  /\ safety_state = "NONE"
  /\ todo = [t \in Thread |-> <<>>]

-----------------------------------------------------------------------------
(* The callbacks as sequences of accesses *)

Op(name, value) == [op |-> name, arg |-> value]

Gate        == <<Op("gate", "-")>>
Allow(b)    == <<Op("allow", b)>>
Latch(b)    == <<Op("latch", b)>>
Enter(s)    == <<Op("enter", s)>>
Stop        == <<Op("stop", "-")>>
Report      == <<Op("report", "-")>>
IfUnlatched == <<Op("unlatched", "-")>>
Publish(p, b) == <<Op("publisher", [name |-> p, on |-> b])>>

(* set_hardware_contactors: compare, write the belief, publish. *)
SetContactors(b) == <<Op("compare", b), Op("believe", b), Op("command", b)>>

(* Seeded fault: the latch is not looked at.                               *)
SmoothedVelUnlatched(v) == Gate \o <<Op("moving", v), Op("drive", v)>>

(* Two reads decide whether the velocity may pass, a third one picks the   *)
(* limit, which no velocity of the model exceeds. That the motor publisher *)
(* is activated is tested when the command is published.                   *)
SmoothedVel(v) == Gate \o <<Op("notLatched", v), Op("moving", v), Op("drive", v)>>

HealthState(level) ==
  Gate \o
  CASE level = "STARTUP"         -> Enter("PROTECTIVE_STOP") \o Stop \o SetContactors(FALSE)
    [] level = "EMERGENCY"       -> Latch(TRUE) \o Enter("EMERGENCY") \o Stop
                                      \o SetContactors(FALSE)
    [] level = "PROTECTIVE_STOP" -> Enter("PROTECTIVE_STOP") \o Stop \o IfUnlatched
                                      \o SetContactors(TRUE)
    [] level = "DEGRADED"        -> Enter("DEGRADED") \o IfUnlatched \o SetContactors(TRUE)
    [] level = "OK"              -> IfUnlatched \o Enter("NORMAL") \o SetContactors(TRUE)
    [] level = "RECONFIGURED"    -> Enter("DEGRADED") \o Stop \o IfUnlatched
                                      \o SetContactors(TRUE)
    [] level = "UNKNOWN"         -> SetContactors(FALSE)

MuxState == Gate \o Report

(* Odometry above 0.05 m/s. *)
OdomMoving ==
  Gate \o <<Op("stopped", "-")>> \o Latch(TRUE) \o Enter("EMERGENCY")
       \o SetContactors(FALSE) \o Report

EStop ==
  Gate \o Latch(TRUE) \o Enter("EMERGENCY") \o Stop \o SetContactors(FALSE) \o Report

(* Seeded fault: power returns before the latch is cleared.                *)
EStopResetPowerFirst ==
  <<Op("emergency", "-")>> \o Enter("NORMAL") \o SetContactors(TRUE) \o Latch(FALSE) \o Report

EStopReset ==
  <<Op("emergency", "-")>> \o Enter("NORMAL") \o Latch(FALSE) \o SetContactors(TRUE) \o Report

OnActivate ==
  Allow(TRUE) \o Publish("motor", TRUE) \o Publish("state", TRUE)
    \o Publish("contactors", TRUE) \o SetContactors(FALSE)

OnDeactivate ==
  Allow(FALSE) \o SetContactors(FALSE) \o Publish("motor", FALSE)
    \o Publish("state", FALSE) \o Publish("contactors", FALSE)

-----------------------------------------------------------------------------
(* Starting a callback *)

AtRest == \A t \in Thread : todo[t] = <<>>

Start(t, callback) ==
  /\ todo[t] = <<>>
  /\ executor = "single" => AtRest
  /\ todo' = [todo EXCEPT ![t] = callback]
  /\ UNCHANGED <<memory, output>>

ServeSmoothed(t) == \E v \in Velocity : Start(t, SmoothedVel(v))

ServeReentrant(t) ==
  \/ ServeSmoothed(t)
  \/ \E level \in Level[executor] : Start(t, HealthState(level))
  \/ Start(t, MuxState)

ServeDefault ==
  \/ \E callback \in {OdomMoving, EStop, EStopReset} : Start(Default, callback)
  \/ is_processing_allowed /\ Start(Default, OnDeactivate)
  \/ ~is_processing_allowed /\ Start(Default, OnActivate)

-----------------------------------------------------------------------------
(* One access of thread t *)

At(t, name) == todo[t] # <<>> /\ Head(todo[t]).op = name
Arg(t) == Head(todo[t]).arg

Continue(t) == todo' = [todo EXCEPT ![t] = Tail(@)]
Replace(t, rest) == todo' = [todo EXCEPT ![t] = rest]

(* A read that lets the callback go on or makes it return. *)
Guard(t, name, holds) ==
  /\ At(t, name)
  /\ Replace(t, IF holds THEN Tail(todo[t]) ELSE <<>>)
  /\ UNCHANGED <<memory, output>>

ReadGate(t)      == Guard(t, "gate", is_processing_allowed)
ReadLatch(t)     == Guard(t, "unlatched", ~e_stop_active)
ReadStopped(t)   == Guard(t, "stopped", current_state = "PROTECTIVE_STOP")
ReadEmergency(t) == Guard(t, "emergency", current_state = "EMERGENCY" \/ e_stop_active)

(* A read that turns the velocity into a stop. *)
Veto(t, name, forbidden) ==
  /\ At(t, name)
  /\ Replace(t, IF forbidden THEN Stop ELSE Tail(todo[t]))
  /\ UNCHANGED <<memory, output>>

VetoLatch(t) == Veto(t, "notLatched", e_stop_active)
VetoState(t) == Veto(t, "moving", current_state \in {"PROTECTIVE_STOP", "EMERGENCY"})

WriteAllowed(t) ==
  /\ At(t, "allow") /\ Continue(t)
  /\ is_processing_allowed' = Arg(t)
  /\ UNCHANGED <<publishing, e_stop_active, current_state, hardware_contactors_closed, output>>

SwitchPublisher(t) ==
  /\ At(t, "publisher") /\ Continue(t)
  /\ publishing' = IF Arg(t).on THEN publishing \cup {Arg(t).name}
                                ELSE publishing \ {Arg(t).name}
  /\ UNCHANGED <<is_processing_allowed, e_stop_active, current_state,
                 hardware_contactors_closed, output>>

WriteLatch(t) ==
  /\ At(t, "latch") /\ Continue(t)
  /\ e_stop_active' = Arg(t)
  /\ UNCHANGED <<is_processing_allowed, publishing, current_state,
                 hardware_contactors_closed, output>>

WriteState(t) ==
  /\ At(t, "enter") /\ Continue(t)
  /\ current_state' = Arg(t)
  /\ UNCHANGED <<is_processing_allowed, publishing, e_stop_active,
                 hardware_contactors_closed, output>>

(* Nothing is published when the belief already has the value. *)
CompareBelief(t) ==
  /\ At(t, "compare")
  /\ Replace(t, IF hardware_contactors_closed = Arg(t)
                THEN SubSeq(todo[t], 4, Len(todo[t])) ELSE Tail(todo[t]))
  /\ UNCHANGED <<memory, output>>

(* Seeded fault: the write of the belief is lost.                          *)
WriteBeliefLost(t) ==
  /\ At(t, "believe") /\ Continue(t)
  /\ UNCHANGED <<memory, output>>

WriteBelief(t) ==
  /\ At(t, "believe") /\ Continue(t)
  /\ hardware_contactors_closed' = Arg(t)
  /\ UNCHANGED <<is_processing_allowed, publishing, e_stop_active, current_state, output>>

CommandContactors(t) ==
  /\ At(t, "command") /\ Continue(t)
  /\ contactors' = IF "contactors" \in publishing THEN Arg(t) ELSE contactors
  /\ UNCHANGED <<memory, motor, safety_state>>

(* An inactive lifecycle publisher drops what it is given. *)
CommandMotor(t) ==
  /\ At(t, "drive") \/ At(t, "stop")
  /\ Continue(t)
  /\ motor' = IF "motor" \notin publishing THEN motor
              ELSE IF At(t, "drive") THEN Arg(t) ELSE 0
  /\ UNCHANGED <<memory, contactors, safety_state>>

ReportState(t) ==
  /\ At(t, "report") /\ Continue(t)
  /\ safety_state' = IF "state" \notin publishing THEN safety_state
                     ELSE IF e_stop_active THEN "EMERGENCY" ELSE current_state
  /\ UNCHANGED <<memory, contactors, motor>>

Execute(t) ==
  \/ ReadGate(t) \/ ReadLatch(t) \/ ReadStopped(t) \/ ReadEmergency(t)
  \/ VetoLatch(t) \/ VetoState(t)
  \/ WriteAllowed(t) \/ SwitchPublisher(t) \/ WriteLatch(t) \/ WriteState(t)
  \/ CompareBelief(t) \/ WriteBelief(t)
  \/ CommandContactors(t) \/ CommandMotor(t) \/ ReportState(t)

Next ==
  /\ \/ \E t \in Reentrant : ServeReentrant(t)
     \/ ServeDefault
     \/ \E t \in Thread : Execute(t)
  /\ UNCHANGED executor

Spec == Init /\ [][Next]_vars

(* A callback once started runs to its end, and the mux, which publishes   *)
(* every 10 ms, gets its velocities served again and again.                *)
FairSpec ==
  /\ Spec
  /\ \A t \in Thread : WF_process(Execute(t))
  /\ \A t \in Reentrant : SF_process(ServeSmoothed(t))

-----------------------------------------------------------------------------
(* Invariants: what must hold whenever no callback is in progress. *)

(* test_safety_logic.cpp: "Contactors remained closed during E-STOP!"      *)
EStopHoldsContactors == AtRest /\ e_stop_active => ~contactors

(* safety_and_fdir.md on the latch: "The robot remains paralyzed until an  *)
(* explicit call to the /reset_e_stop service is made".                    *)
EStopHoldsMotor == AtRest /\ e_stop_active => motor = 0

(* safety_and_fdir.md on is_processing_allowed_: it "guarantees the        *)
(* suppression of zombie-callbacks" around a deactivation.                 *)
NoZombiePower == AtRest /\ ~is_processing_allowed => ~contactors

(* safety_and_fdir.md on the contactor flag: "The actual commanded state   *)
(* of the high-voltage motor relays": set_hardware_contactors trusts it to *)
(* skip a command to open.                                                 *)
BeliefIsCommand == AtRest /\ contactors => hardware_contactors_closed

(* All four promises depend on the executor and on nothing else: with one  *)
(* callback at a time they hold through every order of callbacks and       *)
(* transitions, with component_container_mt each of them fails.            *)
OneThreadKeepsPromises ==
  executor = "single" =>
    EStopHoldsContactors /\ EStopHoldsMotor /\ NoZombiePower /\ BeliefIsCommand

-----------------------------------------------------------------------------
(* Action property *)

(* Power is never switched on over a set latch, at no point of a callback: *)
(* estop_reset_callback clears the latch before it closes the contactors.  *)
PowerOnlyUnlatched ==
  [][executor = "single" /\ ~contactors /\ contactors' => ~e_stop_active]_vars

-----------------------------------------------------------------------------
(* Liveness *)

(* Velocities that were past their checks when the latch was set do get    *)
(* out, but not for good: while the latch stays set and the node active,   *)
(* the stream of the mux brings the motor command back to zero, and it     *)
(* stays there.                                                            *)
StopConverges ==
  <>[](e_stop_active /\ is_processing_allowed /\ "motor" \in publishing) => <>[](motor = 0)
=============================================================================
