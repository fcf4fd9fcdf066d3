# Verification of the Mona robot's safety software

TLA+ models of the part of the repository that decides whether the robot may
move and whether its motors have power: the FDIR manager, the safety node and
the velocity multiplexer, alone and composed, and of the LiDAR merger they supervise.
TLC checks them on small instances, TLAPS proves the
central properties for all values of the constants.

Source paths below are relative to the packages (`mona_core/...` is
`src/mona_core/...` of the repository), documents relative to `docs/`.

## 1. Inventory

### The parts and how they interact

`robot.launch.py` starts three processes, each a multi-threaded container
(`component_container_mt`), and respawns none of them:

| process | nodes |
|---|---|
| `sensor_control_executor` | `mona_lidar_merger`, `twist_mux_node` |
| `isolated_safety_executor` | `safety_node` |
| `isolated_fdir_executor` | `mona_fdir_manager` |

```
 cmd_teleop, cmd_nav            odom, emergency_stop(_reset)
        |                               |
   twist_mux_node --cmd_vel_smoothed--> safety_node --> hardware/motor_cmd
        ^   ^   |                       |   ^   |  \--> hardware/contactors
        |   |   +------mux_state--------+   |   |
        |   +----------system/safety_state------+
        |                                   |
        +------system/health_state----------+---- mona_fdir_manager
                                                  |  get_state / change_state of all nodes
                                                  +--> relays, contactors, motor_cmd, heartbeat
```

**FDIR manager** (`mona_core/src/fdir_manager_node.cpp`). State: one
`ManagedNode` per enabled component (strikes, phase of the recovery, time of
the last phase change, lockout flag, last answer). Operations: `monitor_loop`
every 100 ms (query every component, step its recovery, publish the worst
level, cut power in EMERGENCY, emit the heartbeat) and `init_managed_nodes` at
the start. Hard: the timer is in a Reentrant group, so passes overlap while they
wait up to 50 ms per request; recovery runs over hundreds of loops; the process
may be restarted while relays are open. Correct when: strikes, phase, flag and
published level agree; a lockout is final; a dead component is always found out,
and never too early; relays follow the cycle; the heartbeat keeps its pace.

**Safety node** (`mona_safety/src/safety_node.cpp`). State: lifecycle and gate
flag, the latch `e_stop_active_`, `current_state_`, what it believes of the
contactors. Operations: seven callbacks and the lifecycle transitions. Hard:
velocity, health and mux callbacks run concurrently with each other and with
odometry, services and transitions; commands to the contactors are
deduplicated; crash and relaunch. Correct when: a set latch means no power and
no velocity until the reset; a deactivated node is silent; the belief never
hides a command to open.

**Twist multiplexer** (`mona_control/src/twist_mux_node.cpp`). State: four
flags, the arbitration state, the last command and time of each source, the
filter. Operations: four subscriptions, the 10 ms loop, transitions. Hard:
timeouts of two sources racing each other and the blockade; a loop that throws,
and ends its process, in states it does not expect. Correct when: navigation
respects the manual lockout; set-points do not outlive their timeout; a blocked
mux never accelerates; a takeover cancels the goal.

**LiDAR merger** (`mona_perception/src/lidar_merger_node.cpp`). State: the
publisher, the synchronizer, the transform buffer and the power subscription,
each a pointer that several transitions reset; the power gate. Operations: the
transitions, `power_callback`, `fused_callback` with its concatenation of four
projected scans. All of it runs in one callback group, one callback at a time.
Hard: which pointers exist in which state; what the merged cloud is when some
scans fail, are empty or have another layout; a gate that is switched by single
messages. Correct when: an active node has all it dereferences; the cloud is the
scans that projected, under a header that describes them; the last word on power
stands.

**The system.** The three programs meet in messages and services only. The
manager asks every node for its lifecycle state, requests transitions, and
publishes a verdict both other nodes act on; the safety node reports its state
for each report of the multiplexer, which obeys both. The contactors and the
motor driver have two writers, the safety node and, in an emergency, the manager.
Hard: messages under way when the verdict changes, answers that come late, a
process that dies while the motor runs. Correct when: a lockout stops the robot
and cuts its power for good; a healthy system gets both back.

**The rest**: message definitions (the levels are constants of the modules),
launch files and scripts (they fix the processes and have no state), parameters
of Nav2, SLAM, EKF and teleoperation (third-party; what they send is the
environment), robot description and worlds (assets). `PROJECT.json` lists each
with its status; its `hazards` list what is hard to test, line by line, including
the hazards no property covers.

### Things noticed on the way that are not properties

- The mux is launched without its parameters, so the manual lockout is the
  default of 2 s; `safety_params.yaml` (5 s) and the guides
  (`architecture/nodes_and_topics.md:145`, 5 s) describe another value.
- `architecture/nodes_and_topics.md:96-112` injects levels under other numbers
  than `FdirState.msg` has (3 as EMERGENCY, which is RECONFIGURED and closes the
  contactors) and under a field name the message does not have.
- `hardware_button_pressed_` and `contactors_enabled_` of
  `architecture/safety_and_fdir.md` do not exist; the second is
  `hardware_contactors_closed_`, which is a plain `bool`.
- Of the enabled components of `fdir_policy.yaml` none has a relay and none is
  AUXILIARY; the models have all tiers and both mechanisms.

## 2. Modules

| module | what it is |
|---|---|
| `FdirConfig` | `init_managed_nodes`: what the manager makes of its policy; pure operators |
| `FdirRecovery` | the manager's data and its pure part: the record, the recovery state machine, the aggregation of levels |
| `Supervisor` | abstract: a verdict per pass and a set of components given up for good |
| `FdirManager` | the manager with one pass of the loop as one step; restart; implements `Supervisor` |
| `FdirTiming` | `FdirManager` with two clocks for what the times are for; what TLC runs |
| `FdirOverlap` | the manager with overlapping passes, split where a pass waits |
| `FdirHeartbeat` | `FdirOverlap` with the distance between heartbeats; what TLC runs |
| `SafetyInterlock` | abstract: a latch, power and a command |
| `SafetyNode` | the safety node, every callback one step; crash and relaunch; implements `SafetyInterlock` |
| `SafetyThreads` | the safety node split at its accesses to shared memory |
| `VelocitySource` | abstract: velocities within a limit which only slow down while blocked |
| `TwistMux` | the multiplexer, every callback one step, with the clock; implements `VelocitySource` |
| `TwistMuxThreads` | the multiplexer split at its accesses to shared memory |
| `LidarMerger` | the merger: resources, power gate, merged cloud |
| `MonaSystem` | `Supervisor`, `SafetyNode` and `VelocitySource` over queues and services, with processes that die |
| `*Proofs` | the theorems about `FdirManager` (with `FdirTiming` and `FdirConfig`), `FdirOverlap` (with `FdirHeartbeat`), `SafetyNode`, `SafetyThreads`, `TwistMux`, `TwistMuxThreads`, `LidarMerger` and `MonaSystem` |
| `MC*` | values of the constants for TLC |

`MonaSystem` uses `SafetyNode` whole. Of manager and multiplexer it uses the
abstractions, and may: `ManagerImplementsSupervisor` and `MuxImplementsSource`
are proved. What holds of the composition therefore holds for any policy, any
strikes and times, and any commands.

Some definitions are preceded by one marked *Seeded fault*: the same operator
with a plausible mistake. They are used nowhere in the specifications; put in
place of their neighbour they make the property of `mutants` in `PROJECT.json`
fail, which shows that the property depends on that line of the code.

### FDIR

`managed_nodes` is the map of the code, `relay` the last command on each
relay topic, `health` the last level published, `cutoff` whether the last loop
cut power. `MonitorLoop(report)` is one pass with the answers `report`; answers
are free. `elapsed` stands for `now - last_phase_change` and stops at the
longer of the two waits, beyond which no comparison tells values apart. The
report UNKNOWN stands for every id of the default branch (timeout, no service,
FINALIZED, transitions). Branches that need a corrupt enumeration (an unknown
mechanism or phase) are unreachable by construction and left out.

`FdirConfig` takes the entries of the policy in order, one turn of the loop each
(`LoadedAfter`); every throw is alike, since each ends the constructor. `MCFdirTiming` gets its components from a
policy through it.

In `FdirOverlap` a pass is a thread: `Begin` (the timer), then for each
component `SkipDefective`, or `Query` followed by `Answer`, `AnswerZombie`,
`RequestTransition`/`FinishRequest` or `RequestCleanup`/`FinishCleanup`, and
`Publish`. It yields exactly at the two blocking calls `get_node_state` and
`change_node_state`; between them a pass takes no time. The clock counts 50 ms
units, a wait sees at most one tick, and everything that takes no time comes
before the next tick. Threads are interchangeable, so which idle one takes the
timer is fixed (`FirstIdle`). Memory accesses of two passes that run at the very same
moment on two cores are not interleaved further.

### Safety node

`SafetyNode` has the node's members, the lifecycle, and three outputs: the last
message on the contactor, motor and state topics. A velocity is one axis: the
three are clamped by the same limit. The destructor and `on_error` do what
`OnShutdown` does (open the contactors), and no transition can fail. `Crash`
is the loss of the process without destructor and a relaunch by the operator;
it is a step of `CrashSpec` and of `MonaSystem`.

In `SafetyThreads` a callback is a sequence of accesses (`<<gate, latch, enter,
stop, compare, believe, command, ...>>`), a thread works off one, and threads
interleave between accesses. Velocity, health and mux callbacks run in any
thread of the Reentrant group, everything else in the one thread of the default
group. A plain member is read and written whole, as on the target. `executor`
chooses between the single thread of the unit tests, where a callback starts only
when no other is in progress, and the multi-threaded container.

### Multiplexer

In `TwistMux` time stamps are kept as ages that saturate where no comparison
distinguishes them. The moving average is any value between old velocity and
target, which is what `0 < ema_alpha <= 1` gives; the clamp follows. `nav_goal`
is whether Nav2 has a goal; `CRASHED` is the end of the process by the throw.

`TwistMuxThreads` keeps of time and velocity what the loop decides by (is a time
stamp fresh; is the set-point a command) and splits the callbacks at their
accesses to the four flags, the state, the publishers and `mux_mutex_`. The
operations under the mutex are steps of their own, because the transitions do
not take it. A null publisher that is used, and the throw, end the process
(`process`).

### LiDAR merger

One step per callback and transition. A scan fails to project or yields a number
of points in a layout (`Projection`), which is all the concatenation looks at;
`size` and `parts` stand for the bytes. `OnConfigureThrows` is a parameter of the
wrong type, the one way into `on_error`; `Unload` is the destructor.

### System

`health_queue` is the safety node's subscription to `system/health_state`, where
order and loss of the oldest matter; of the other topics only the newest message
can matter and `mux_health` and `unheard` keep it. A message may stay under way
for any time. A pass of the manager is one step and may miss the answer of any
node that is alive. `request` is a transition asked for and not yet carried out:
it is carried out whenever the node gets to it, also when the manager has long
given up. What an observer outside sees is `contactors` and `motor`, written by
the manager (`Override`) and by the safety node.

## 3. Runs

The runs that pass (state counts are of distinct states):

| run | bounds | shows |
|---|---|---|
| `fdir_timing` (85 014) | 2 components, AUXILIARY by relay with boot 2 and FATAL by service with boot 0, loaded from a policy of 3 entries; discharge 1; 2 retries; policies of up to 3 entries over 2 keys; under `FairSpec` | policy, strikes, lockout, levels and relays agree; lockout not early, discharge held; a dead component is locked out; the supervisor is implemented |
| `fdir_heartbeat` (611 223) | 2 components, 2 passes, 1 retry, times 1, period 2; under `FairSpec` | a lockout is final and whole, EMERGENCY prevails, distance of the heartbeats |
| `safety_node` (1 905) | velocities beyond both limits, between and zero | interlock, power-up, belief, and the refinement |
| `safety_threads` (558 020) | one thread with every level; 2 reentrant threads and the default one with level DEGRADED; under `FairSpec` | in one thread every promise holds at rest, and power never comes on over a set latch even within a callback; with three, a stop is final in the end |
| `twist_mux` (457 488) | velocities -3, 0, 1; timeouts 1 and 3; under `FairSpec` | arbitration, the window of the throw, the watchdog, the refinement |
| `twist_mux_threads` (678 558) | 2 reentrant threads and the default one; under `FairSpec` | why the loop may throw; a report BLOCKED is true; a lost update of the flags is made good |
| `lidar_merger` (45 074) | 4 scans, each failed, empty, of 1 or 2 points, or of another layout; power queue of 2 | resources, merged cloud, power gate |
| `mona_system` (199 102) | the safety node and the multiplexer, a queue of 2, velocities 0 and 1; under `FairSpec` | a lockout stops the robot and cuts the power for good; no permission overtakes it; power and motion return |

**Why the bounds are enough.** Components of the manager do not influence one
another except through the aggregate, so two that differ in everything the code
looks at show every combination; the proofs cover any number. Retries of 1 or 2
instead of 3 leave the first, a middle and the last strike. Two passes are
enough for one to be overtaken by another, and both ask the same component at
once because the longest pass (4 units) exceeds the period (2). The two timeouts
of the mux keep their order and differ; ages run past their sum. The velocities
contain both signs, values beyond each limit, and zero. Two threads of the
Reentrant group and the default one give every pair of callbacks that can
overlap. Four scans of five outcomes are every order of good, bad, empty and
foreign ones. A queue of two holds a permission and the lockout behind it, and
overflows; a third node (`Others`) changes only whether the verdict is OK, which
a missed answer does as well. The theorems hold for any depth and any nodes.

**Deadlock** is checked except for `SafetyNode` (a node shut down before it was
ever configured has nothing left to do), `TwistMux` and `TwistMuxThreads` (the
process may end) and `LidarMerger` (an unloaded component).

**Fairness.** `FdirTiming`: the wall timer fires and time passes.
`FdirHeartbeat`: only that the system goes on, because a pass ends by itself, as
each of its waits has a timeout. Nothing keeps the
manager from being restarted again and again, so `DeadNodeLockedOut` excepts
executions that restart it infinitely often. `SafetyThreads`: a started callback
runs to its end, and velocities are delivered again and again (strongly fair,
because each thread is also free for other callbacks in between): the mux
publishes every 10 ms while active. `TwistMux`: the loop timer and the clock go
on. `TwistMuxThreads`: a started callback runs to its end; that the timer and the
reports are served again and again is a premise of `BlockReachesOutput`
(`Served`). `MonaSystem`: the manager's timer fires; the multiplexer's reports,
which are the safety node's clock, are handled; no mailbox stays full for ever;
and the moving average of a blocked multiplexer reaches zero, meaning a velocity
no motor follows. Relaunches, operators, odometry and answers are not assumed
fair anywhere: the properties hold whatever they do, or name their exception.

### Disagreements

Four runs marked `violation` check what a document, comment or test says and
produce a trace of the code doing something else; `PROJECT.json` quotes the
lines.

- `auxiliary_failure_tolerated`: `handle_recovery_fsm` sets `is_defective` in the
  call that exhausts the strikes, so the switch on the tier is never reached, and
  an AUXILIARY component halts the robot for good.
- `e_stop_holds_contactors`: a health callback that has read a clear latch closes
  the contactors after the E-stop opened them. In one thread this holds
  (`OneThreadKeepsPromises`).
- `recovers_from_block`: a blockade cleared within the command timeout leads the
  loop to its throw.
- `cleanup_avoids_segfault`: a pass of the loop has started, but not reached its
  first statement, when `on_cleanup` resets `smooth_pub_`; cancelling the timer
  does not wait for the pass, and the test `smooth_pub_->is_activated()` is itself
  the access to a null pointer.

The models show more of the kind, stated here without a run of their own; the
property named is the one that says what does hold, or, where so marked, a
definition of the module that states the broken promise.

- FDIR. A FATAL failure does not stop at once: EMERGENCY comes with the lockout
  (`ImplementsSupervisor`). One ACTIVE answer forgives all strikes, so reboots
  have no bound (theorem `ForgivenessCorrect`), and in the middle of a power cycle
  it returns the component to NOMINAL with its relay open (broken promise
  `OkMeansPowered`; `RelayFollowsCycle` says how relays do follow). With
  overlapping passes one that began before a lockout publishes STARTUP after
  EMERGENCY, for as long as it lasts (`EmergencyPrevails`). The distance of the
  heartbeats grows with the number of silent components, beyond the 200 ms of the
  comment at `fdir_manager_node.cpp:569` (`PulseBounded`). Nothing relates the
  answers of one pass to a lockout another one makes meanwhile but timing:
  `LockoutFinal` needs a request to end within its 50 ms, and a discharge at least
three times as long (`LockoutCorrect`). Two entries of the
  policy with one node name are one component, as the later one says
  (`SupervisesItsPolicy`).
- Safety node. A relaunched process believes open what is closed, and the
  comparison in `set_hardware_contactors` swallows the command even of the E-stop
  (broken promise `EStopOpensContactors`). A reset works after a shutdown and during
  an EMERGENCY of FDIR (until its next report, which latches again), and the
  constructor's NORMAL overrides the header's PROTECTIVE_STOP, so velocities pass
  before the first report; contactors, though, stay open until a report or a reset
  (`PowerUpAuthorised`). Reports other than SOFTWARE_OK change the state of a
  latched node, without power (`EStopInterlock`). A node deactivated in NORMAL or
  DEGRADED leaves its last velocity at the motor driver; if the first report after
  the next activation is SOFTWARE_OK or DEGRADED, which send no stop, it closes the
  contactors over that velocity, until the next one arrives.
- Safety node with threads. Besides `EStopHoldsContactors` three more promises of
  the single thread fail (`EStopHoldsMotor`, `NoZombiePower`, `BeliefIsCommand`).
  The first is repaired by the next velocity (`StopConverges`). The two properties
  of one thread, `OneThreadKeepsPromises` and `PowerOnlyUnlatched`, say nothing of
  the races of the container, for which these are the promises broken.
- Multiplexer. Refused navigation traffic keeps the watchdog quiet, so the last
  manual command outlives its timeout, up to the end of the lockout
  (`BoundedStaleness`); and navigation that resumes in IDLE during the lockout
  also reaches the throw (`ThrowWindow`, which has no third way). A takeover from
  IDLE or BLOCKED leaves the navigation goal running (broken promise
  `OverrideCancelsGoal`).
- Multiplexer with threads. The loop can also throw during activation, which
  activates the publisher before it leaves the initial state (`ThrowCauses`). An
  update of `is_safety_blocked_` can be lost, and motion goes on until a later
  report (`BlockReachesOutput`).
- System. When the lockout's message is pushed out of the safety node's queue and
  the manager is restarted, the safety node believes closed what the manager has
  opened; no later OK closes it (the second way out of `PowerReturns`). After a
  lockout the operator's reset closes the contactors until the next pass
  (`LockoutCutsPower`).
- Merger. Scans of different layouts are concatenated under the first one's
  `point_step` (the premise `Uniform` of `HeaderMatchesData`). A merger without
  power stays ACTIVE and FDIR reports SOFTWARE_OK for a blind robot. A
  configuration drops the power message queued at the subscription it replaces
  (`LastWordOnPower`).

## 4. Proofs

Assumptions are those of the modules (types of the constants, at least one
retry, `cmd_timeout < manual_timeout`, a velocity 0, a queue of at least one,
distinct nodes; in `FdirHeartbeat` a finite number of threads that is enough for
the passes), with three additions. `LockoutCorrect` of `FdirOverlapProofs` assumes
`LongDischarge`, that the discharge takes at least three times the timeout of a
request (the policy has 3 s and 50 ms). The theorems about `SafetyThreads` are
about the executor of the unit tests. `SupervisionCorrect` and `CycledHasItsRelay`
are about the policy of `MCFdirTiming`: the nodes are those it loads, under two
distinct names that are not empty.

**`FdirManagerProofs`.** `IInv` is `TypeOK` with the four invariants of the module
(`LockoutIffExhausted`, `EmergencyIffLockout`, `OkMeansAllActive`,
`RelayFollowsCycle`). `FdirTiming` has the same steps, so `TimingInv` contains it.
`LockoutIffExhausted` is what makes it inductive: it ties the phase to the
strikes, and only with it can a visit be shown to respect the relay and the
level. The lemmas state once what a visit does to a record (`VisitPreserves`,
`VisitEdges`) and what the aggregate is (`GlobalStateValue`); each action then has
one lemma. `EmergencyStays` and `ForgivenessCorrect` follow from `IInv` and the
step. `ManagerImplementsSupervisor` maps the abstract set of components given up
to those whose flag is set: a pass gives up the ones it locks out, time is a
stutter, and the verdict follows from `EmergencyIffLockout`'s step.

Of `FdirTiming`: `LockoutTakesAllCycles` is not inductive, since it says nothing
of a component under way. `TimingInv` bounds the time since the last ACTIVE
answer from below by the cycles completed plus the part of the current one, and
the time a relay has been open by the elapsed part of the discharge, if the
cycle that opened it is still running. `CyclesAdd` is the only arithmetic fact.

Of `FdirConfig`: TLC enumerates policies of up to three entries, the theorems are
for policies of any length, over any keys, names and topics. `init_managed_nodes`
is a loop, here a recursive function of the number of entries done. The induction
is by the set of the numbers for which a statement holds (`Induction`, from the
least number outside it), not by an operator; `LoopIs` shows that the
function exists and obeys its equation. `LoopInv` says what stands after `i`
entries: the loop has halted exactly if one of the enabled entries seen is invalid;
if not, each name maps to the last enabled entry that has it, and each node with
a relay has a publisher on the topic of that entry. `TurnKeeps` is the turn of the
loop. `EveryPolicyLoadedAsWritten` and `EveryRelayProvisioned` are the invariant
at the end, and `LoadedMeetsAssumptions` adds that what was loaded has tiers and
mechanisms as `FdirRecovery` assumes them: the validation is strong enough
for the recovery state machine. The two invariants of the run join this with what
holds of the records while the manager runs.

**`FdirOverlapProofs`.** Of the distance between pulses: passes that run began at
different times the timer was due, and each has spent at least the time since
(`Rounds`). If all threads were busy when the timer is due again, the oldest pass
would be over, by the pigeonhole (`OldestRound`); so the timer never waits, and
the silence ends with a pass begun at most one period after the last pulse
(`PulseToCome`). Of the lockout: a record's flag, phase and strikes agree, and
while a pass waits for its cleanup the record is in POWER_OFF, in a discharge too
short to be over, or NOMINAL without strikes (`Cleanable`). So
what `FinishCleanup` writes after the wait never undoes DEFECTIVE. This is where
`LongDischarge` is used.

**`SafetyNodeProofs`.** `IInv` is the conjunction of the checked invariants,
with what ties gate, publishers and endpoints to the lifecycle. `LatchCorrect` and
`PowerUpCorrect` are steps from it. `Implementation`
maps `e_stop_active`, the contactors and "the last command is not zero" to the
abstract latch, power and command: a health report or an E-stop is a `Trip`, a
reset a `Release`, a transition a `PowerDown`, a velocity a `Command`.

**`SafetyThreadsProofs`.** With one executor thread the node split at its accesses
keeps the promises the multi-threaded container breaks, for any number of threads
that take turns, any levels and any velocities. The four promises are not
inductive: in the middle of a callback they do not all hold (between the latch
and the command that opens, a latched node has closed contactors). The invariant
is a proof outline: `Outline(list)` says what holds of the node when `list` is
left to do, and `OneThreadInv` that at most one thread has something left and the
outline of it holds. Between two callbacks the node is `Settled`, from which the
promises follow. A list is taken apart from the left (`Then`), so that an access is
one step from the outline of a list to that of its rest. Each part of the outline
has one lemma (`RestingAdvances`, `WorkingAdvances`, `OpeningAdvances` and so on),
which says where an access at the head of such a list leads; `CallbackAdmitted`
adds that a callback starts in the outline of its whole list. `PowerUpCorrect`
is about the access that commands: it closes the contactors only where `Closing`
holds, and that part has the latch clear.

**`TwistMuxProofs`.** The invariant adds to the checked ones that the loop runs
only after an activation, that neither state nor messages predate the ages by
more than the window, and that a crash happened in a state the window allows.
`BoundedStaleness` and `BlockedNeverAccelerates` are steps from it.
`MuxImplementsSource` needs that the third flag is the disjunction of the other
two (`FlagsInv`) and that the moving average and the clamp stay between old
velocity, set-point and limit (`DriveWithinLimit`).

**`TwistMuxThreadsProofs`.** For any number of threads. What is left of a callback
is one of a finite set of lists (`Shapes`), and each access has one successor but
for the decisions of the loop (`ReentrantSuccessors`, `DefaultSuccessors`).
`ThreadInv` says what a thread knows at an access: from the lock to the publication
it holds the mutex, and what it has found out about the state still holds, because
only a transition, which does not take the mutex, can come in between, and that
only to IDLE (`StepKeeps`, `DefaultKeeps`). A publisher that is active in the
initial state is one whose `on_activate` is under way, which bounds the second
cause of the throw. Each access has one lemma; `ThrowCorrect` and `ReportCorrect`
follow.

**`LidarMergerProofs`.** `EquippedCorrect` is an induction over the transitions.
The two invariants of the cloud are proved from what one turn of the loop does to
a partial cloud (`ExtendCounts`, `ExtendDescribes`), applied four times; `Products`
is the arithmetic both need.
`LastWordCorrect` is about the last element of a queue that drops its first.

**`MonaSystemProofs`.** `LockoutOvertakes` rests on `QueueInv`: while the manager
holds the lockout, the newest message at the safety node is the lockout's. A
pass appends its verdict and KEEP_LAST drops the oldest; a crash or a cleanup
empties the queue; a restart of the manager ends the lockout. `WhoSwitchesOn`
shows that only a reset or a handled permission closes the contactors; the
message handled is not the last one then, so the lockout's is still behind it.

`StopHoldsInSystem` and `PowerUpInSystem` ask which promises of `SafetyNode`
survive in the composition, where the node is killed and launched again over
hardware that keeps its last command, and the manager writes to the same hardware.
Those that rest on the node's belief about the contactors do not: a new
node believes them open whatever they are. `SafetyInv` is what remains, and is
inductive: a node that processes messages also publishes, and a latched node
believes the contactors open. The first is why a stop is never swallowed; with
the type of the queue (`QueueInv`) it leaves the reset and a SOFTWARE_OK handled
without the latch as the only ways to switch power on.

What is only model-checked: liveness (`DeadNodeLockedOut`, `EmergencyPrevails`,
`StopConverges`, `Watchdog`, `BlockReachesOutput`, and `RunawayPrevented`,
`LockoutCutsPower`, `PowerReturns` and `BlockadeLifts` of the system), since
fairness and ENABLED are beyond the prover, and the types of the modules whose
proofs did not need them. The runs that expect a violation show single
behaviours; there is nothing to prove about them. Every other property of a run,
invariant or action property, is stated by a theorem.

## 5. Not modelled

- NaN and rounding of velocities. The modules have integers and any value of the
  moving average between its arguments; a NaN, which passes the zero test and
  both clamps, has no counterpart.
- A simulated clock that is reset. Times are ages and only grow.
- Fewer executor threads than passes or callbacks in flight. The code does not
  bound the timers that are due, so there is no bound to check.
- The numerical projection of scans, and the approximate-time synchronizer, which
  calls back at any time.
- Loss and reordering inside a topic beyond KEEP_LAST: messages of one topic
  arrive in order, whole or not at all.
- Cleanup and shutdown in `SafetyThreads`: `SafetyNode` has them as whole steps,
  and what `TwistMuxThreads` shows of a cleanup beside a callback is the same
  pattern. The destructors of safety node and multiplexer act as a shutdown.
- Nav2, SLAM, EKF and teleoperation, the hardware behind the topics, the robot
  description: outside the repository's programs.
