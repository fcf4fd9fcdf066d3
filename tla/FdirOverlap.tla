---------------------------- MODULE FdirOverlap ----------------------------
(***************************************************************************)
(* FdirManagerNode with overlapping passes of monitor_loop. The 100 ms     *)
(* timer is in a Reentrant group of a multi-threaded executor, and a pass  *)
(* that waits 50 ms for each of three silent components takes longer than  *)
(* the period, so the next pass starts in another thread. The passes share *)
(* managed_nodes_ without a lock; global_state and all_active are locals.  *)
(*                                                                         *)
(* A pass gives way to another one where it blocks: in get_node_state for  *)
(* every component, and in change_node_state, which for a cleanup is in    *)
(* the middle of POWER_OFF. What is written between two such points is one *)
(* step and takes no time.                                                 *)
(* The clock counts units of SERVICE_TIMEOUT_MS; a wait is over before it  *)
(* has seen a second tick, and the timer is due every Period ticks.        *)
(***************************************************************************)
EXTENDS FdirRecovery, Sequences

CONSTANTS
  Pass,      \* executor threads that may run a pass
  Period,    \* of the timer: 100 ms, in units of the 50 ms timeout
  Order      \* the components in the iteration order of managed_nodes_

ASSUME PeriodAssumption == Period \in Nat \ {0}
ASSUME OrderAssumption ==
  /\ Order \in Seq(Node)
  /\ \A n \in Node : \E i \in DOMAIN Order : Order[i] = n
  /\ \A i, j \in DOMAIN Order : Order[i] = Order[j] => i = j

NO_SAMPLE == 255

VARIABLES
  managed_nodes,
  relay,
  health,         \* last FdirState published
  cursor,         \* Pass -> 0 when idle, else position of the component visited
  blocked,        \* Pass -> what the pass is waiting for
  global_state,   \* Pass -> local of the pass
  all_active,     \* Pass -> local of the pass
  timer,          \* clock ticks since the timer was last due
  due             \* the timer is due and no thread has taken it

locals == <<cursor, blocked, global_state, all_active>>
wall == <<timer, due>>
vars == <<managed_nodes, relay, health, locals, wall>>

(* What a pass waits for; late when the wait has seen a tick of the clock. *)
Early == {"query", "request", "cleanup"}
Late(wait) ==
  CASE wait = "query"   -> "lateQuery"
    [] wait = "request" -> "lateRequest"
    [] wait = "cleanup" -> "lateCleanup"
Blocked == {"no"} \cup Early \cup {Late(wait) : wait \in Early}

TypeOK ==
  /\ DOMAIN managed_nodes = Node
  /\ \A n \in Node : managed_nodes[n] \in ManagedNode(n)
  /\ relay \in [Node -> BOOLEAN]
  /\ health \in FdirLevel \cup {NO_SAMPLE}
  /\ cursor \in [Pass -> 0..(Len(Order) + 1)]
  /\ blocked \in [Pass -> Blocked]
  /\ global_state \in [Pass -> FdirLevel]
  /\ all_active \in [Pass -> BOOLEAN]
  /\ timer \in 0..(Period - 1)
  /\ due \in BOOLEAN

Init ==
  /\ managed_nodes = [n \in Node |-> InitialNode]
  /\ relay = [n \in Node |-> TRUE]
  /\ health = NO_SAMPLE
  /\ cursor = [p \in Pass |-> 0]
  /\ blocked = [p \in Pass |-> "no"]
  /\ global_state = [p \in Pass |-> STATE_SYSTEM_STARTUP]
  /\ all_active = [p \in Pass |-> TRUE]
  /\ timer = 0
  /\ due = FALSE

-----------------------------------------------------------------------------
Visited(p) == Order[cursor[p]]

Visiting(p, waits) == cursor[p] \in DOMAIN Order /\ blocked[p] \in waits

Asking == {"query", "lateQuery"}
Requesting == {"request", "lateRequest"}
Cleaning == {"cleanup", "lateCleanup"}

(* global_state = max(global_state, level), and on to the next component.  *)
Note(p, level, active) ==
  /\ global_state' = [global_state EXCEPT ![p] = Ext!Max({@, level})]
  /\ all_active' = [all_active EXCEPT ![p] = @ /\ active]
  /\ cursor' = [cursor EXCEPT ![p] = @ + 1]
  /\ blocked' = [blocked EXCEPT ![p] = "no"]

(* Threads are interchangeable: which idle one takes the timer is fixed.   *)
FirstIdle == CHOOSE p \in Pass : cursor[p] = 0

(* The timer fires and this thread takes it, with its locals as Init and   *)
(* the end of the last pass leave them.                                    *)
Begin(p) ==
  /\ due /\ cursor[p] = 0 /\ p = FirstIdle
  /\ due' = FALSE
  /\ cursor' = [cursor EXCEPT ![p] = 1]
  /\ UNCHANGED <<managed_nodes, relay, health, blocked, global_state, all_active, timer>>

(* Seeded fault: a locked-out component no longer raises the level.        *)
SkipDefectiveSilently(p) ==
  /\ Visiting(p, {"no"})
  /\ managed_nodes[Visited(p)].is_defective
  /\ Note(p, STATE_SYSTEM_STARTUP, FALSE)
  /\ UNCHANGED <<managed_nodes, relay, health, wall>>

SkipDefective(p) ==
  /\ Visiting(p, {"no"})
  /\ managed_nodes[Visited(p)].is_defective
  /\ Note(p, STATE_EMERGENCY, FALSE)
  /\ UNCHANGED <<managed_nodes, relay, health, wall>>

Query(p) ==
  /\ Visiting(p, {"no"})
  /\ ~managed_nodes[Visited(p)].is_defective
  /\ blocked' = [blocked EXCEPT ![p] = "query"]
  /\ UNCHANGED <<managed_nodes, relay, health, cursor, global_state, all_active, wall>>

(* Seeded fault: the check for a locked-out component that answers ACTIVE  *)
(* is taken for dead code and removed.                                     *)
ZombieIgnored(m, answer) == FALSE

(* Another pass locked the component out while this one waited. *)
Zombie(m, answer) == m.is_defective /\ answer = "ACTIVE"

AnswerZombie(p) ==
  /\ Visiting(p, Asking)
  /\ LET n == Visited(p)
     IN  /\ Zombie(managed_nodes[n], "ACTIVE")
         /\ managed_nodes' = [managed_nodes EXCEPT ![n].current_state = "ACTIVE"]
  /\ Note(p, STATE_EMERGENCY, FALSE)
  /\ UNCHANGED <<relay, health, wall>>

(* The answer is acted upon without another look at is_defective. *)
Answer(p, answer) ==
  /\ Visiting(p, Asking)
  /\ LET n == Visited(p)
         m == managed_nodes[n]
         after == Evaluate(n, m, answer)
     IN  /\ ~Zombie(m, answer)
         /\ Request(n, [m EXCEPT !.is_defective = FALSE], answer) = "none"
         /\ managed_nodes' = [managed_nodes EXCEPT ![n] = after]
         /\ relay' = [relay EXCEPT ![n] = RelayAfter(n, m, after, @)]
         /\ Note(p, IF answer = "UNKNOWN" THEN Contribution(n, after) ELSE STATE_SYSTEM_STARTUP,
                 answer = "ACTIVE")
  /\ UNCHANGED <<health, wall>>

(* A component that reports UNCONFIGURED or INACTIVE is asked to configure *)
(* or to activate, and the pass blocks again.                              *)
RequestTransition(p, answer) ==
  /\ Visiting(p, Asking)
  /\ LET n == Visited(p)
         m == managed_nodes[n]
     IN  /\ Request(n, [m EXCEPT !.is_defective = FALSE], answer) \in {"configure", "activate"}
         /\ managed_nodes' = [managed_nodes EXCEPT ![n] = Evaluate(n, m, answer)]
  /\ blocked' = [blocked EXCEPT ![p] = "request"]
  /\ UNCHANGED <<relay, health, cursor, global_state, all_active, wall>>

FinishRequest(p) ==
  /\ Visiting(p, Requesting)
  /\ Note(p, STATE_SYSTEM_STARTUP, FALSE)
  /\ UNCHANGED <<managed_nodes, relay, health, wall>>

(* POWER_OFF of a component reset by a service: the pass blocks again      *)
(* before it has written the new phase.                                    *)
RequestCleanup(p) ==
  /\ Visiting(p, Asking)
  /\ LET n == Visited(p)
     IN  /\ managed_nodes[n].phase = "POWER_OFF"
         /\ ResetMechanism[n] = "LIFECYCLE_SERVICE"
         /\ managed_nodes' = [managed_nodes EXCEPT ![n].current_state = "UNKNOWN"]
  /\ blocked' = [blocked EXCEPT ![p] = "cleanup"]
  /\ UNCHANGED <<relay, health, cursor, global_state, all_active, wall>>

(* The phase is written whatever has become of the record meanwhile, with  *)
(* the time taken before the request.                                      *)
FinishCleanup(p) ==
  /\ Visiting(p, Cleaning)
  /\ LET n == Visited(p)
         after == EnterTimed(managed_nodes[n], "WAIT_DISCHARGE")
         late == blocked[p] = "lateCleanup"
     IN  /\ managed_nodes' = [managed_nodes EXCEPT ![n] = IF late THEN Older(n, after) ELSE after]
         /\ Note(p, Contribution(n, [after EXCEPT !.current_state = "UNKNOWN"]), FALSE)
  /\ UNCHANGED <<relay, health, wall>>

(* The end of a pass: its locals are gone, and reset here for the next. *)
Publish(p) ==
  /\ cursor[p] = Len(Order) + 1
  /\ health' = IF all_active[p] THEN STATE_SOFTWARE_OK ELSE global_state[p]
  /\ cursor' = [cursor EXCEPT ![p] = 0]
  /\ global_state' = [global_state EXCEPT ![p] = STATE_SYSTEM_STARTUP]
  /\ all_active' = [all_active EXCEPT ![p] = TRUE]
  /\ UNCHANGED <<managed_nodes, relay, blocked, wall>>

(* Everything that takes no time comes first: a due timer is taken if a    *)
(* thread is free, and a pass that is not waiting proceeds.                *)
Elapse ==
  /\ \A p \in Pass : cursor[p] = 0 => ~due
  /\ \A p \in Pass : cursor[p] # 0 => blocked[p] \in Early
  /\ managed_nodes' = [n \in Node |-> Older(n, managed_nodes[n])]
  /\ blocked' = [p \in Pass |-> IF cursor[p] = 0 THEN "no" ELSE Late(blocked[p])]
  /\ timer' = (timer + 1) % Period
  /\ due' = (due \/ timer' = 0)
  /\ UNCHANGED <<relay, health, cursor, global_state, all_active>>

Proceed(p) ==
  \/ SkipDefective(p) \/ Query(p) \/ AnswerZombie(p)
  \/ \E answer \in Report : Answer(p, answer) \/ RequestTransition(p, answer)
  \/ FinishRequest(p) \/ RequestCleanup(p) \/ FinishCleanup(p) \/ Publish(p)

Next == (\E p \in Pass : Begin(p) \/ Proceed(p)) \/ Elapse

Spec == Init /\ [][Next]_vars

-----------------------------------------------------------------------------
(* Invariants *)

(* A lockout is final and whole, also when a pass that began before it     *)
(* acts on its answer after it: the record stays DEFECTIVE, and no pass    *)
(* resumes a power cycle or forgives the strikes. What saves it is the     *)
(* check for a defective component that answers ACTIVE, which with one     *)
(* pass at a time could never fire.                                        *)
LockoutFinal ==
  \A n \in Node :
    LET m == managed_nodes[n]
    IN  m.is_defective <=> m.phase = "DEFECTIVE" /\ m.retry_count > MAX_RECOVERY_RETRIES

-----------------------------------------------------------------------------
(* Liveness *)

(* Passes that began before a lockout may still publish a lower level, but *)
(* only while they last: in the end EMERGENCY is all that is published.    *)
EmergencyPrevails ==
  []<>(\E n \in Node : managed_nodes[n].is_defective) => <>[](health = STATE_EMERGENCY)

=============================================================================
