----------------------------- MODULE FdirTiming -----------------------------
(***************************************************************************)
(* FdirManager with two clocks nobody reads: how long ago each component   *)
(* last answered ACTIVE (or the manager started), and how long its relay   *)
(* has been open. Each stops at the value its property compares it with.   *)
(***************************************************************************)
EXTENDS FdirManager

VARIABLES
  since_active,   \* Node -> time since the last ACTIVE answer or the start
  open_for        \* Node -> time since the relay was last opened

tvars == <<vars, since_active, open_for>>

(* One power cycle, and the whole allowance of a component. *)
CycleTime(n) == PowerOffTime + StartupTime[n]
LockoutTime(n) == MAX_RECOVERY_RETRIES * CycleTime(n)

UpTo(bound, t) == IF t < bound THEN t + 1 ELSE t

TimingTypeOK ==
  /\ TypeOK
  /\ DOMAIN since_active = Node
  /\ \A n \in Node : since_active[n] \in 0..LockoutTime(n)
  /\ open_for \in [Node -> 0..PowerOffTime]

TimingInit ==
  /\ Init
  /\ since_active = [n \in Node |-> 0]
  /\ open_for = [n \in Node |-> 0]

TimedTick ==
  /\ Tick
  /\ since_active' = [n \in Node |->
       IF managed_nodes'[n].current_state = "ACTIVE" /\ ~managed_nodes'[n].is_defective
       THEN 0 ELSE since_active[n]]
  /\ open_for' = [n \in Node |-> IF relay[n] /\ ~relay'[n] THEN 0 ELSE open_for[n]]

TimedElapse ==
  /\ Elapse
  /\ since_active' = [n \in Node |-> UpTo(LockoutTime(n), since_active[n])]
  /\ open_for' = [n \in Node |->
       IF relay[n] THEN open_for[n] ELSE UpTo(PowerOffTime, open_for[n])]

TimedRestart ==
  /\ Restart
  /\ since_active' = [n \in Node |-> 0]
  /\ UNCHANGED open_for

TimedNext == TimedTick \/ TimedElapse \/ TimedRestart

TimedSpec == TimingInit /\ [][TimedNext]_tvars

(* The wall timer of monitor_loop fires forever and time passes. *)
FairSpec == TimedSpec /\ WF_tvars(TimedTick) /\ WF_tvars(TimedElapse)

-----------------------------------------------------------------------------
(* No premature lockout: whatever the components answer and however the    *)
(* loops fall, a component is declared DEFECTIVE (and the robot halted for *)
(* good) only after MAX_RECOVERY_RETRIES full power cycles without a       *)
(* single ACTIVE answer in between (handle_recovery_fsm).                  *)
LockoutTakesAllCycles ==
  \A n \in Node : managed_nodes[n].is_defective => since_active[n] = LockoutTime(n)

(* The "guaranteed discharge duration": a relay is closed again only after *)
(* it has been open for the whole of PowerOffTime, also when an ACTIVE     *)
(* answer or a restart of the manager broke the cycle that opened it.      *)
DischargeHeld ==
  [][\A n \in Node : ~relay[n] /\ relay'[n] => open_for[n] = PowerOffTime]_tvars
=============================================================================
