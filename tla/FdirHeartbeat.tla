--------------------------- MODULE FdirHeartbeat ---------------------------
(***************************************************************************)
(* The dead man's switch of FdirManagerNode: monitor_loop emits a pulse at *)
(* its very end, and the PLC opens the contactors when the pulses stop for *)
(* longer than its window. The period of the pulse is therefore that of    *)
(* the passes of FdirOverlap, whose length depends on the answers.         *)
(***************************************************************************)
EXTENDS FdirOverlap, FiniteSets

(* A pass waits at most twice for each component. *)
LongestPass == 2 * Len(Order)

(* Each pass is over before all the others have been started. *)
EnoughThreads == Cardinality(Pass) * Period >= LongestPass

ASSUME ThreadsAssumption == IsFiniteSet(Pass) /\ Pass # {} /\ EnoughThreads

(* Counted up to one more than the longest silence. *)
MaxSilence == Period + LongestPass + 1

VARIABLE silence     \* clock ticks since the last pulse

hvars == <<vars, silence>>

HeartbeatTypeOK == TypeOK /\ silence \in 0..MaxSilence

HeartbeatInit == Init /\ silence = 0

(* Seeded fault: the pulse is only emitted when all is well. *)
PulseWhenNominal(p) ==
  Publish(p) /\ silence' = IF all_active[p] THEN 0 ELSE silence

(* The end of a pass: the FdirState, then the pulse. *)
Pulse(p) == Publish(p) /\ silence' = 0

Work(p) ==
  /\ Begin(p) \/ Proceed(p)
  /\ cursor[p] # Len(Order) + 1
  /\ UNCHANGED silence

Tick == Elapse /\ silence' = IF silence < MaxSilence THEN silence + 1 ELSE silence

HeartbeatNext == (\E p \in Pass : Work(p) \/ Pulse(p)) \/ Tick

HeartbeatSpec == HeartbeatInit /\ [][HeartbeatNext]_hvars

(* The system goes on; no more is needed, because the waits of the passes  *)
(* are bounded: a clock that must go on drives every pass to its end.      *)
FairSpec == HeartbeatSpec /\ WF_hvars(HeartbeatNext)

-----------------------------------------------------------------------------
(* Invariants *)

(* Whatever the components answer, and however the passes overlap, pulses  *)
(* are never further apart than one period and the longest pass: 50 ms for *)
(* every request to every component. It takes the pulse at the end of each *)
(* pass, the limit on each wait, and threads enough for the passes. (The   *)
(* comment on the pulse wants it every 100 ms and the PLC to trip after    *)
(* 200; one silent component is within that, two are not.)                 *)
PulseBounded == silence <= Period + LongestPass

=============================================================================
