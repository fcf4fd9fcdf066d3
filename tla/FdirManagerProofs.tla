------------------------- MODULE FdirManagerProofs -------------------------
(***************************************************************************)
(* Proofs about FdirManager and FdirTiming for any set of components, any  *)
(* tiers, any mechanisms, any waits and any positive number of retries,    *)
(* and about FdirConfig for any policy.                                    *)
(***************************************************************************)
EXTENDS MCFdirTiming, SequenceTheorems, WellFoundedInduction, TLAPS

-----------------------------------------------------------------------------
(* One record *)

(* What LockoutIffExhausted says of one record. *)
StrikesInv(m) ==
  /\ m.is_defective <=> m.phase = "DEFECTIVE"
  /\ m.is_defective <=> m.retry_count > MAX_RECOVERY_RETRIES
  /\ m.phase \notin {"NOMINAL", "DEFECTIVE"} => m.retry_count > 0

(* The assignments of the manager, one field at a time. *)
LEMMA FieldUpdates ==
  ASSUME NEW n \in Node, NEW m \in ManagedNode(n)
  PROVE  /\ \A k \in 0..(MAX_RECOVERY_RETRIES + 1) : [m EXCEPT !.retry_count = k] \in ManagedNode(n)
         /\ \A p \in RecoveryPhase : [m EXCEPT !.phase = p] \in ManagedNode(n)
         /\ [m EXCEPT !.elapsed = 0] \in ManagedNode(n)
         /\ \A b \in BOOLEAN : [m EXCEPT !.is_defective = b] \in ManagedNode(n)
         /\ \A s \in Report : [m EXCEPT !.current_state = s] \in ManagedNode(n)
<1>1. 0 \in 0..LongestWait(n)
  BY TimeAssumption DEF LongestWait
<1> QED BY <1>1 DEF ManagedNode

(* Stabilized, EnterTimed and LockOut change two fields each. *)
LEMMA CompoundUpdates ==
  ASSUME NEW n \in Node, NEW m \in ManagedNode(n)
  PROVE  /\ Stabilized(m) \in ManagedNode(n)
         /\ LockOut(m) \in ManagedNode(n)
         /\ \A p \in RecoveryPhase : EnterTimed(m, p) \in ManagedNode(n)
<1>1. Stabilized(m) \in ManagedNode(n)
  <2> DEFINE q == [m EXCEPT !.retry_count = 0]
  <2>0. 0 \in 0..(MAX_RECOVERY_RETRIES + 1)
    BY RetryAssumption
  <2>1. q \in ManagedNode(n)
    BY <2>0, FieldUpdates
  <2>2. [q EXCEPT !.phase = "NOMINAL"] \in ManagedNode(n)
    BY <2>1, FieldUpdates DEF RecoveryPhase
  <2> QED BY <2>2 DEF Stabilized
<1>2. LockOut(m) \in ManagedNode(n)
  <2> DEFINE q == [m EXCEPT !.is_defective = TRUE]
  <2>1. q \in ManagedNode(n)
    BY FieldUpdates
  <2>2. [q EXCEPT !.phase = "DEFECTIVE"] \in ManagedNode(n)
    BY <2>1, FieldUpdates DEF RecoveryPhase
  <2> QED BY <2>2 DEF LockOut
<1>3. ASSUME NEW p \in RecoveryPhase PROVE EnterTimed(m, p) \in ManagedNode(n)
  <2> DEFINE q == [m EXCEPT !.phase = p]
  <2>1. q \in ManagedNode(n)
    BY FieldUpdates
  <2>2. [q EXCEPT !.elapsed = 0] \in ManagedNode(n)
    BY <2>1, FieldUpdates
  <2> QED BY <2>2 DEF EnterTimed
<1> QED BY <1>1, <1>2, <1>3

(* Visiting a node keeps its record well typed and its strikes in order:   *)
(* one case of the switch in handle_recovery_fsm per step of the proof.    *)
LEMMA VisitPreserves ==
  ASSUME NEW n \in Node, NEW m \in ManagedNode(n), NEW s \in Report, StrikesInv(m)
  PROVE  Visit(n, m, s) \in ManagedNode(n) /\ StrikesInv(Visit(n, m, s))
<1>1. CASE m.is_defective
  BY <1>1 DEF Visit
<1> DEFINE q == [m EXCEPT !.current_state = s]
<1>2. q \in ManagedNode(n)
  BY FieldUpdates
<1>3. StrikesInv(q) /\ (q.is_defective <=> m.is_defective) /\ q.phase = m.phase
  BY DEF StrikesInv, ManagedNode
<1>4. CASE ~m.is_defective /\ s = "ACTIVE"
  <2>1. Visit(n, m, s) = Stabilized(q)
    BY <1>4 DEF Visit, Evaluate
  <2> HIDE DEF q
  <2>2. Stabilized(q) \in ManagedNode(n)
    BY <1>2, CompoundUpdates
  <2>3. StrikesInv(Stabilized(q))
    BY <1>2, <1>3, <1>4, RetryAssumption DEF StrikesInv, Stabilized, ManagedNode
  <2> QED BY <2>1, <2>2, <2>3
<1>5. CASE ~m.is_defective /\ s \in {"INACTIVE", "UNCONFIGURED"}
  BY <1>2, <1>3, <1>5 DEF Visit, Evaluate
<1>6. CASE ~m.is_defective /\ s = "UNKNOWN"
  <2>1. Visit(n, m, s) = HandleRecoveryFsm(n, q)
    BY <1>6 DEF Visit, Evaluate
  <2> HIDE DEF q
  <2>2. ~q.is_defective /\ q.retry_count \in 0..MAX_RECOVERY_RETRIES
    BY <1>2, <1>3, <1>6, RetryAssumption DEF StrikesInv, ManagedNode
  <2>3. CASE q.phase = "NOMINAL"
    <3> DEFINE k == q.retry_count + 1
               r == [q EXCEPT !.retry_count = k]
    <3>1. k \in 1..(MAX_RECOVERY_RETRIES + 1)
      BY <2>2, RetryAssumption
    <3>2. r \in ManagedNode(n) /\ r.retry_count = k /\ r.phase = "NOMINAL" /\ ~r.is_defective
      BY <1>2, <2>2, <2>3, <3>1, FieldUpdates, RetryAssumption DEF ManagedNode
    <3>3. HandleRecoveryFsm(n, q)
            = IF k > MAX_RECOVERY_RETRIES THEN LockOut(r) ELSE [r EXCEPT !.phase = "POWER_OFF"]
      BY <2>3 DEF HandleRecoveryFsm, Strike, StrikesExhausted
    <3> HIDE DEF k, r
    <3>4. CASE k > MAX_RECOVERY_RETRIES
      <4>1. LockOut(r) \in ManagedNode(n)
        BY <3>2, CompoundUpdates
      <4>2. StrikesInv(LockOut(r))
        BY <3>1, <3>2, <3>4, RetryAssumption DEF StrikesInv, LockOut, ManagedNode
      <4> QED BY <2>1, <3>3, <3>4, <4>1, <4>2
    <3>5. CASE ~(k > MAX_RECOVERY_RETRIES)
      <4>1. [r EXCEPT !.phase = "POWER_OFF"] \in ManagedNode(n)
        BY <3>2, FieldUpdates DEF RecoveryPhase
      <4>2. StrikesInv([r EXCEPT !.phase = "POWER_OFF"])
        BY <3>1, <3>2, <3>5, RetryAssumption DEF StrikesInv, ManagedNode
      <4> QED BY <2>1, <3>3, <3>5, <4>1, <4>2
    <3> QED BY <3>4, <3>5
  <2>4. ASSUME NEW p \in RecoveryPhase \ {"NOMINAL", "DEFECTIVE"}, q.retry_count > 0
        PROVE  StrikesInv(EnterTimed(q, p)) /\ StrikesInv([q EXCEPT !.phase = p])
    BY <1>2, <2>2, <2>4, RetryAssumption DEF StrikesInv, EnterTimed, ManagedNode, RecoveryPhase
  <2>5. CASE q.phase = "POWER_OFF"
    <3>1. HandleRecoveryFsm(n, q) = EnterTimed(q, "WAIT_DISCHARGE") /\ q.retry_count > 0
      BY <1>3, <2>5 DEF HandleRecoveryFsm, StrikesInv
    <3> QED BY <1>2, <2>1, <2>4, <3>1, CompoundUpdates DEF RecoveryPhase
  <2>6. CASE q.phase = "WAIT_DISCHARGE"
    <3>1. /\ HandleRecoveryFsm(n, q) \in {q, [q EXCEPT !.phase = "POWER_ON"]}
          /\ q.retry_count > 0
      BY <1>3, <2>6 DEF HandleRecoveryFsm, StrikesInv
    <3>2. [q EXCEPT !.phase = "POWER_ON"] \in ManagedNode(n)
      BY <1>2, FieldUpdates DEF RecoveryPhase
    <3>3. StrikesInv([q EXCEPT !.phase = "POWER_ON"])
      BY <2>4, <3>1 DEF RecoveryPhase
    <3> QED BY <1>2, <1>3, <2>1, <3>1, <3>2, <3>3
  <2>7. CASE q.phase = "POWER_ON"
    <3>1. HandleRecoveryFsm(n, q) = EnterTimed(q, "WAIT_BOOT") /\ q.retry_count > 0
      BY <1>3, <2>7 DEF HandleRecoveryFsm, StrikesInv
    <3> QED BY <1>2, <2>1, <2>4, <3>1, CompoundUpdates DEF RecoveryPhase
  <2>8. CASE q.phase = "WAIT_BOOT"
    <3>1. HandleRecoveryFsm(n, q) \in {q, EnterTimed(q, "NOMINAL")}
      BY <2>8 DEF HandleRecoveryFsm
    <3>2. EnterTimed(q, "NOMINAL") \in ManagedNode(n)
      BY <1>2, CompoundUpdates DEF RecoveryPhase
    <3>3. StrikesInv(EnterTimed(q, "NOMINAL"))
      BY <1>2, <2>2, RetryAssumption DEF StrikesInv, EnterTimed, ManagedNode
    <3> QED BY <1>2, <1>3, <2>1, <3>1, <3>2, <3>3
  <2>9. q.phase \in RecoveryPhase /\ q.phase # "DEFECTIVE"
    BY <1>2, <1>3, <2>2 DEF StrikesInv, ManagedNode
  <2> QED BY <2>3, <2>5, <2>6, <2>7, <2>8, <2>9 DEF RecoveryPhase
<1> QED BY <1>1, <1>4, <1>5, <1>6 DEF Report

(* The edges a visit can take in the recovery graph, with what happens to  *)
(* the strikes on each and what the clock of the phase must show.          *)
VisitEdge(n, m, v, s) ==
  \/ v.phase = m.phase /\ v.retry_count = m.retry_count /\ v.elapsed = m.elapsed
  \/ s = "ACTIVE" /\ ~m.is_defective /\ v.phase = "NOMINAL" /\ v.retry_count = 0
  \/ /\ m.phase = "NOMINAL" /\ v.phase \in {"POWER_OFF", "DEFECTIVE"}
     /\ v.retry_count = m.retry_count + 1
  \/ /\ m.phase = "POWER_OFF" /\ v.phase = "WAIT_DISCHARGE"
     /\ v.retry_count = m.retry_count /\ v.elapsed = 0
  \/ /\ m.phase = "WAIT_DISCHARGE" /\ v.phase = "POWER_ON"
     /\ v.retry_count = m.retry_count /\ m.elapsed >= PowerOffTime
  \/ /\ m.phase = "POWER_ON" /\ v.phase = "WAIT_BOOT"
     /\ v.retry_count = m.retry_count /\ v.elapsed = 0
  \/ /\ m.phase = "WAIT_BOOT" /\ v.phase = "NOMINAL"
     /\ v.retry_count = m.retry_count /\ m.elapsed >= StartupTime[n]

LEMMA VisitEdges ==
  ASSUME NEW n \in Node, NEW m \in ManagedNode(n), NEW s \in Report, StrikesInv(m)
  PROVE  /\ VisitEdge(n, m, Visit(n, m, s), s)
         /\ m.is_defective => Visit(n, m, s) = m
         /\ ~m.is_defective => Visit(n, m, s).current_state = s
         /\ /\ ~m.is_defective /\ s = "ACTIVE"
            => Visit(n, m, s).phase = "NOMINAL" /\ Visit(n, m, s).retry_count = 0
<1>1. CASE m.is_defective
  BY <1>1 DEF Visit, VisitEdge
<1> DEFINE q == [m EXCEPT !.current_state = s]
<1>2. /\ q \in ManagedNode(n) /\ q.phase = m.phase /\ q.retry_count = m.retry_count
      /\ q.current_state = s /\ q.elapsed = m.elapsed
  BY FieldUpdates DEF ManagedNode
<1>3. CASE ~m.is_defective /\ s = "ACTIVE"
  <2>1. Visit(n, m, s) = Stabilized(q)
    BY <1>3 DEF Visit, Evaluate
  <2> HIDE DEF q
  <2> QED BY <1>2, <1>3, <2>1 DEF Stabilized, VisitEdge, ManagedNode
<1>4. CASE ~m.is_defective /\ s \in {"INACTIVE", "UNCONFIGURED"}
  BY <1>2, <1>4 DEF Visit, Evaluate, VisitEdge
<1>5. CASE ~m.is_defective /\ s = "UNKNOWN"
  <2>1. Visit(n, m, s) = HandleRecoveryFsm(n, q)
    BY <1>5 DEF Visit, Evaluate
  <2> HIDE DEF q
  <2> DEFINE v == HandleRecoveryFsm(n, q)
  <2>2. v.current_state = s /\ VisitEdge(n, q, v, s)
    <3>1. CASE q.phase = "NOMINAL"
      BY <1>2, <3>1 DEF HandleRecoveryFsm, Strike, LockOut, VisitEdge, ManagedNode
    <3>2. CASE q.phase = "POWER_OFF"
      BY <1>2, <3>2 DEF HandleRecoveryFsm, EnterTimed, VisitEdge, ManagedNode
    <3>3. CASE q.phase = "WAIT_DISCHARGE"
      BY <1>2, <3>3 DEF HandleRecoveryFsm, DischargeOver, VisitEdge, ManagedNode
    <3>4. CASE q.phase = "POWER_ON"
      BY <1>2, <3>4 DEF HandleRecoveryFsm, EnterTimed, VisitEdge, ManagedNode
    <3>5. CASE q.phase = "WAIT_BOOT"
      BY <1>2, <3>5 DEF HandleRecoveryFsm, BootOver, EnterTimed, VisitEdge, ManagedNode
    <3>6. CASE q.phase = "DEFECTIVE"
      BY <1>2, <3>6 DEF HandleRecoveryFsm, VisitEdge, ManagedNode
    <3> QED BY <1>2, <3>1, <3>2, <3>3, <3>4, <3>5, <3>6 DEF ManagedNode, RecoveryPhase
  <2> HIDE DEF v
  <2>3. VisitEdge(n, m, v, s)
    BY <1>2, <1>5, <2>2 DEF VisitEdge
  <2> QED BY <1>5, <2>1, <2>2, <2>3 DEF v
<1> QED BY <1>1, <1>3, <1>4, <1>5 DEF Report

(* The clock changes no field but elapsed. *)
LEMMA OlderPreserves ==
  ASSUME NEW n \in Node, NEW m \in ManagedNode(n)
  PROVE  /\ Older(n, m) \in ManagedNode(n)
         /\ Older(n, m).phase = m.phase
         /\ Older(n, m).retry_count = m.retry_count
         /\ Older(n, m).is_defective = m.is_defective
         /\ Older(n, m).current_state = m.current_state
<1>1. LongestWait(n) \in Nat
  BY TimeAssumption DEF LongestWait
<1> QED BY <1>1 DEF Older, ManagedNode

LEMMA InitialNodeFits ==
  ASSUME NEW n \in Node
  PROVE  InitialNode \in ManagedNode(n) /\ StrikesInv(InitialNode)
<1>1. LongestWait(n) \in Nat
  BY TimeAssumption DEF LongestWait
<1> QED BY <1>1, RetryAssumption DEF InitialNode, ManagedNode, RecoveryPhase, Report, StrikesInv

(* Under the strikes invariant the tiers never reach the aggregate: it is  *)
(* EMERGENCY as soon as one node is defective, SOFTWARE_OK when all are    *)
(* ACTIVE, STARTUP otherwise.                                              *)
LEMMA GlobalStateValue ==
  ASSUME NEW nodes, \A n \in Node : nodes[n] \in ManagedNode(n) /\ StrikesInv(nodes[n])
  PROVE  GlobalState(nodes)
           = IF \E n \in Node : nodes[n].is_defective THEN STATE_EMERGENCY
             ELSE IF AllActive(nodes) THEN STATE_SOFTWARE_OK ELSE STATE_SYSTEM_STARTUP
<1>1. \A n \in Node : Contribution(n, nodes[n])
                        = IF nodes[n].is_defective THEN STATE_EMERGENCY ELSE STATE_SYSTEM_STARTUP
  BY DEF Contribution, StrikesInv
<1>2. CASE \E n \in Node : nodes[n].is_defective
  <2>1. Levels(nodes) \subseteq {0, 5} /\ 5 \in Levels(nodes)
    BY <1>1, <1>2 DEF Levels, STATE_EMERGENCY, STATE_SYSTEM_STARTUP
  <2>2. Ext!Max(Levels(nodes)) = 5
    BY <2>1 DEF Ext!Max
  <2> QED BY <1>2, <2>2 DEF GlobalState, AllActive, STATE_EMERGENCY
<1>3. CASE ~ \E n \in Node : nodes[n].is_defective
  <2>1. Levels(nodes) = {0}
    BY <1>1, <1>3 DEF Levels, STATE_EMERGENCY, STATE_SYSTEM_STARTUP
  <2>2. Ext!Max(Levels(nodes)) = 0
    BY <2>1 DEF Ext!Max
  <2> QED BY <1>3, <2>2 DEF GlobalState, STATE_SYSTEM_STARTUP
<1> QED BY <1>2, <1>3

-----------------------------------------------------------------------------
(* The whole state *)

(* TypeOK is not inductive by itself: that retry_count stays within its    *)
(* range needs the lockout. EmergencyIffLockout needs the lockout to be    *)
(* exactly the exhausted retries, or a tier would show in the aggregate.   *)
(* OkMeansAllActive is carried along because it relates the last level to  *)
(* records only the loop that published it has seen.                       *)
IInv ==
  /\ TypeOK
  /\ LockoutIffExhausted
  /\ EmergencyIffLockout
  /\ OkMeansAllActive
  /\ RelayFollowsCycle

LEMMA InitInv == Init => IInv
<1> SUFFICES ASSUME Init PROVE IInv
  OBVIOUS
<1> USE DEF Init, Fresh
<1>1. \A n \in Node : managed_nodes[n] \in ManagedNode(n) /\ StrikesInv(managed_nodes[n])
  BY InitialNodeFits
<1>2. TypeOK
  BY <1>1 DEF TypeOK, Transition
<1>3. LockoutIffExhausted
  BY <1>1 DEF LockoutIffExhausted, StrikesInv
<1>4. EmergencyIffLockout /\ OkMeansAllActive
  BY DEF EmergencyIffLockout, OkMeansAllActive, NO_SAMPLE, STATE_SOFTWARE_OK
<1>5. RelayFollowsCycle
  BY DEF RelayFollowsCycle, InitialNode
<1> QED BY <1>2, <1>3, <1>4, <1>5 DEF IInv

(* One run of monitor_loop over all nodes. *)
LEMMA TickInv == IInv /\ Tick => IInv'
<1> SUFFICES ASSUME IInv, NEW report \in [Node -> Report], MonitorLoop(report)
             PROVE  IInv'
  BY DEF Tick
<1> DEFINE visited == [n \in Node |-> Visit(n, managed_nodes[n], report[n])]
<1>1. \A n \in Node : managed_nodes[n] \in ManagedNode(n) /\ StrikesInv(managed_nodes[n])
  BY DEF IInv, TypeOK, LockoutIffExhausted, StrikesInv
<1>2. \A n \in Node : visited[n] \in ManagedNode(n) /\ StrikesInv(visited[n])
  BY <1>1, VisitPreserves
<1>3. managed_nodes' = visited /\ health' = GlobalState(visited)
  BY DEF MonitorLoop, Published
<1>4. \A n \in Node : VisitEdge(n, managed_nodes[n], visited[n], report[n])
  BY <1>1, VisitEdges
<1> HIDE DEF visited
<1>5. GlobalState(visited)
        = IF \E n \in Node : visited[n].is_defective THEN STATE_EMERGENCY
          ELSE IF AllActive(visited) THEN STATE_SOFTWARE_OK ELSE STATE_SYSTEM_STARTUP
  BY <1>2, GlobalStateValue
<1>6. TypeOK'
  <2>1. relay' \in [Node -> BOOLEAN]
    BY DEF MonitorLoop, RelayAfter, IInv, TypeOK
  <2>2. requested' \in [Node -> Transition]
    BY DEF MonitorLoop, Request, Transition
  <2>3. health' \in FdirLevel \cup {NO_SAMPLE}
    BY <1>3, <1>5 DEF FdirLevel, STATE_EMERGENCY, STATE_SOFTWARE_OK, STATE_SYSTEM_STARTUP
  <2>4. cutoff' \in BOOLEAN /\ pulse' \in BOOLEAN
    BY DEF MonitorLoop
  <2>5. DOMAIN managed_nodes' = Node
    BY <1>3 DEF visited
  <2> QED BY <1>2, <1>3, <2>1, <2>2, <2>3, <2>4, <2>5 DEF TypeOK
<1>7. LockoutIffExhausted'
  BY <1>2, <1>3 DEF LockoutIffExhausted, StrikesInv
<1>8. EmergencyIffLockout'
  <2>1. health' = STATE_EMERGENCY <=> cutoff'
    BY DEF MonitorLoop, Published
  <2>2. /\ health' = STATE_EMERGENCY <=> \E n \in Node : managed_nodes'[n].is_defective
        /\ health' \in {STATE_SYSTEM_STARTUP, STATE_SOFTWARE_OK, STATE_EMERGENCY}
    BY <1>3, <1>5 DEF STATE_EMERGENCY, STATE_SOFTWARE_OK, STATE_SYSTEM_STARTUP
  <2> QED BY <2>1, <2>2 DEF EmergencyIffLockout
<1>9. OkMeansAllActive'
  <2> SUFFICES ASSUME health' = STATE_SOFTWARE_OK, NEW n \in Node
               PROVE  /\ visited[n].current_state = "ACTIVE"
                      /\ visited[n].phase = "NOMINAL"
                      /\ visited[n].retry_count = 0
                      /\ requested'[n] = "none"
    BY <1>3 DEF OkMeansAllActive
  <2>1. visited[n].current_state = "ACTIVE" /\ ~visited[n].is_defective
    BY <1>3, <1>5 DEF AllActive, STATE_EMERGENCY, STATE_SOFTWARE_OK, STATE_SYSTEM_STARTUP
  <2>2. ~managed_nodes[n].is_defective /\ report[n] = "ACTIVE"
    BY <1>1, <2>1, VisitEdges DEF visited
  <2>3. visited[n] = Stabilized([managed_nodes[n] EXCEPT !.current_state = report[n]])
    BY <2>2 DEF visited, Visit, Evaluate
  <2>4. visited[n].phase = "NOMINAL" /\ visited[n].retry_count = 0
    BY <1>1, <2>3 DEF Stabilized, ManagedNode
  <2>5. requested'[n] = "none"
    BY <2>2 DEF MonitorLoop, Request
  <2> QED BY <2>1, <2>4, <2>5
<1>10. RelayFollowsCycle'
  <2> SUFFICES ASSUME NEW n \in Node, ResetMechanism[n] = "HARDWARE_RELAY"
               PROVE  /\ visited[n].phase \in {"WAIT_DISCHARGE", "POWER_ON"} => ~relay'[n]
                      /\ visited[n].phase = "WAIT_BOOT" => relay'[n]
                      /\ visited[n].retry_count > 0 /\ visited[n].phase = "NOMINAL" => relay'[n]
                      /\ /\ visited[n].retry_count > 1
                         /\ visited[n].phase \in {"POWER_OFF", "DEFECTIVE"}
                         => relay'[n]
    BY <1>3 DEF RelayFollowsCycle
  <2>1. relay'[n] = RelayAfter(n, managed_nodes[n], visited[n], relay[n])
    BY DEF MonitorLoop, visited
  <2>2. managed_nodes[n].retry_count \in Nat
    BY <1>1, RetryAssumption DEF ManagedNode
  <2>3. /\ managed_nodes[n].phase \in {"WAIT_DISCHARGE", "POWER_ON"} => ~relay[n]
        /\ managed_nodes[n].phase = "WAIT_BOOT" => relay[n]
        /\ managed_nodes[n].retry_count > 0 /\ managed_nodes[n].phase = "NOMINAL" => relay[n]
        /\ /\ managed_nodes[n].retry_count > 1
           /\ managed_nodes[n].phase \in {"POWER_OFF", "DEFECTIVE"}
           => relay[n]
    BY DEF IInv, RelayFollowsCycle
  <2> QED BY <1>4, <2>1, <2>2, <2>3 DEF VisitEdge, RelayAfter
<1> QED BY <1>6, <1>7, <1>8, <1>9, <1>10 DEF IInv

(* Time alone disturbs nothing. *)
LEMMA ElapseInv == IInv /\ Elapse => IInv'
<1> SUFFICES ASSUME IInv, Elapse PROVE IInv'
  OBVIOUS
<1>1. \A n \in Node :
        /\ managed_nodes'[n] \in ManagedNode(n)
        /\ managed_nodes'[n].phase = managed_nodes[n].phase
        /\ managed_nodes'[n].retry_count = managed_nodes[n].retry_count
        /\ managed_nodes'[n].is_defective = managed_nodes[n].is_defective
        /\ managed_nodes'[n].current_state = managed_nodes[n].current_state
  BY OlderPreserves DEF IInv, TypeOK, Elapse
<1>2. UNCHANGED <<relay, requested, health, cutoff, pulse>> /\ DOMAIN managed_nodes' = Node
  BY DEF Elapse
<1>3. TypeOK'
  BY <1>1, <1>2 DEF IInv, TypeOK
<1>4. LockoutIffExhausted'
  BY <1>1 DEF IInv, LockoutIffExhausted
<1>5. EmergencyIffLockout'
  BY <1>1, <1>2 DEF IInv, EmergencyIffLockout
<1>6. OkMeansAllActive'
  BY <1>1, <1>2 DEF IInv, OkMeansAllActive
<1>7. RelayFollowsCycle'
  BY <1>1, <1>2 DEF IInv, RelayFollowsCycle
<1> QED BY <1>3, <1>4, <1>5, <1>6, <1>7 DEF IInv

(* A new incarnation starts from scratch, over whatever relay position.    *)
LEMMA RestartInv == IInv /\ Restart => IInv'
<1> SUFFICES ASSUME IInv, Restart PROVE IInv'
  OBVIOUS
<1> USE DEF Restart
<1>1. \A n \in Node : managed_nodes'[n] \in ManagedNode(n) /\ StrikesInv(managed_nodes'[n])
  BY InitialNodeFits
<1>2. TypeOK'
  BY <1>1 DEF IInv, TypeOK, Transition
<1>3. LockoutIffExhausted'
  BY <1>1 DEF LockoutIffExhausted, StrikesInv
<1>4. EmergencyIffLockout' /\ OkMeansAllActive'
  BY DEF EmergencyIffLockout, OkMeansAllActive, NO_SAMPLE, STATE_SOFTWARE_OK
<1>5. RelayFollowsCycle'
  BY DEF RelayFollowsCycle, InitialNode
<1> QED BY <1>2, <1>3, <1>4, <1>5 DEF IInv

LEMMA StepInv == IInv /\ [Next]_vars => IInv'
<1>1. IInv /\ UNCHANGED vars => IInv'
  BY DEF IInv, vars, TypeOK, LockoutIffExhausted, EmergencyIffLockout, OkMeansAllActive,
         RelayFollowsCycle
<1> QED BY <1>1, TickInv, ElapseInv, RestartInv DEF Next

(* The inductive invariant holds in every reachable state. *)
THEOREM Invariance == Spec => []IInv
BY InitInv, StepInv, PTL DEF Spec

(* Every record, command and published level has its type; in particular a *)
(* component never collects more than MAX_RECOVERY_RETRIES + 1 strikes.    *)
THEOREM TypeCorrect == Spec => []TypeOK
<1>1. IInv => TypeOK
  BY DEF IInv
<1> QED BY <1>1, Invariance, PTL

(* A component is locked out exactly when its strikes are exhausted.       *)
THEOREM LockoutCorrect == Spec => []LockoutIffExhausted
<1>1. IInv => LockoutIffExhausted
  BY DEF IInv
<1> QED BY <1>1, Invariance, PTL

(* EMERGENCY and the power cut are commanded exactly while a component is  *)
(* locked out, and PROTECTIVE_STOP, DEGRADED and RECONFIGURED never.       *)
THEOREM EmergencyCorrect == Spec => []EmergencyIffLockout
<1>1. IInv => EmergencyIffLockout
  BY DEF IInv
<1> QED BY <1>1, Invariance, PTL

(* SOFTWARE_OK is published only over components that all answered ACTIVE  *)
(* in that loop.                                                           *)
THEOREM OkCorrect == Spec => []OkMeansAllActive
<1>1. IInv => OkMeansAllActive
  BY DEF IInv
<1> QED BY <1>1, Invariance, PTL

(* No component is locked out, or left after a full cycle, without power.  *)
THEOREM RelayCorrect == Spec => []RelayFollowsCycle
<1>1. IInv => RelayFollowsCycle
  BY DEF IInv
<1> QED BY <1>1, Invariance, PTL

(* EMERGENCY is irreversible within one incarnation of the manager.        *)
THEOREM EmergencyStays == Spec => EmergencyIrreversible
<1>1. IInv /\ IInv' /\ [Next]_vars
        => [health = STATE_EMERGENCY => health' = STATE_EMERGENCY \/ Restart]_vars
  <2> SUFFICES ASSUME IInv, IInv', [Next]_vars, health = STATE_EMERGENCY, ~Restart
               PROVE  health' = STATE_EMERGENCY
    BY DEF vars
  <2>1. CASE UNCHANGED health
    BY <2>1
  <2>2. CASE Tick
    <3>1. PICK report \in [Node -> Report] : MonitorLoop(report)
      BY <2>2 DEF Tick
    <3>2. PICK n \in Node : managed_nodes[n].is_defective
      BY DEF IInv, EmergencyIffLockout, STATE_EMERGENCY, NO_SAMPLE
    <3>3. managed_nodes'[n] = managed_nodes[n]
      BY <3>1, <3>2 DEF MonitorLoop, Visit
    <3>4. health' # NO_SAMPLE
      <4>1. \A k \in Node : managed_nodes'[k] \in ManagedNode(k) /\ StrikesInv(managed_nodes'[k])
        BY DEF IInv, TypeOK, LockoutIffExhausted, StrikesInv
      <4>2. health' = GlobalState(managed_nodes')
        BY <3>1 DEF MonitorLoop, Published
      <4> QED BY <4>1, <4>2, GlobalStateValue
            DEF NO_SAMPLE, STATE_EMERGENCY, STATE_SOFTWARE_OK, STATE_SYSTEM_STARTUP
    <3> QED BY <3>2, <3>3, <3>4 DEF IInv, EmergencyIffLockout
  <2> QED BY <2>1, <2>2 DEF Next, Elapse, vars
<1> QED BY <1>1, Invariance, PTL DEF Spec, EmergencyIrreversible

(* Only an ACTIVE answer forgives strikes.                                 *)
THEOREM ForgivenessCorrect == Spec => OnlyActiveForgives
<1> DEFINE Forgives(n) ==
      managed_nodes'[n].retry_count < managed_nodes[n].retry_count =>
        \/ Restart
        \/ /\ managed_nodes'[n].current_state = "ACTIVE"
           /\ ~managed_nodes[n].is_defective
<1>1. IInv /\ [Next]_vars => [\A n \in Node : Forgives(n)]_vars
  <2> SUFFICES ASSUME IInv, Next, NEW n \in Node PROVE Forgives(n)
    OBVIOUS
  <2>1. managed_nodes[n] \in ManagedNode(n) /\ StrikesInv(managed_nodes[n])
    BY DEF IInv, TypeOK, LockoutIffExhausted, StrikesInv
  <2>2. managed_nodes[n].retry_count \in Int
    BY <2>1, RetryAssumption DEF ManagedNode
  <2>3. CASE Tick
    <3>1. PICK report \in [Node -> Report] : MonitorLoop(report)
      BY <2>3 DEF Tick
    <3>2. managed_nodes'[n] = Visit(n, managed_nodes[n], report[n])
      BY <3>1 DEF MonitorLoop
    <3>3. /\ VisitEdge(n, managed_nodes[n], managed_nodes'[n], report[n])
          /\ ~managed_nodes[n].is_defective => managed_nodes'[n].current_state = report[n]
      BY <2>1, <3>2, VisitEdges
    <3> QED BY <2>2, <3>3 DEF VisitEdge
  <2>4. CASE Elapse
    <3>1. managed_nodes'[n].retry_count = managed_nodes[n].retry_count
      BY <2>1, <2>4, OlderPreserves DEF Elapse
    <3> QED BY <2>2, <3>1
  <2> QED BY <2>3, <2>4 DEF Next
<1> QED BY <1>1, Invariance, PTL DEF Spec, OnlyActiveForgives

-----------------------------------------------------------------------------
(* The manager implements the supervisor *)

(* Only a component that fails to answer is given up. *)
LEMMA OnlyUnknownLocksOut ==
  ASSUME NEW n \in Node, NEW m \in ManagedNode(n), NEW s \in Report, StrikesInv(m),
         ~m.is_defective, Visit(n, m, s).is_defective
  PROVE  s = "UNKNOWN"
<1> SUFFICES ASSUME s # "UNKNOWN" PROVE FALSE
  OBVIOUS
<1> DEFINE q == [m EXCEPT !.current_state = s]
<1>1. ~q.is_defective
  BY DEF ManagedNode
<1>2. CASE s = "ACTIVE"
  <2>1. Visit(n, m, s) = Stabilized(q)
    BY <1>2 DEF Visit, Evaluate
  <2>2. q \in ManagedNode(n)
    BY FieldUpdates
  <2> HIDE DEF q
  <2>3. ~Stabilized(q).is_defective
    BY <1>1, <2>2 DEF Stabilized, ManagedNode
  <2> QED BY <2>1, <2>3
<1>3. CASE s \in {"INACTIVE", "UNCONFIGURED"}
  BY <1>1, <1>3 DEF Visit, Evaluate
<1> QED BY <1>2, <1>3 DEF Report

LEMMA TickIsPass == IInv /\ Tick => Abstract!Next
<1> SUFFICES ASSUME IInv, NEW report \in [Node -> Report], MonitorLoop(report)
             PROVE  Abstract!Next
  BY DEF Tick
<1> DEFINE visited == [n \in Node |-> Visit(n, managed_nodes[n], report[n])]
           before == {n \in Node : managed_nodes[n].is_defective}
           after == {n \in Node : visited[n].is_defective}
<1>0. PICK lost \in SUBSET Node : lost = after \ before
  OBVIOUS
<1>1. \A n \in Node : managed_nodes[n] \in ManagedNode(n) /\ StrikesInv(managed_nodes[n])
  BY DEF IInv, TypeOK, LockoutIffExhausted, StrikesInv
<1>2. \A n \in Node : visited[n] \in ManagedNode(n) /\ StrikesInv(visited[n])
  BY <1>1, VisitPreserves
<1>3. managed_nodes' = visited /\ health' = GlobalState(visited)
  BY DEF MonitorLoop, Published
<1>4. \A n \in Node : n \in lost => n \notin before /\ report[n] = "UNKNOWN"
  BY <1>0, <1>1, OnlyUnknownLocksOut
<1>5. \A n \in Node : n \in before => visited[n] = managed_nodes[n]
  BY DEF Visit
<1>6. after = before \cup lost
  BY <1>0, <1>5
<1>7. \A n \in Node : n \notin before => visited[n].current_state = report[n]
  BY <1>1, VisitEdges
<1> HIDE DEF visited
<1>8. AllActive(visited) <=> \A n \in Node : n \notin before /\ report[n] = "ACTIVE"
  <2>1. ASSUME NEW n \in Node
        PROVE  ~visited[n].is_defective /\ visited[n].current_state = "ACTIVE"
                 <=> n \notin before /\ report[n] = "ACTIVE"
    <3>1. CASE n \in before
      BY <1>5, <3>1
    <3>2. CASE n \notin before
      BY <1>0, <1>4, <1>7, <3>2
    <3> QED BY <3>1, <3>2
  <2> HIDE DEF before
  <2> QED BY <2>1 DEF AllActive
<1>9. GlobalState(visited)
        = IF after # {} THEN STATE_EMERGENCY
          ELSE IF AllActive(visited) THEN STATE_SOFTWARE_OK ELSE STATE_SYSTEM_STARTUP
  <2>1. after # {} <=> \E n \in Node : visited[n].is_defective
    OBVIOUS
  <2> HIDE DEF after
  <2> QED BY <1>2, <2>1, GlobalStateValue
<1>10. health' = Abstract!Verdict(report, lost)
  <2>1. AllActive(visited) => after = {}
    BY DEF AllActive
  <2> HIDE DEF after, before
  <2>2. AllActive(visited) <=> \A n \in Node : n \notin before /\ report[n] = "ACTIVE"
    BY <1>8
  <2>3. Abstract!Verdict(report, lost)
          = IF AllActive(visited) THEN 1 ELSE IF after # {} THEN 5 ELSE 0
    BY <1>6, <2>2 DEF Abstract!Verdict, before, Abstract!STATE_SOFTWARE_OK,
       Abstract!STATE_EMERGENCY, Abstract!STATE_SYSTEM_STARTUP
  <2> QED BY <1>3, <1>9, <2>1, <2>3
        DEF STATE_EMERGENCY, STATE_SOFTWARE_OK, STATE_SYSTEM_STARTUP
<1>11. \A n \in Node : requested'[n] \in Abstract!Requests(n, report[n])
  <2> SUFFICES ASSUME NEW n \in Node
               PROVE  requested'[n] \in Abstract!Requests(n, report[n])
    OBVIOUS
  <2>1. requested'[n] = Request(n, managed_nodes[n], report[n])
    BY DEF MonitorLoop
  <2>2. report[n] \in Report
    OBVIOUS
  <2> QED BY <2>1, <2>2 DEF Request, Abstract!Requests, Report
<1>12. DOMAIN requested' = Node /\ (cutoff' <=> health' = Abstract!STATE_EMERGENCY)
  BY DEF MonitorLoop, Published, STATE_EMERGENCY, Abstract!STATE_EMERGENCY
<1>13. Abstract!Pass(report, lost)
  <2>1. {n \in Node : managed_nodes'[n].is_defective} = before \cup lost
    BY <1>3, <1>6
  <2>2. \A n \in lost : n \notin before /\ report[n] = "UNKNOWN"
    BY <1>4
  <2>3. cutoff' = (health' = Abstract!STATE_EMERGENCY)
    BY <1>12 DEF MonitorLoop, Published, STATE_EMERGENCY, Abstract!STATE_EMERGENCY
  <2> QED BY <1>10, <1>11, <1>12, <2>1, <2>2, <2>3 DEF Abstract!Pass
<1>14. report \in [Node -> Abstract!Answer]
  BY DEF Abstract!Answer, Report
<1> QED BY <1>13, <1>14 DEF Abstract!Next

LEMMA ElapseStutters == IInv /\ Elapse => UNCHANGED Abstract!vars
<1> SUFFICES ASSUME IInv, Elapse PROVE UNCHANGED Abstract!vars
  OBVIOUS
<1>1. \A n \in Node : managed_nodes'[n].is_defective = managed_nodes[n].is_defective
  BY OlderPreserves DEF IInv, TypeOK, Elapse
<1> QED BY <1>1 DEF Elapse, Abstract!vars

LEMMA RestartMaps == Restart => Abstract!Next
BY DEF Restart, InitialNode, NO_SAMPLE, Abstract!Next, Abstract!Restart, Abstract!NO_SAMPLE

(* Every step of the manager is a step of the supervisor or changes        *)
(* nothing the other nodes can see: MonitorLoop is a pass that gives up    *)
(* the components locked out in it.                                        *)
THEOREM ManagerImplementsSupervisor == Spec => ImplementsSupervisor
<1>1. Init => Abstract!Init
  BY DEF Init, Fresh, InitialNode, NO_SAMPLE, Abstract!Init, Abstract!NO_SAMPLE
<1>2. IInv /\ [Next]_vars => [Abstract!Next]_(Abstract!vars)
  <2>1. UNCHANGED vars => UNCHANGED Abstract!vars
    BY DEF vars, Abstract!vars
  <2> QED BY <2>1, TickIsPass, ElapseStutters, RestartMaps DEF Next
<1> QED BY <1>1, <1>2, Invariance, PTL DEF Spec, ImplementsSupervisor, Abstract!Spec

-----------------------------------------------------------------------------
(* Waits *)

(* Time that k complete cycles of component n take. *)
Cycles(k, n) == k * CycleTime(n)

LEMMA CyclesAdd ==
  ASSUME NEW n \in Node
  PROVE  /\ CycleTime(n) \in Nat
         /\ \A k \in Nat : Cycles(k, n) \in Nat
         /\ Cycles(0, n) = 0
         /\ \A k \in Nat : Cycles(k + 1, n) = Cycles(k, n) + PowerOffTime + StartupTime[n]
         /\ Cycles(MAX_RECOVERY_RETRIES, n) = LockoutTime(n)
<1>1. PowerOffTime \in Nat /\ StartupTime[n] \in Nat /\ CycleTime(n) \in Nat
  BY TimeAssumption DEF CycleTime
<1>2. \A k \in Nat : k * CycleTime(n) \in Nat /\ (k + 1) * CycleTime(n) = k * CycleTime(n) + CycleTime(n)
  BY <1>1
<1>3. 0 * CycleTime(n) = 0
  BY <1>1
<1>4. \A k \in Nat : Cycles(k + 1, n) = Cycles(k, n) + PowerOffTime + StartupTime[n]
  BY <1>1, <1>2 DEF Cycles, CycleTime
<1> QED BY <1>1, <1>2, <1>3, <1>4 DEF Cycles, LockoutTime

(* What the time since the last ACTIVE answer must be in each phase of the *)
(* recovery: the cycles already completed, plus the part of the running    *)
(* one that is over.                                                       *)
PhaseTime(n, m, t) ==
  LET done == Cycles(m.retry_count - 1, n)
  IN  /\ m.phase = "NOMINAL"   => t >= Cycles(m.retry_count, n)
      /\ m.phase = "DEFECTIVE" => t = LockoutTime(n)
      /\ m.phase \in {"POWER_OFF", "WAIT_DISCHARGE"} => t >= done
      /\ m.phase = "WAIT_DISCHARGE" => \/ t >= done + m.elapsed
                                       \/ t >= done + PowerOffTime
      /\ m.phase = "POWER_ON"  => t >= done + PowerOffTime
      /\ m.phase = "WAIT_BOOT" => /\ t >= done + PowerOffTime
                                  /\ \/ t >= done + PowerOffTime + m.elapsed
                                     \/ t >= done + PowerOffTime + StartupTime[n]

(* ... and what the time since the relay was opened must be.               *)
PhaseOpen(n, m, closed, t) ==
  ResetMechanism[n] = "HARDWARE_RELAY" =>
    /\ m.phase = "WAIT_DISCHARGE" => t >= m.elapsed \/ t >= PowerOffTime
    /\ m.phase = "POWER_ON" => t >= PowerOffTime
    /\ m.phase \in {"WAIT_DISCHARGE", "POWER_ON"} => ~closed

PhaseInv ==
  \A n \in Node :
    /\ PhaseTime(n, managed_nodes[n], since_active[n])
    /\ PhaseOpen(n, managed_nodes[n], relay[n], open_for[n])

(* PhaseTime survives a visit. *)
LEMMA VisitTime ==
  ASSUME NEW n \in Node, NEW m \in ManagedNode(n), NEW v \in ManagedNode(n), NEW s \in Report,
         StrikesInv(m), StrikesInv(v), VisitEdge(n, m, v, s),
         NEW t \in 0..LockoutTime(n), PhaseTime(n, m, t)
  PROVE  PhaseTime(n, v, t)
<1> DEFINE k == m.retry_count
<1>1. /\ k \in 0..(MAX_RECOVERY_RETRIES + 1) /\ v.retry_count \in 0..(MAX_RECOVERY_RETRIES + 1)
      /\ m.elapsed \in Nat /\ v.elapsed \in Nat
      /\ PowerOffTime \in Nat /\ StartupTime[n] \in Nat /\ LockoutTime(n) \in Nat
  <2>1. LongestWait(n) \in Nat
    BY TimeAssumption DEF LongestWait
  <2> QED BY <2>1, CyclesAdd, TimeAssumption, RetryAssumption DEF ManagedNode
<1>2. CASE v.phase = m.phase /\ v.retry_count = k /\ v.elapsed = m.elapsed
  BY <1>2 DEF PhaseTime
<1>3. CASE v.phase = "NOMINAL" /\ v.retry_count = 0
  BY <1>1, <1>3, CyclesAdd DEF PhaseTime
<1>4. CASE m.phase = "NOMINAL" /\ v.phase = "POWER_OFF" /\ v.retry_count = k + 1
  <2>1. v.retry_count - 1 = k
    BY <1>1, <1>4
  <2> QED BY <1>4, <2>1 DEF PhaseTime
<1>5. CASE m.phase = "NOMINAL" /\ v.phase = "DEFECTIVE" /\ v.retry_count = k + 1
  <2>1. k = MAX_RECOVERY_RETRIES
    BY <1>1, <1>5, RetryAssumption DEF StrikesInv
  <2>2. t >= LockoutTime(n)
    BY <1>5, <2>1, CyclesAdd DEF PhaseTime
  <2> QED BY <1>1, <1>5, <2>2 DEF PhaseTime
<1>6. CASE m.phase \in {"POWER_OFF", "WAIT_DISCHARGE", "POWER_ON", "WAIT_BOOT"} /\ v.retry_count = k
  <2> DEFINE done == Cycles(k - 1, n)
  <2>1. k - 1 \in Nat /\ k = (k - 1) + 1
    BY <1>1, <1>6 DEF StrikesInv
  <2>2. done \in Nat /\ Cycles(k, n) = done + PowerOffTime + StartupTime[n]
    BY <2>1, CyclesAdd
  <2> HIDE DEF done
  <2>3. CASE m.phase = "POWER_OFF" /\ v.phase = "WAIT_DISCHARGE" /\ v.elapsed = 0
    BY <1>1, <1>6, <2>2, <2>3 DEF PhaseTime, done
  <2>4. CASE m.phase = "WAIT_DISCHARGE" /\ v.phase = "POWER_ON" /\ m.elapsed >= PowerOffTime
    BY <1>1, <1>6, <2>2, <2>4 DEF PhaseTime, done
  <2>5. CASE m.phase = "POWER_ON" /\ v.phase = "WAIT_BOOT" /\ v.elapsed = 0
    BY <1>1, <1>6, <2>2, <2>5 DEF PhaseTime, done
  <2>6. CASE m.phase = "WAIT_BOOT" /\ v.phase = "NOMINAL" /\ m.elapsed >= StartupTime[n]
    BY <1>1, <1>6, <2>2, <2>6 DEF PhaseTime, done
  <2> QED BY <1>2, <1>3, <1>6, <2>3, <2>4, <2>5, <2>6 DEF VisitEdge
<1> QED BY <1>2, <1>3, <1>4, <1>5, <1>6 DEF VisitEdge

(* PhaseTime survives the clock: both sides advance together, and the side *)
(* that has stopped has reached every bound it is compared with.           *)
LEMMA OlderTime ==
  ASSUME NEW n \in Node, NEW m \in ManagedNode(n), StrikesInv(m),
         NEW t \in 0..LockoutTime(n), PhaseTime(n, m, t)
  PROVE  /\ UpTo(LockoutTime(n), t) \in 0..LockoutTime(n)
         /\ PhaseTime(n, Older(n, m), UpTo(LockoutTime(n), t))
<1> DEFINE k == m.retry_count
           o == Older(n, m)
           u == UpTo(LockoutTime(n), t)
<1>1. /\ k \in 0..(MAX_RECOVERY_RETRIES + 1) /\ MAX_RECOVERY_RETRIES \in Nat
      /\ m.elapsed \in Nat
      /\ PowerOffTime \in Nat /\ StartupTime[n] \in Nat /\ LockoutTime(n) \in Nat
  <2>1. LongestWait(n) \in Nat
    BY TimeAssumption DEF LongestWait
  <2> QED BY <2>1, CyclesAdd, TimeAssumption, RetryAssumption DEF ManagedNode
<1>2. /\ o.phase = m.phase /\ o.retry_count = k
      /\ o.elapsed \in {m.elapsed, m.elapsed + 1}
  BY OlderPreserves DEF Older, ManagedNode
<1>3. /\ u \in 0..LockoutTime(n) /\ u >= t
      /\ t < LockoutTime(n) => u = t + 1
      /\ t = LockoutTime(n) => u = t
  BY <1>1 DEF UpTo
<1> HIDE DEF o, u
<1>4. CASE m.phase = "NOMINAL"
  <2>1. Cycles(k, n) \in Nat
    BY <1>1, CyclesAdd
  <2> QED BY <1>1, <1>2, <1>3, <1>4, <2>1 DEF PhaseTime, o, u
<1>5. CASE m.phase = "DEFECTIVE"
  BY <1>2, <1>3, <1>5 DEF PhaseTime, o, u
<1>6. CASE m.phase \in {"POWER_OFF", "WAIT_DISCHARGE", "POWER_ON", "WAIT_BOOT"}
  <2> DEFINE done == Cycles(k - 1, n)
  <2>1. k - 1 \in Nat /\ k = (k - 1) + 1 /\ k <= MAX_RECOVERY_RETRIES
    BY <1>1, <1>6 DEF StrikesInv
  <2>2. done \in Nat /\ Cycles(k, n) = done + PowerOffTime + StartupTime[n]
    BY <2>1, CyclesAdd
  <2>3. Cycles(k, n) <= LockoutTime(n)
    <3>1. CycleTime(n) \in Nat
      BY CyclesAdd
    <3>2. k * CycleTime(n) <= MAX_RECOVERY_RETRIES * CycleTime(n)
      BY <1>1, <2>1, <3>1
    <3> QED BY <3>2 DEF Cycles, LockoutTime
  <2> HIDE DEF done
  <2>4. CASE m.phase \in {"POWER_OFF", "POWER_ON"}
    BY <1>1, <1>2, <1>3, <2>2, <2>3, <2>4 DEF PhaseTime, done, o, u
  <2>5. CASE m.phase = "WAIT_DISCHARGE"
    BY <1>1, <1>2, <1>3, <2>2, <2>3, <2>5 DEF PhaseTime, done, o, u
  <2>6. CASE m.phase = "WAIT_BOOT"
    BY <1>1, <1>2, <1>3, <2>2, <2>3, <2>6 DEF PhaseTime, done, o, u
  <2> QED BY <1>6, <2>4, <2>5, <2>6
<1> QED BY <1>3, <1>4, <1>5, <1>6 DEF ManagedNode, RecoveryPhase, o, u

-----------------------------------------------------------------------------
(* The whole state *)

TimingInv == IInv /\ TimingTypeOK /\ PhaseInv

LEMMA TimingInitInv == TimingInit => TimingInv
<1> SUFFICES ASSUME TimingInit PROVE TimingInv
  OBVIOUS
<1>1. IInv
  BY InitInv DEF TimingInit
<1>2. TimingTypeOK
  BY <1>1, CyclesAdd, TimeAssumption, RetryAssumption DEF IInv, TimingTypeOK, TimingInit, LockoutTime
<1>3. PhaseInv
  BY CyclesAdd DEF TimingInit, Init, Fresh, InitialNode, PhaseInv, PhaseTime, PhaseOpen
<1> QED BY <1>1, <1>2, <1>3 DEF TimingInv

LEMMA TimedTickInv == TimingInv /\ TimedTick => TimingInv'
<1> SUFFICES ASSUME TimingInv, TimedTick PROVE TimingInv'
  OBVIOUS
<1>1. IInv'
  BY StepInv DEF TimingInv, TimedTick, Next
<1>2. PICK report \in [Node -> Report] : MonitorLoop(report)
  BY DEF TimedTick, Tick
<1>3. TimingTypeOK'
  BY <1>1, CyclesAdd, TimeAssumption, RetryAssumption
  DEF IInv, TimingInv, TimingTypeOK, TimedTick, LockoutTime
<1>4. ASSUME NEW n \in Node
      PROVE  /\ PhaseTime(n, managed_nodes'[n], since_active'[n])
             /\ PhaseOpen(n, managed_nodes'[n], relay'[n], open_for'[n])
  <2> DEFINE m == managed_nodes[n]
             v == managed_nodes'[n]
             s == report[n]
  <2>1. /\ m \in ManagedNode(n) /\ StrikesInv(m) /\ v \in ManagedNode(n) /\ StrikesInv(v)
        /\ relay[n] \in BOOLEAN /\ s \in Report
    BY <1>1 DEF TimingInv, IInv, TypeOK, LockoutIffExhausted, StrikesInv
  <2>2. v = Visit(n, m, s) /\ relay'[n] = RelayAfter(n, m, v, relay[n])
    BY <1>2 DEF MonitorLoop
  <2>3. /\ VisitEdge(n, m, v, s)
        /\ m.is_defective => v = m
        /\ ~m.is_defective => v.current_state = s
        /\ ~m.is_defective /\ s = "ACTIVE" => v.phase = "NOMINAL" /\ v.retry_count = 0
    BY <2>1, <2>2, VisitEdges
  <2>4. /\ since_active[n] \in 0..LockoutTime(n) /\ open_for[n] \in 0..PowerOffTime
        /\ PhaseTime(n, m, since_active[n])
        /\ PhaseOpen(n, m, relay[n], open_for[n])
    BY DEF TimingInv, TimingTypeOK, PhaseInv
  <2>5. /\ since_active'[n] = IF v.current_state = "ACTIVE" /\ ~v.is_defective
                              THEN 0 ELSE since_active[n]
        /\ open_for'[n] = IF relay[n] /\ ~relay'[n] THEN 0 ELSE open_for[n]
    BY DEF TimedTick
  <2>6. /\ PowerOffTime \in Nat /\ m.elapsed \in Nat /\ v.elapsed \in Nat
    <3>1. LongestWait(n) \in Nat
      BY TimeAssumption DEF LongestWait
    <3> QED BY <2>1, <3>1, TimeAssumption DEF ManagedNode
  <2> HIDE DEF m, v, s
  <2>7. PhaseTime(n, v, since_active'[n])
    <3>1. CASE v.current_state = "ACTIVE" /\ ~v.is_defective
      <4>1. v.phase = "NOMINAL" /\ v.retry_count = 0
        BY <2>3, <3>1
      <4> QED BY <2>5, <3>1, <4>1, CyclesAdd DEF PhaseTime
    <3>2. CASE ~(v.current_state = "ACTIVE" /\ ~v.is_defective)
      BY <2>1, <2>3, <2>4, <2>5, <3>2, VisitTime
    <3> QED BY <3>1, <3>2
  <2>8. PhaseOpen(n, v, relay'[n], open_for'[n])
    BY <2>1, <2>2, <2>3, <2>4, <2>5, <2>6 DEF PhaseOpen, VisitEdge, RelayAfter
  <2> QED BY <2>7, <2>8 DEF v
<1>5. PhaseInv'
  BY <1>4 DEF PhaseInv
<1> QED BY <1>1, <1>3, <1>5 DEF TimingInv

LEMMA TimedElapseInv == TimingInv /\ TimedElapse => TimingInv'
<1> SUFFICES ASSUME TimingInv, TimedElapse PROVE TimingInv'
  OBVIOUS
<1>1. IInv'
  BY StepInv DEF TimingInv, TimedElapse, Next
<1>2. ASSUME NEW n \in Node
      PROVE  /\ since_active'[n] \in 0..LockoutTime(n)
             /\ open_for'[n] \in 0..PowerOffTime
             /\ PhaseTime(n, managed_nodes'[n], since_active'[n])
             /\ PhaseOpen(n, managed_nodes'[n], relay'[n], open_for'[n])
  <2> DEFINE m == managed_nodes[n]
  <2>1. /\ m \in ManagedNode(n) /\ StrikesInv(m)
        /\ since_active[n] \in 0..LockoutTime(n) /\ open_for[n] \in 0..PowerOffTime
        /\ PhaseTime(n, m, since_active[n])
        /\ PhaseOpen(n, m, relay[n], open_for[n])
    BY DEF TimingInv, IInv, TypeOK, LockoutIffExhausted, StrikesInv, TimingTypeOK, PhaseInv
  <2>2. /\ managed_nodes'[n] = Older(n, m) /\ relay'[n] = relay[n]
        /\ since_active'[n] = UpTo(LockoutTime(n), since_active[n])
        /\ open_for'[n] = IF relay[n] THEN open_for[n] ELSE UpTo(PowerOffTime, open_for[n])
    BY DEF TimedElapse, Elapse
  <2>3. PowerOffTime \in Nat /\ m.elapsed \in Nat
    <3>1. LongestWait(n) \in Nat
      BY TimeAssumption DEF LongestWait
    <3> QED BY <2>1, <3>1, TimeAssumption DEF ManagedNode
  <2>4. Older(n, m).phase = m.phase /\ Older(n, m).elapsed \in {m.elapsed, m.elapsed + 1}
    BY <2>1, OlderPreserves DEF Older, ManagedNode
  <2> HIDE DEF m
  <2>5. open_for'[n] \in 0..PowerOffTime /\ PhaseOpen(n, Older(n, m), relay'[n], open_for'[n])
    BY <2>1, <2>2, <2>3, <2>4 DEF PhaseOpen, UpTo
  <2> QED BY <2>1, <2>2, <2>5, OlderTime
<1>3. TimingTypeOK'
  BY <1>1, <1>2 DEF IInv, TimingTypeOK, TimedElapse
<1> QED BY <1>1, <1>2, <1>3 DEF TimingInv, PhaseInv

LEMMA TimedRestartInv == TimingInv /\ TimedRestart => TimingInv'
<1> SUFFICES ASSUME TimingInv, TimedRestart PROVE TimingInv'
  OBVIOUS
<1>1. IInv'
  BY StepInv DEF TimingInv, TimedRestart, Next
<1>2. TimingTypeOK'
  BY <1>1, CyclesAdd, RetryAssumption DEF IInv, TimingInv, TimingTypeOK, TimedRestart, LockoutTime
<1>3. PhaseInv'
  BY CyclesAdd DEF TimedRestart, Restart, InitialNode, PhaseInv, PhaseTime, PhaseOpen
<1> QED BY <1>1, <1>2, <1>3 DEF TimingInv

(* The timing invariant holds in every reachable state. *)
THEOREM TimingInvariance == TimedSpec => []TimingInv
<1>1. TimingInv /\ UNCHANGED tvars => TimingInv'
  BY DEF TimingInv, TimingTypeOK, PhaseInv, IInv, tvars, vars, TypeOK, LockoutIffExhausted,
         EmergencyIffLockout, OkMeansAllActive, RelayFollowsCycle
<1>2. TimingInv /\ [TimedNext]_tvars => TimingInv'
  BY <1>1, TimedTickInv, TimedElapseInv, TimedRestartInv DEF TimedNext
<1> QED BY <1>2, TimingInitInv, PTL DEF TimedSpec

(* Records and clocks keep their types. *)
THEOREM TimingTypeCorrect == TimedSpec => []TimingTypeOK
<1>1. TimingInv => TimingTypeOK
  BY DEF TimingInv
<1> QED BY <1>1, TimingInvariance, PTL

(* A component is locked out only after MAX_RECOVERY_RETRIES whole power   *)
(* cycles without an ACTIVE answer.                                        *)
THEOREM NoPrematureLockout == TimedSpec => []LockoutTakesAllCycles
<1>1. TimingInv => LockoutTakesAllCycles
  BY DEF TimingInv, IInv, LockoutIffExhausted, PhaseInv, PhaseTime, LockoutTakesAllCycles
<1> QED BY <1>1, TimingInvariance, PTL

(* A relay is closed only after the whole discharge time.                  *)
THEOREM DischargeIsHeld == TimedSpec => DischargeHeld
<1> DEFINE Held(n) == ~relay[n] /\ relay'[n] => open_for[n] = PowerOffTime
<1>1. TimingInv /\ [TimedNext]_tvars => [\A n \in Node : Held(n)]_tvars
  <2> SUFFICES ASSUME TimingInv, TimedNext, NEW n \in Node, ~relay[n], relay'[n]
               PROVE  open_for[n] = PowerOffTime
    OBVIOUS
  <2>1. PICK report \in [Node -> Report] : MonitorLoop(report)
    BY DEF TimedNext, TimedTick, TimedElapse, TimedRestart, Tick, Elapse, Restart
  <2>2. ResetMechanism[n] = "HARDWARE_RELAY" /\ managed_nodes[n].phase = "POWER_ON"
    BY <2>1 DEF MonitorLoop, RelayAfter
  <2> QED BY <2>2, TimeAssumption DEF TimingInv, TimingTypeOK, PhaseInv, PhaseOpen
<1> QED BY <1>1, TimingInvariance, PTL DEF TimedSpec, DischargeHeld

-----------------------------------------------------------------------------
(* The policy *)

LEMMA LeastNatural ==
  ASSUME NEW T \in SUBSET Nat, T # {}
  PROVE  \E n \in T : \A m \in T : n <= m
<1> DEFINE Less == {ss \in Nat \X Nat : ss[1] < ss[2]}
<1>1. IsWellFoundedOn(Less, Nat)
  BY NatLessThanWellFounded DEF OpToRel
<1>2. \E x \in T : \A y \in T : ~ (<<y, x>> \in Less)
  <2> HIDE DEF Less
  <2> QED BY WFMin, <1>1
<1>3. PICK x \in T : \A y \in T : ~ (<<y, x>> \in Less)
  BY <1>2
<1>4. \A y \in T : ~(y < x)
  BY <1>3
<1> QED BY <1>4

LEMMA Induction ==
  ASSUME NEW T \in SUBSET Nat, 0 \in T, \A n \in T : n + 1 \in T
  PROVE  T = Nat
<1>1. SUFFICES ASSUME Nat \ T # {} PROVE FALSE
  OBVIOUS
<1>2. PICK n \in Nat \ T : \A m \in Nat \ T : n <= m
  BY <1>1, LeastNatural
<1>3. n # 0 /\ n - 1 \in Nat /\ n - 1 \in T
  BY <1>2
<1>4. (n - 1) + 1 \in T
  BY <1>3
<1> QED BY <1>2, <1>4

(* The loop over the first n entries, as a function that satisfies its     *)
(* recursive equation.                                                     *)
Turns(after, n, tracked, components) ==
  after = [i \in 0..n |->
             IF i = 0 THEN Config!NothingLoaded
             ELSE Config!Provision(after[i - 1], components[tracked[i]])]

LEMMA LoopRuns ==
  ASSUME NEW tracked, NEW components
  PROVE  \A n \in Nat : \E after : Turns(after, n, tracked, components)
<1> DEFINE Done == {n \in Nat : \E after : Turns(after, n, tracked, components)}
           base == Config!NothingLoaded
           turn(loaded, i) == Config!Provision(loaded, components[tracked[i]])
<1>1. 0 \in Done
  <2>1. Turns([i \in 0..0 |-> base], 0, tracked, components)
    BY DEF Turns
  <2> QED BY <2>1
<1>2. ASSUME NEW n \in Done PROVE n + 1 \in Done
  <2>1. PICK after : Turns(after, n, tracked, components)
    OBVIOUS
  <2>2. \A i \in 0..n : after[i] = IF i = 0 THEN base ELSE turn(after[i - 1], i)
    BY <2>1 DEF Turns
  <2> DEFINE more == [i \in 0..(n + 1) |-> IF i = 0 THEN base ELSE turn(after[i - 1], i)]
  <2> HIDE DEF base, turn
  <2>3. \A i \in 0..n : more[i] = after[i]
    BY <2>2
  <2>4. \A i \in 0..(n + 1) : i # 0 => more[i - 1] = after[i - 1]
    <3>1. \A i \in 0..(n + 1) : i # 0 => i - 1 \in 0..n
      OBVIOUS
    <3> HIDE DEF more
    <3> QED BY <2>3, <3>1
  <2>5. more = [i \in 0..(n + 1) |-> IF i = 0 THEN base ELSE turn(more[i - 1], i)]
    <3>1. more = [i \in 0..(n + 1) |-> IF i = 0 THEN base ELSE turn(after[i - 1], i)]
      OBVIOUS
    <3> HIDE DEF more
    <3> QED BY <2>4, <3>1
  <2>6. Turns(more, n + 1, tracked, components)
    BY <2>5 DEF Turns, base, turn
  <2> QED BY <2>6
<1> HIDE DEF Done
<1>3. Done = Nat
  BY <1>1, <1>2, Induction DEF Done
<1> QED BY <1>3 DEF Done

LEMMA LoopIs ==
  ASSUME NEW tracked, NEW components, Len(tracked) \in Nat
  PROVE  LET after == Config!LoadedAfter(tracked, components)
         IN  /\ after[0] = Config!NothingLoaded
             /\ \A i \in 1..Len(tracked) :
                  after[i] = Config!Provision(after[i - 1], components[tracked[i]])
<1>1. \E after : Turns(after, Len(tracked), tracked, components)
  BY LoopRuns
<1>2. Turns(Config!LoadedAfter(tracked, components), Len(tracked), tracked, components)
  BY <1>1 DEF Turns, Config!LoadedAfter
<1> QED BY <1>2 DEF Turns

(* The enabled entries among the first i, and of those the ones that no    *)
(* later one of the same name replaces.                                    *)
Seen(i, tracked, components) == {j \in 1..i : components[tracked[j]].enabled}

Stands(j, i, tracked, components) ==
  /\ j \in Seen(i, tracked, components)
  /\ \A k \in Seen(i, tracked, components) :
       components[tracked[k]].node_name = components[tracked[j]].node_name => k <= j

Provisioned(loaded) ==
  \A n \in DOMAIN loaded.managed_nodes :
    loaded.managed_nodes[n].reset_mechanism = "HARDWARE_RELAY" =>
      /\ n \in DOMAIN loaded.relay_pubs
      /\ loaded.relay_pubs[n] = loaded.managed_nodes[n].reset_topic
      /\ loaded.relay_pubs[n] # Config!EMPTY

(* The loop invariant of init_managed_nodes. *)
LoopInv(loaded, i, tracked, components) ==
  LET entry(j) == components[tracked[j]]
  IN  /\ loaded.halted <=> \E j \in Seen(i, tracked, components) : Config!Invalid(entry(j))
      /\ loaded.halted \in BOOLEAN /\ (loaded.halted => loaded.managed_nodes = <<>>)
      /\ ~loaded.halted =>
           /\ loaded.managed_nodes =
                [n \in DOMAIN loaded.managed_nodes |-> loaded.managed_nodes[n]]
           /\ \A j \in Seen(i, tracked, components) :
                entry(j).node_name \in DOMAIN loaded.managed_nodes
           /\ \A n \in DOMAIN loaded.managed_nodes :
                \E j : /\ Stands(j, i, tracked, components)
                       /\ entry(j).node_name = n /\ loaded.managed_nodes[n] = entry(j)
      /\ Provisioned(loaded)

LEMMA NoNodes == DOMAIN <<>> = {} /\ <<>> = [n \in DOMAIN <<>> |-> <<>>[n]]
OBVIOUS

LEMMA TurnKeeps ==
  ASSUME NEW tracked, NEW components, NEW i \in Nat, NEW loaded, NEW next,
         LoopInv(loaded, i, tracked, components),
         next = Config!Provision(loaded, components[tracked[i + 1]]),
         components[tracked[i + 1]].enabled \in BOOLEAN
  PROVE  LoopInv(next, i + 1, tracked, components)
<1> DEFINE entry(j) == components[tracked[j]]
           c == entry(i + 1)
           seen(k) == Seen(k, tracked, components)
<1>1. seen(i + 1) = IF c.enabled THEN seen(i) \cup {i + 1} ELSE seen(i)
  BY DEF Seen
<1>2. \A j \in seen(i) : j \in Nat /\ j <= i
  BY DEF Seen
<1>3. CASE ~c.enabled
  <2>1. seen(i + 1) = seen(i) /\ next = loaded
    BY <1>1, <1>3 DEF Config!Provision
  <2> QED BY <2>1 DEF LoopInv, Stands
<1>4. CASE c.enabled /\ loaded.halted
  <2>1. next = loaded /\ seen(i) \subseteq seen(i + 1)
    BY <1>1, <1>4 DEF Config!Provision
  <2> QED BY <1>4, <2>1 DEF LoopInv
<1>5. CASE c.enabled /\ ~loaded.halted /\ Config!Invalid(c)
  <2>1. next = Config!Halted /\ i + 1 \in seen(i + 1)
    BY <1>1, <1>5 DEF Config!Provision
  <2>2. next.halted /\ next.halted \in BOOLEAN /\ next.managed_nodes = <<>>
    BY <2>1 DEF Config!Halted
  <2>3. Provisioned(next)
    BY <2>2, NoNodes DEF Provisioned
  <2> QED BY <1>5, <2>1, <2>2, <2>3 DEF LoopInv
<1>6. CASE c.enabled /\ ~loaded.halted /\ ~Config!Invalid(c)
  <2> DEFINE map == loaded.managed_nodes
             new == Config!Assign(map, c.node_name, c)
             pubs == Config!Assign(loaded.relay_pubs, c.node_name, c.reset_topic)
             cycled == c.reset_mechanism = "HARDWARE_RELAY"
  <2>1. /\ next.halted = FALSE /\ next.managed_nodes = new
        /\ next.relay_pubs = IF cycled THEN pubs ELSE loaded.relay_pubs
    BY <1>6 DEF Config!Provision
  <2>2. seen(i + 1) = seen(i) \cup {i + 1}
    BY <1>1, <1>6
  <2>3. /\ DOMAIN new = DOMAIN map \cup {c.node_name} /\ new = [n \in DOMAIN new |-> new[n]]
        /\ new[c.node_name] = c /\ \A n \in DOMAIN map : n # c.node_name => new[n] = map[n]
    <3> HIDE DEF map, c
    <3> QED BY DEF new, Config!Assign
  <2> HIDE DEF new, pubs
  <2>4. next.halted <=> \E j \in seen(i + 1) : Config!Invalid(entry(j))
    BY <1>6, <2>1, <2>2 DEF LoopInv
  <2>5. \A j \in seen(i + 1) : entry(j).node_name \in DOMAIN new
    BY <1>6, <2>2, <2>3 DEF LoopInv
  <2>6. ASSUME NEW n \in DOMAIN new
        PROVE  \E j : /\ Stands(j, i + 1, tracked, components)
                      /\ entry(j).node_name = n /\ new[n] = entry(j)
    <3>1. CASE n = c.node_name
      <4>1. Stands(i + 1, i + 1, tracked, components)
        BY <1>2, <2>2 DEF Stands
      <4> QED BY <2>3, <3>1, <4>1
    <3>2. CASE n # c.node_name
      <4>1. n \in DOMAIN map /\ new[n] = map[n]
        BY <2>3, <3>2
      <4>2. PICK j : /\ Stands(j, i, tracked, components)
                     /\ entry(j).node_name = n /\ map[n] = entry(j)
        BY <1>6, <4>1 DEF LoopInv
      <4>3. Stands(j, i + 1, tracked, components)
        BY <2>2, <3>2, <4>2 DEF Stands
      <4> QED BY <4>1, <4>2, <4>3
    <3> QED BY <3>1, <3>2
  <2>7. Provisioned(next)
    <3>1. /\ DOMAIN pubs = DOMAIN loaded.relay_pubs \cup {c.node_name}
          /\ pubs[c.node_name] = c.reset_topic
          /\ \A n \in DOMAIN loaded.relay_pubs :
               n # c.node_name => pubs[n] = loaded.relay_pubs[n]
      <4> HIDE DEF c
      <4> QED BY DEF pubs, Config!Assign
    <3>2. Provisioned(loaded)
      BY DEF LoopInv
    <3>3. cycled => c.reset_topic # Config!EMPTY
      BY <1>6 DEF Config!Invalid
    <3>4. ASSUME NEW n \in DOMAIN new, new[n].reset_mechanism = "HARDWARE_RELAY"
          PROVE  /\ n \in DOMAIN next.relay_pubs
                 /\ next.relay_pubs[n] = new[n].reset_topic
                 /\ next.relay_pubs[n] # Config!EMPTY
      <4>1. CASE n = c.node_name
        BY <2>1, <2>3, <3>1, <3>3, <3>4, <4>1
      <4>2. CASE n # c.node_name
        <5>1. n \in DOMAIN map /\ new[n] = map[n]
          BY <2>3, <4>2
        <5>2. /\ n \in DOMAIN loaded.relay_pubs
              /\ loaded.relay_pubs[n] = map[n].reset_topic
              /\ loaded.relay_pubs[n] # Config!EMPTY
          BY <3>2, <3>4, <5>1 DEF Provisioned
        <5> QED BY <2>1, <3>1, <4>2, <5>1, <5>2
      <4> QED BY <4>1, <4>2
    <3> QED BY <2>1, <3>4 DEF Provisioned
  <2>8. ~next.halted /\ next.halted \in BOOLEAN
    BY <2>1
  <2> HIDE DEF entry, c, cycled
  <2> QED BY <2>1, <2>3, <2>4, <2>5, <2>6, <2>7, <2>8 DEF LoopInv, entry
<1> QED BY <1>3, <1>4, <1>5, <1>6 DEF LoopInv

LEMMA LoopCorrect ==
  ASSUME NEW tracked, NEW components, Len(tracked) \in Nat,
         \A i \in 1..Len(tracked) : components[tracked[i]].enabled \in BOOLEAN
  PROVE  LoopInv(Config!LoadedAfter(tracked, components)[Len(tracked)], Len(tracked),
                 tracked, components)
<1> DEFINE after == Config!LoadedAfter(tracked, components)
           Good == {i \in Nat : i <= Len(tracked) => LoopInv(after[i], i, tracked, components)}
<1>1. 0 \in Good
  <2>1. Seen(0, tracked, components) = {}
    BY DEF Seen
  <2>2. after[0] = Config!NothingLoaded
    BY LoopIs
  <2>3. /\ Config!NothingLoaded.halted = FALSE /\ Config!NothingLoaded.managed_nodes = <<>>
        /\ Provisioned(Config!NothingLoaded)
    BY NoNodes DEF Config!NothingLoaded, Provisioned
  <2>4. LoopInv(Config!NothingLoaded, 0, tracked, components)
    BY <2>1, <2>3, NoNodes DEF LoopInv
  <2> QED BY <2>2, <2>4
<1>2. ASSUME NEW i \in Good PROVE i + 1 \in Good
  <2>1. SUFFICES ASSUME i + 1 <= Len(tracked)
                 PROVE  LoopInv(after[i + 1], i + 1, tracked, components)
    OBVIOUS
  <2>2. LoopInv(after[i], i, tracked, components)
    BY <2>1
  <2>3. after[i + 1] = Config!Provision(after[i], components[tracked[i + 1]])
    <3>1. i + 1 \in 1..Len(tracked) /\ (i + 1) - 1 = i
      BY <2>1
    <3> QED BY <3>1, LoopIs
  <2>4. i \in Nat /\ components[tracked[i + 1]].enabled \in BOOLEAN
    BY <2>1
  <2> QED BY <2>2, <2>3, <2>4, TurnKeeps
<1> HIDE DEF Good
<1>3. Good = Nat
  BY <1>1, <1>2, Induction DEF Good
<1> QED BY <1>3 DEF Good

(* Whatever the policy, however long its list, init_managed_nodes refuses  *)
(* it exactly when the list is empty, repeats a key or has an enabled      *)
(* entry that fails a check; otherwise every enabled entry counts, and of  *)
(* those that name the same node the last.                                 *)
THEOREM EveryPolicyLoadedAsWritten ==
  ASSUME NEW Key, NEW names, NEW topics,
         NEW tracked \in Seq(Key), NEW components \in [Key -> Config!Component(names, topics)]
  PROVE  Config!LoadedAsWritten(tracked, components)
<1> DEFINE loaded == Config!InitManagedNodes(tracked, components)
           after == Config!LoadedAfter(tracked, components)[Len(tracked)]
           entry(j) == components[tracked[j]]
           enabled == Config!Enabled(tracked, components)
           named == {entry(i).node_name : i \in enabled}
<1>1. Len(tracked) \in Nat /\ DOMAIN tracked = 1..Len(tracked)
  OBVIOUS
<1>2. \A i \in 1..Len(tracked) : entry(i).enabled \in BOOLEAN
  BY DEF Config!Component
<1>3. LoopInv(after, Len(tracked), tracked, components)
  BY <1>1, <1>2, LoopCorrect
<1>4. enabled = Seen(Len(tracked), tracked, components)
  BY <1>1 DEF Config!Enabled, Seen
<1>5. CASE tracked = <<>> \/ Config!Repeats(tracked)
  <2>1. loaded = Config!Halted
    BY <1>5 DEF Config!InitManagedNodes
  <2>2. loaded.halted
    BY <2>1 DEF Config!Halted
  <2> QED BY <1>5, <2>2 DEF Config!LoadedAsWritten
<1>6. CASE ~(tracked = <<>> \/ Config!Repeats(tracked))
  <2>1. loaded = after
    BY <1>6 DEF Config!InitManagedNodes
  <2>2. loaded.halted <=> \E i \in enabled : Config!Invalid(entry(i))
    BY <1>3, <1>4, <2>1 DEF LoopInv
  <2>3. ASSUME ~loaded.halted
        PROVE  loaded.managed_nodes =
                 [n \in named |-> components[tracked[Config!LastFor(n, tracked, components)]]]
    <3> DEFINE map == loaded.managed_nodes
    <3>1. /\ map = [n \in DOMAIN map |-> map[n]]
          /\ \A j \in enabled : entry(j).node_name \in DOMAIN map
          /\ \A n \in DOMAIN map :
               \E j : /\ Stands(j, Len(tracked), tracked, components)
                      /\ entry(j).node_name = n /\ map[n] = entry(j)
      BY <1>3, <1>4, <2>1, <2>3 DEF LoopInv
    <3>2. DOMAIN map = named
      BY <1>4, <3>1 DEF Stands
    <3>3. ASSUME NEW n \in DOMAIN map
          PROVE  map[n] = components[tracked[Config!LastFor(n, tracked, components)]]
      <4>1. PICK j : /\ Stands(j, Len(tracked), tracked, components)
                     /\ entry(j).node_name = n /\ map[n] = entry(j)
        BY <3>1
      <4>2. /\ j \in enabled /\ entry(j).node_name = n
            /\ \A k \in enabled : entry(k).node_name = n => k <= j
        BY <1>4, <4>1 DEF Stands
      <4>3. \A k \in enabled : k \in Int
        BY <1>1 DEF Config!Enabled
      <4>4. Config!LastFor(n, tracked, components) = j
        BY <4>2, <4>3 DEF Config!LastFor
      <4> QED BY <4>1, <4>4
    <3> QED BY <3>1, <3>2, <3>3
  <2> QED BY <1>6, <2>2, <2>3 DEF Config!LoadedAsWritten
<1> QED BY <1>5, <1>6

(* Whatever the policy, a node that is to be cycled by relay has the       *)
(* publisher that handle_recovery_fsm dereferences, on the topic its own   *)
(* record names, also when several entries name the node.                  *)
THEOREM EveryRelayProvisioned ==
  ASSUME NEW Key, NEW names, NEW topics,
         NEW tracked \in Seq(Key), NEW components \in [Key -> Config!Component(names, topics)]
  PROVE  Config!RelayProvisioned(tracked, components)
<1> DEFINE loaded == Config!InitManagedNodes(tracked, components)
<1>1. \A i \in 1..Len(tracked) : components[tracked[i]].enabled \in BOOLEAN
  BY DEF Config!Component
<1>2. Provisioned(Config!LoadedAfter(tracked, components)[Len(tracked)])
  <2>1. Len(tracked) \in Nat
    OBVIOUS
  <2> QED BY <1>1, <2>1, LoopCorrect DEF LoopInv
<1>3. Provisioned(Config!Halted)
  BY NoNodes DEF Provisioned, Config!Halted
<1>4. Provisioned(loaded)
  BY <1>2, <1>3 DEF Config!InitManagedNodes
<1> QED BY <1>4 DEF Provisioned, Config!RelayProvisioned

(* What a policy that is not refused supplies meets the assumptions        *)
(* FdirRecovery makes on its constants: every node that is supervised has  *)
(* a tier and a mechanism that the state machine knows.                    *)
THEOREM LoadedMeetsAssumptions ==
  ASSUME NEW Key, NEW names, NEW topics,
         NEW tracked \in Seq(Key), NEW components \in [Key -> Config!Component(names, topics)],
         ~Config!InitManagedNodes(tracked, components).halted
  PROVE  \A n \in DOMAIN Config!InitManagedNodes(tracked, components).managed_nodes :
           LET m == Config!InitManagedNodes(tracked, components).managed_nodes[n]
           IN  m.tier \in Tiers /\ m.reset_mechanism \in ResetMechanisms
<1> DEFINE loaded == Config!InitManagedNodes(tracked, components)
           after == Config!LoadedAfter(tracked, components)[Len(tracked)]
           map == loaded.managed_nodes
<1>1. /\ Len(tracked) \in Nat
      /\ \A i \in 1..Len(tracked) : components[tracked[i]].enabled \in BOOLEAN
  BY DEF Config!Component
<1>2. LoopInv(after, Len(tracked), tracked, components)
  BY <1>1, LoopCorrect
<1>3. loaded = after
  BY DEF Config!InitManagedNodes, Config!Halted
<1>4. SUFFICES ASSUME NEW n \in DOMAIN map
               PROVE  map[n].tier \in Tiers /\ map[n].reset_mechanism \in ResetMechanisms
  OBVIOUS
<1>5. PICK j : Stands(j, Len(tracked), tracked, components) /\ map[n] = components[tracked[j]]
  BY <1>2, <1>3 DEF LoopInv
<1>6. j \in 1..Len(tracked) /\ ~Config!Invalid(components[tracked[j]])
  BY <1>2, <1>3, <1>5 DEF LoopInv, Stands, Seen
<1> QED BY <1>5, <1>6
         DEF Config!Invalid, Config!Tiers, Config!ResetMechanisms, Tiers, ResetMechanisms

(* The policy of MCFdirTiming and the ones it enumerates. *)
LEMMA PolicyEntries ==
  /\ \E entry : /\ Policy["pallet_camera"] = entry
                /\ entry \in Config!Component({cam, mux, "mcu"}, {"power/cam"})
                /\ entry.enabled /\ entry.node_name = cam /\ entry.tier = "AUXILIARY"
                /\ entry.reset_mechanism = "HARDWARE_RELAY" /\ entry.reset_topic = "power/cam"
  /\ \E entry : /\ Policy["drive_inverters"] = entry /\ ~entry.enabled
                /\ entry \in Config!Component({cam, mux, "mcu"}, {"power/cam"})
  /\ \E entry : /\ Policy["control_mux"] = entry
                /\ entry \in Config!Component({cam, mux, "mcu"}, {"power/cam"})
                /\ entry.enabled /\ entry.node_name = mux /\ entry.tier = "FATAL"
                /\ entry.reset_mechanism = "LIFECYCLE_SERVICE"
<1> DEFINE C == Config!Component({cam, mux, "mcu"}, {"power/cam"})
           camera == Entry(TRUE, cam, "AUXILIARY", "HARDWARE_RELAY", "power/cam", 2)
           drives == Entry(FALSE, "mcu", "OTHER", "HARDWARE_RELAY", "", 15)
           muxer  == Entry(TRUE, mux, "FATAL", "LIFECYCLE_SERVICE", "", 0)
<1>1. /\ camera \in C /\ camera.enabled /\ camera.node_name = cam /\ camera.tier = "AUXILIARY"
      /\ camera.reset_mechanism = "HARDWARE_RELAY" /\ camera.reset_topic = "power/cam"
  BY DEF Entry, Config!Component, Config!Tiers, Config!ResetMechanisms
<1>2. drives \in C /\ ~drives.enabled
  BY DEF Entry, Config!Component, Config!ResetMechanisms, Config!EMPTY
<1>3. /\ muxer \in C /\ muxer.enabled /\ muxer.node_name = mux /\ muxer.tier = "FATAL"
      /\ muxer.reset_mechanism = "LIFECYCLE_SERVICE"
  BY DEF Entry, Config!Component, Config!Tiers, Config!ResetMechanisms, Config!EMPTY
<1>4. /\ Policy["pallet_camera"] = camera /\ Policy["drive_inverters"] = drives
      /\ Policy["control_mux"] = muxer
  BY DEF Policy
<1> HIDE DEF camera, drives, muxer, C
<1>5. \E entry : /\ Policy["pallet_camera"] = entry /\ entry \in C
                 /\ entry.enabled /\ entry.node_name = cam /\ entry.tier = "AUXILIARY"
                 /\ entry.reset_mechanism = "HARDWARE_RELAY" /\ entry.reset_topic = "power/cam"
  BY <1>1, <1>4
<1>6. \E entry : Policy["drive_inverters"] = entry /\ ~entry.enabled /\ entry \in C
  BY <1>2, <1>4
<1>7. \E entry : /\ Policy["control_mux"] = entry /\ entry \in C
                 /\ entry.enabled /\ entry.node_name = mux /\ entry.tier = "FATAL"
                 /\ entry.reset_mechanism = "LIFECYCLE_SERVICE"
  BY <1>3, <1>4
<1> QED BY <1>5, <1>6, <1>7 DEF C

LEMMA PolicyIsFunction ==
  /\ DOMAIN Policy = {"pallet_camera", "drive_inverters", "control_mux"}
  /\ Policy = [k \in DOMAIN Policy |-> Policy[k]]
BY DEF Policy

LEMMA PolicyLoaded ==
  ASSUME cam # Config!EMPTY, mux # Config!EMPTY
  PROVE  /\ MCNode = {cam, mux}
         /\ \A n \in MCNode : Loaded[n].reset_mechanism = "HARDWARE_RELAY" =>
                              Loaded[n].reset_topic # Config!EMPTY
<1> DEFINE tracked == <<"pallet_camera", "drive_inverters", "control_mux">>
           keys == {"pallet_camera", "drive_inverters", "control_mux"}
           init == Config!InitManagedNodes(tracked, Policy)
<1>2. Policy \in [keys -> Config!Component({cam, mux, "mcu"}, {"power/cam"})]
  <2> DEFINE C == Config!Component({cam, mux, "mcu"}, {"power/cam"})
  <2>1. Policy["pallet_camera"] \in C
    BY PolicyEntries
  <2>2. Policy["drive_inverters"] \in C
    BY PolicyEntries
  <2>3. Policy["control_mux"] \in C
    BY PolicyEntries
  <2> HIDE DEF C
  <2>4. \A k \in keys : Policy[k] \in C
    BY <2>1, <2>2, <2>3
  <2>5. Policy \in [keys -> C]
    BY <2>4, PolicyIsFunction
  <2> QED BY <2>5 DEF C
<1>3. tracked \in Seq(keys) /\ DOMAIN tracked = 1..3
      /\ tracked[1] = "pallet_camera" /\ tracked[2] = "drive_inverters"
      /\ tracked[3] = "control_mux"
  OBVIOUS
<1> HIDE DEF tracked, keys
<1>4. Config!LoadedAsWritten(tracked, Policy) /\ Config!RelayProvisioned(tracked, Policy)
  BY <1>2, <1>3, EveryPolicyLoadedAsWritten, EveryRelayProvisioned
<1>5. tracked # <<>> /\ ~Config!Repeats(tracked)
  BY <1>3 DEF Config!Repeats
<1>6. /\ ~Config!Invalid(Policy[tracked[1]]) /\ ~Config!Invalid(Policy[tracked[3]])
      /\ Config!Enabled(tracked, Policy) = {1, 3}
      /\ Policy[tracked[1]].node_name = cam /\ Policy[tracked[3]].node_name = mux
  <2> DEFINE first == Policy[tracked[1]]
             second == Policy[tracked[2]]
             third == Policy[tracked[3]]
  <2>1. /\ first.enabled /\ first.node_name = cam /\ first.tier = "AUXILIARY"
        /\ first.reset_mechanism = "HARDWARE_RELAY" /\ first.reset_topic = "power/cam"
    BY <1>3, PolicyEntries
  <2>2. ~second.enabled
    BY <1>3, PolicyEntries
  <2>3. /\ third.enabled /\ third.node_name = mux /\ third.tier = "FATAL"
        /\ third.reset_mechanism = "LIFECYCLE_SERVICE"
    BY <1>3, PolicyEntries
  <2> HIDE DEF first, second, third
  <2>4. ~Config!Invalid(first) /\ ~Config!Invalid(third)
    BY <2>1, <2>3 DEF Config!Invalid, Config!Tiers, Config!ResetMechanisms, Config!EMPTY
  <2>5. Config!Enabled(tracked, Policy) = {i \in 1..3 : Policy[tracked[i]].enabled}
    BY <1>3 DEF Config!Enabled
  <2>6. Config!Enabled(tracked, Policy) = {1, 3}
    BY <2>1, <2>2, <2>3, <2>5 DEF first, second, third
  <2> QED BY <2>1, <2>3, <2>4, <2>6 DEF first, third
<1>7. ~init.halted
  BY <1>4, <1>5, <1>6 DEF Config!LoadedAsWritten
<1>8. DOMAIN init.managed_nodes = {Policy[tracked[i]].node_name : i \in {1, 3}}
  BY <1>4, <1>6, <1>7 DEF Config!LoadedAsWritten
<1>9. DOMAIN init.managed_nodes = {cam, mux}
  BY <1>6, <1>8
<1>10. Loaded = init.managed_nodes
  BY DEF Loaded, tracked
<1> QED BY <1>4, <1>9, <1>10 DEF MCNode, Config!RelayProvisioned

LEMMA ShortListsTyped ==
  ASSUME NEW keys
  PROVE  ShortLists(keys) \subseteq Seq(keys)
<1>1. SUFFICES ASSUME NEW f \in ShortLists(keys) PROVE f \in Seq(keys)
  OBVIOUS
<1>2. PICK k \in 0..2 : f \in [1..k -> keys]
  BY <1>1 DEF ShortLists
<1>3. f \in UNION {[1..n -> keys] : n \in Nat}
  BY <1>2
<1> QED BY <1>3, SeqDef

LEMMA EnumeratedPolicies == AllLoadedAsWritten /\ AllRelaysProvisioned
<1> DEFINE keys == {"k1", "k2"}
<1>1. Tracked \subseteq Seq(keys)
  <2>1. ShortLists(keys) \subseteq Seq(keys) /\ <<"k1", "k2", "k1">> \in Seq(keys)
    BY ShortListsTyped
  <2> QED BY <2>1 DEF Tracked
<1>2. Policies \subseteq [keys -> Config!Component({"a", "b"}, {"t1", "t2"})]
  <2>1. SomeComponents \subseteq Config!Component({"a", "b"}, {"t1", "t2"})
    <3> DEFINE some == [enabled : BOOLEAN, node_name : {"a", "b", ""}, tier : {"FATAL", "OTHER"},
                        reset_mechanism : {"LIFECYCLE_SERVICE", "HARDWARE_RELAY", "OTHER"},
                        reset_topic : {"t1", "t2", ""}, startup_time : {5}]
    <3>1. SomeComponents \subseteq some
      BY DEF SomeComponents
    <3>2. /\ {"a", "b", ""} = {"a", "b"} \cup {Config!EMPTY}
          /\ {"FATAL", "OTHER"} \subseteq Config!Tiers \cup {"OTHER"}
          /\ {"LIFECYCLE_SERVICE", "HARDWARE_RELAY", "OTHER"}
               = Config!ResetMechanisms \cup {"OTHER"}
          /\ {"t1", "t2", ""} = {"t1", "t2"} \cup {Config!EMPTY} /\ {5} \subseteq Nat
      BY DEF Config!Tiers, Config!ResetMechanisms, Config!EMPTY
    <3>3. some \subseteq Config!Component({"a", "b"}, {"t1", "t2"})
      BY <3>2 DEF Config!Component
    <3> QED BY <3>1, <3>3
  <2> QED BY <2>1 DEF Policies
<1> HIDE DEF keys
<1> QED BY <1>1, <1>2, EveryPolicyLoadedAsWritten, EveryRelayProvisioned
        DEF AllLoadedAsWritten, AllRelaysProvisioned

(* The manager of MCFdirTiming supervises the enabled entries of its       *)
(* policy at every moment, with any waits and retries.                     *)
THEOREM SupervisionCorrect ==
  ASSUME Node = MCNode, cam # Config!EMPTY, mux # Config!EMPTY
  PROVE  Spec => []SupervisesItsPolicy
<1>1. TypeOK => SupervisesItsPolicy
  <2>1. SUFFICES ASSUME TypeOK PROVE SupervisesItsPolicy
    OBVIOUS
  <2>2. DOMAIN managed_nodes = {cam, mux}
    BY <2>1, PolicyLoaded DEF TypeOK
  <2>3. Policy["pallet_camera"].node_name = cam /\ Policy["control_mux"].node_name = mux
    BY PolicyEntries
  <2> QED BY <2>2, <2>3, EnumeratedPolicies DEF SupervisesItsPolicy
<1> QED BY <1>1, TypeCorrect, PTL

(* No component of MCFdirTiming is cycled through a publisher that does    *)
(* not exist.                                                              *)
THEOREM CycledHasItsRelay ==
  ASSUME Node = MCNode, ResetMechanism = MCResetMechanism,
         cam # Config!EMPTY, mux # Config!EMPTY
  PROVE  Spec => []CycledHasRelay
<1>1. CycledHasRelay
  BY PolicyLoaded, EnumeratedPolicies DEF CycledHasRelay, MCResetMechanism
<1> QED BY <1>1, PTL
=============================================================================
