------------------------- MODULE FdirOverlapProofs -------------------------
(***************************************************************************)
(* Proofs about FdirOverlap and FdirHeartbeat for any components, any      *)
(* period and any number of threads that is enough: how far apart two      *)
(* pulses can be, and that a lockout is final.                             *)
(***************************************************************************)
EXTENDS FdirHeartbeat, FiniteSetTheorems, TLAPS

N == Len(Order)

Running(p) == cursor[p] # 0

(* At most how many ticks the present visit has lasted, *)
Waited(wait) ==
  CASE wait \in {"no", "query"} -> 0
    [] wait \in {"lateQuery", "request", "cleanup"} -> 1
    [] OTHER -> 2

(* and the pass. *)
Spent(p) == 2 * (cursor[p] - 1) + Waited(blocked[p])

-----------------------------------------------------------------------------
(* The inductive invariant *)

PassTyped ==
  /\ cursor \in [Pass -> 0..(N + 1)]
  /\ blocked \in [Pass -> Blocked]
  /\ \A p \in Pass : blocked[p] # "no" => cursor[p] \in 1..N
  /\ timer \in 0..(Period - 1)
  /\ due \in BOOLEAN /\ due => timer = 0
  /\ silence \in 0..MaxSilence

(* The running passes began at different times: pass p at the last but     *)
(* r[p] times the timer was due. Each has spent at least the time since.   *)
Rounds(r) ==
  /\ \A p \in Pass : Running(p) => Period * r[p] + timer <= Spent(p)
  /\ \A p, q \in Pass : Running(p) /\ Running(q) /\ p # q => r[p] # r[q]
  /\ due => \A p \in Pass : Running(p) => r[p] >= 1

(* The pulse that ends the silence is the one of the next pass, or of one  *)
(* that was begun at most a period after the last pulse.                   *)
PulseToCome ==
  \/ silence <= timer
  \/ due /\ silence <= Period
  \/ \E p \in Pass : Running(p) /\ silence <= Period + Spent(p)

IInv == PassTyped /\ (\E r \in [Pass -> Nat] : Rounds(r)) /\ PulseToCome

-----------------------------------------------------------------------------
(* Arithmetic and counting *)

LEMMA Numbers == N \in Nat /\ Period \in Nat /\ Period >= 1 /\ LongestPass = 2 * N
BY OrderAssumption, PeriodAssumption DEF N, LongestPass

LEMMA TimesMonotone ==
  ASSUME NEW a \in Nat, NEW b \in Nat, a <= b
  PROVE  Period * a <= Period * b
<1>1. PICK d \in Nat : b = a + d
  <2>1. b - a \in Nat /\ b = a + (b - a)
    OBVIOUS
  <2> QED BY <2>1
<1>2. Period * b = Period * a + Period * d /\ Period * d \in Nat /\ Period * a \in Nat
  BY <1>1, Numbers
<1> QED BY <1>2

(* As many different rounds as there are threads, none of them the last    *)
(* one: the oldest began as many periods ago as there are threads.         *)
LEMMA OldestRound ==
  ASSUME NEW r \in [Pass -> Nat], \A p \in Pass : r[p] >= 1,
         \A p, q \in Pass : p # q => r[p] # r[q]
  PROVE  \E p \in Pass : r[p] >= Cardinality(Pass)
<1> DEFINE K == Cardinality(Pass)
<1>1. K \in Nat
  BY ThreadsAssumption, FS_CardinalityType
<1>2. K # 0
  BY ThreadsAssumption, FS_EmptySet
<1>3. IsFiniteSet(1..(K - 1)) /\ Cardinality(1..(K - 1)) = K - 1
  <2>1. /\ IsFiniteSet(1..(K - 1))
        /\ Cardinality(1..(K - 1)) = IF 1 > K - 1 THEN 0 ELSE (K - 1) - 1 + 1
    BY <1>1, <1>2, FS_Interval
  <2> QED BY <1>1, <1>2, <2>1
<1>4. SUFFICES ASSUME \A p \in Pass : ~(r[p] >= K) PROVE FALSE
  OBVIOUS
<1>5. r \in [Pass -> 1..(K - 1)]
  BY <1>1, <1>4
<1>6. Cardinality(1..(K - 1)) < Cardinality(Pass)
  BY <1>1, <1>3
<1>7. \E p, q \in Pass : p # q /\ r[p] = r[q]
  BY <1>3, <1>5, <1>6, ThreadsAssumption, FS_PigeonHole
<1> QED BY <1>7

-----------------------------------------------------------------------------
(* The steps *)

(* A pass that goes on has spent no less than before. *)
LEMMA ProceedSpends ==
  ASSUME PassTyped, NEW p \in Pass, Proceed(p), cursor[p] # N + 1, UNCHANGED silence
  PROVE  /\ PassTyped' /\ UNCHANGED wall
         /\ Running(p) /\ Running(p)' /\ Spent(p) <= Spent(p)'
         /\ \A q \in Pass \ {p} : (Running(q)' <=> Running(q)) /\ Spent(q)' = Spent(q)
<1>1. ASSUME NEW level, NEW active, Note(p, level, active), cursor[p] \in 1..N, UNCHANGED wall
      PROVE  /\ PassTyped' /\ Running(p) /\ Running(p)' /\ Spent(p) <= Spent(p)'
             /\ \A q \in Pass \ {p} : (Running(q)' <=> Running(q)) /\ Spent(q)' = Spent(q)
  <2>1. /\ cursor' = [cursor EXCEPT ![p] = cursor[p] + 1] /\ blocked' = [blocked EXCEPT ![p] = "no"]
        /\ UNCHANGED <<timer, due>>
    BY <1>1 DEF Note, wall
  <2>2. PassTyped'
    BY <1>1, <2>1, Numbers DEF PassTyped, Blocked
  <2>3. Spent(p)' = 2 * cursor[p] /\ Waited(blocked[p]) \in 0..2
    BY <1>1, <2>1, Numbers DEF PassTyped, Spent, Waited
  <2>4. Spent(p) <= Spent(p)'
    BY <1>1, <2>3, Numbers DEF Spent
  <2> QED BY <1>1, <2>1, <2>2, <2>4, Numbers DEF PassTyped, Running, Spent
<1>2. ASSUME NEW wait \in {"query", "request", "cleanup"},
             blocked' = [blocked EXCEPT ![p] = wait], cursor[p] \in 1..N,
             blocked[p] \in (IF wait = "query" THEN {"no"} ELSE Asking),
             UNCHANGED <<cursor, wall>>
      PROVE  /\ PassTyped' /\ Running(p) /\ Running(p)' /\ Spent(p) <= Spent(p)'
             /\ \A q \in Pass \ {p} : (Running(q)' <=> Running(q)) /\ Spent(q)' = Spent(q)
  <2>1. blocked'[p] = wait /\ \A q \in Pass \ {p} : blocked'[q] = blocked[q]
    BY <1>2 DEF PassTyped
  <2>2. PassTyped'
    BY <1>2, <2>1 DEF PassTyped, Blocked, Early, wall
  <2>3. Waited(blocked[p]) \in 0..2 /\ Waited(blocked[p]) <= Waited(wait) /\ Waited(wait) \in 0..2
    BY <1>2 DEF Waited, Asking
  <2>4. Spent(p) <= Spent(p)'
    BY <1>2, <2>1, <2>3, Numbers DEF Spent
  <2> QED BY <1>2, <2>1, <2>2, <2>4, Numbers DEF Running, Spent
<1>3. \A waits : Visiting(p, waits) => cursor[p] \in 1..N /\ blocked[p] \in waits
  BY OrderAssumption DEF Visiting, N
<1>4. CASE SkipDefective(p)
  BY <1>1, <1>3, <1>4 DEF SkipDefective
<1>5. CASE Query(p)
  BY <1>2, <1>3, <1>5 DEF Query
<1>6. CASE AnswerZombie(p)
  BY <1>1, <1>3, <1>6, Zenon DEF AnswerZombie, wall
<1>7. CASE \E answer \in Report : Answer(p, answer)
  BY <1>1, <1>3, <1>7, Zenon DEF Answer, wall
<1>8. CASE \E answer \in Report : RequestTransition(p, answer)
  BY <1>2, <1>3, <1>8 DEF RequestTransition
<1>9. CASE FinishRequest(p)
  BY <1>1, <1>3, <1>9 DEF FinishRequest
<1>10. CASE RequestCleanup(p)
  BY <1>2, <1>3, <1>10 DEF RequestCleanup
<1>11. CASE FinishCleanup(p)
  BY <1>1, <1>3, <1>11, Zenon DEF FinishCleanup, wall
<1>12. ~Publish(p)
  BY DEF Publish, N
<1> QED BY <1>4, <1>5, <1>6, <1>7, <1>8, <1>9, <1>10, <1>11, <1>12 DEF Proceed

LEMMA WaitedBounds == \A wait : Waited(wait) \in 0..2
BY DEF Waited

LEMMA ProceedKeeps ==
  ASSUME IInv, NEW p \in Pass, Proceed(p), cursor[p] # N + 1, UNCHANGED silence
  PROVE  IInv'
<1>1. /\ PassTyped' /\ timer' = timer /\ due' = due /\ silence' = silence
      /\ Running(p) /\ Running(p)' /\ Spent(p) <= Spent(p)'
      /\ \A q \in Pass \ {p} : (Running(q)' <=> Running(q)) /\ Spent(q)' = Spent(q)
  BY ProceedSpends DEF IInv, wall
<1>2. \A q \in Pass : Spent(q) \in Int /\ Spent(q)' \in Int
  BY <1>1, WaitedBounds, Numbers DEF IInv, PassTyped, Spent
<1>3. \A q \in Pass : (Running(q)' <=> Running(q)) /\ Spent(q) <= Spent(q)'
  BY <1>1, <1>2
<1>4. timer \in Nat /\ silence \in Nat
  BY DEF IInv, PassTyped
<1>5. ASSUME NEW r \in [Pass -> Nat], Rounds(r) PROVE Rounds(r)'
  <2>1. \A q \in Pass : Running(q)' => Period * r[q] + timer' <= Spent(q)'
    <3> SUFFICES ASSUME NEW q \in Pass, Running(q)' PROVE Period * r[q] + timer' <= Spent(q)'
      OBVIOUS
    <3>1. Period * r[q] + timer <= Spent(q) /\ Period * r[q] \in Nat
      BY <1>3, <1>5, Numbers DEF Rounds
    <3> QED BY <1>1, <1>2, <1>3, <1>4, <3>1
  <2> QED BY <1>1, <1>3, <1>5, <2>1 DEF Rounds
<1>6. PulseToCome'
  <2>1. ASSUME NEW q \in Pass, Running(q), silence <= Period + Spent(q)
        PROVE  silence' <= Period + Spent(q)'
    BY <1>1, <1>2, <1>3, <1>4, <2>1, Numbers
  <2> QED BY <1>1, <1>3, <2>1 DEF IInv, PulseToCome
<1> QED BY <1>1, <1>5, <1>6 DEF IInv

(* The thread that takes the timer starts the newest round. *)
LEMMA BeginKeeps ==
  ASSUME IInv, NEW p \in Pass, Begin(p), UNCHANGED silence
  PROVE  IInv'
<1>1. /\ due /\ ~due' /\ timer = 0 /\ timer' = 0 /\ silence' = silence
      /\ ~Running(p) /\ cursor' = [cursor EXCEPT ![p] = 1] /\ blocked' = blocked
  BY DEF Begin, IInv, PassTyped, Running
<1>2. blocked[p] = "no"
  BY <1>1, Numbers DEF IInv, PassTyped, Running
<1>3. PassTyped'
  BY <1>1, <1>2, Numbers DEF IInv, PassTyped
<1>4. /\ Running(p)' /\ Spent(p)' = 0
      /\ \A q \in Pass \ {p} : (Running(q)' <=> Running(q)) /\ Spent(q)' = Spent(q)
  BY <1>1, <1>2, Numbers DEF IInv, PassTyped, Running, Spent, Waited
<1>5. ASSUME NEW r \in [Pass -> Nat], Rounds(r)
      PROVE  \E s \in [Pass -> Nat] : Rounds(s)'
  <2> DEFINE s == [r EXCEPT ![p] = 0]
  <2>1. s \in [Pass -> Nat] /\ s[p] = 0 /\ \A q \in Pass \ {p} : s[q] = r[q]
    OBVIOUS
  <2> HIDE DEF s
  <2>2. \A q \in Pass \ {p} : Running(q) => r[q] # 0
    BY <1>1, <1>5 DEF Rounds
  <2>3. ASSUME NEW q \in Pass, Running(q)' PROVE Period * s[q] + timer' <= Spent(q)'
    <3>1. CASE q = p
      BY <1>1, <1>4, <2>1, <3>1, Numbers
    <3>2. CASE q # p
      BY <1>1, <1>4, <1>5, <2>1, <2>3, <3>2 DEF Rounds
    <3> QED BY <3>1, <3>2
  <2>4. Rounds(s)'
    BY <1>1, <1>4, <1>5, <2>1, <2>2, <2>3 DEF Rounds
  <2> QED BY <2>1, <2>4
<1>6. PulseToCome'
  <2>1. CASE silence <= Period
    BY <1>1, <1>4, <2>1, Numbers DEF PulseToCome
  <2>2. CASE ~(silence <= Period)
    BY <1>1, <1>4, <2>2, Numbers DEF IInv, PassTyped, PulseToCome
  <2> QED BY <2>1, <2>2
<1> QED BY <1>3, <1>5, <1>6 DEF IInv

LEMMA PulseKeeps ==
  ASSUME IInv, NEW p \in Pass, Pulse(p)
  PROVE  IInv'
<1>1. /\ cursor[p] = N + 1 /\ cursor' = [cursor EXCEPT ![p] = 0] /\ blocked' = blocked
      /\ timer' = timer /\ due' = due /\ silence' = 0
  BY DEF Pulse, Publish, wall, N
<1>2. blocked[p] = "no"
  BY <1>1, Numbers DEF IInv, PassTyped
<1>3. PassTyped'
  BY <1>1, <1>2, Numbers DEF IInv, PassTyped, MaxSilence
<1>4. /\ ~Running(p)'
      /\ \A q \in Pass \ {p} : (Running(q)' <=> Running(q)) /\ Spent(q)' = Spent(q)
  BY <1>1 DEF IInv, PassTyped, Running, Spent
<1>5. ASSUME NEW r \in [Pass -> Nat], Rounds(r) PROVE Rounds(r)'
  BY <1>1, <1>4, <1>5 DEF Rounds
<1>6. PulseToCome'
  BY <1>1, <1>3 DEF PulseToCome, PassTyped
<1> QED BY <1>3, <1>5, <1>6 DEF IInv

(* When all threads are busy and the timer is due again, the oldest pass   *)
(* has spent all it can, and waits no longer.                              *)
LEMMA TimerNeverWaits ==
  ASSUME IInv, Elapse
  PROVE  ~due
<1> SUFFICES ASSUME due PROVE FALSE
  OBVIOUS
<1>1. \A p \in Pass : Running(p) /\ blocked[p] \in Early
  BY DEF Elapse, Running
<1>2. PICK r \in [Pass -> Nat] : Rounds(r)
  BY DEF IInv
<1>3. PICK p \in Pass : r[p] >= Cardinality(Pass)
  BY <1>1, <1>2, OldestRound DEF Rounds
<1>4. Cardinality(Pass) \in Nat /\ Cardinality(Pass) * Period >= 2 * N
  BY ThreadsAssumption, Numbers, FS_CardinalityType DEF EnoughThreads
<1>5. Period * r[p] >= 2 * N
  <2>1. Period * Cardinality(Pass) <= Period * r[p]
    BY <1>3, <1>4, TimesMonotone
  <2> QED BY <1>4, <2>1, Numbers
<1>6. Period * r[p] <= Spent(p)
  BY <1>1, <1>2, Numbers DEF Rounds, IInv, PassTyped
<1>7. cursor[p] \in 1..N /\ Waited(blocked[p]) \in {0, 1}
  BY <1>1 DEF IInv, PassTyped, Early, Waited
<1>8. Spent(p) < 2 * N
  BY <1>7, Numbers DEF Spent
<1> QED BY <1>5, <1>6, <1>8, <1>7, Numbers DEF Spent

LEMMA TickKeeps ==
  ASSUME IInv, Tick
  PROVE  IInv'
<1>1. /\ ~due /\ due' \in BOOLEAN /\ (due' <=> timer' = 0)
      /\ timer' = (timer + 1) % Period /\ cursor' = cursor
      /\ \A p \in Pass : Running(p) => blocked[p] \in Early
      /\ blocked' = [p \in Pass |-> IF ~Running(p) THEN "no" ELSE Late(blocked[p])]
  BY TimerNeverWaits DEF Tick, Elapse, IInv, PassTyped, Running
<1>2. timer \in 0..(Period - 1) /\ silence \in 0..MaxSilence /\ MaxSilence \in Nat
  BY Numbers DEF IInv, PassTyped, MaxSilence
<1>3. timer' = IF timer + 1 < Period THEN timer + 1 ELSE 0
  BY <1>1, <1>2, Numbers
<1>4. silence' \in 0..MaxSilence /\ silence' <= silence + 1
  BY <1>2 DEF Tick
<1>5. ASSUME NEW p \in Pass, Running(p)
      PROVE  /\ blocked'[p] \in Blocked /\ cursor[p] \in 1..N
             /\ Spent(p) \in Nat /\ Spent(p)' = Spent(p) + 1
  <2>1. blocked[p] \in Early /\ blocked'[p] = Late(blocked[p])
    BY <1>1, <1>5
  <2>2. Waited(blocked[p]) \in {0, 1} /\ Waited(Late(blocked[p])) = Waited(blocked[p]) + 1
    BY <2>1 DEF Early, Late, Waited
  <2>3. cursor[p] \in 1..N
    BY <2>1 DEF IInv, PassTyped, Early
  <2>4. blocked'[p] \in Blocked
    BY <2>1 DEF Blocked
  <2> QED BY <1>1, <2>1, <2>2, <2>3, <2>4, Numbers DEF Spent
<1>6. PassTyped'
  <2>1. blocked' \in [Pass -> Blocked] /\ \A p \in Pass : blocked'[p] # "no" => cursor[p] \in 1..N
    BY <1>1, <1>5 DEF Blocked
  <2> QED BY <1>1, <1>2, <1>3, <1>4, <2>1, Numbers DEF IInv, PassTyped
<1>7. \A p \in Pass : Running(p)' <=> Running(p)
  BY <1>1 DEF Running
<1>8. ASSUME NEW r \in [Pass -> Nat], Rounds(r)
      PROVE  \E s \in [Pass -> Nat] : Rounds(s)'
  <2>1. CASE timer + 1 < Period
    <3>1. timer' = timer + 1 /\ ~due'
      BY <1>1, <1>2, <1>3, <2>1
    <3>2. ASSUME NEW p \in Pass, Running(p) PROVE Period * r[p] + timer' <= Spent(p)'
      <4>1. Period * r[p] + timer <= Spent(p) /\ Period * r[p] \in Nat
        BY <1>8, <3>2, Numbers DEF Rounds
      <4> QED BY <1>2, <1>5, <3>1, <3>2, <4>1
    <3>3. Rounds(r)'
      BY <1>7, <1>8, <3>1, <3>2 DEF Rounds
    <3> QED BY <3>3
  <2>2. CASE ~(timer + 1 < Period)
    <3> DEFINE s == [p \in Pass |-> r[p] + 1]
    <3>1. s \in [Pass -> Nat] /\ \A p \in Pass : s[p] = r[p] + 1
      OBVIOUS
    <3> HIDE DEF s
    <3>2. timer' = 0 /\ timer + 1 = Period
      BY <1>2, <1>3, <2>2, Numbers
    <3>3. ASSUME NEW p \in Pass, Running(p) PROVE Period * s[p] + timer' <= Spent(p)'
      <4>1. Period * r[p] + timer <= Spent(p) /\ Period * r[p] \in Nat
        BY <1>8, <3>3, Numbers DEF Rounds
      <4>2. Period * s[p] = Period * r[p] + Period
        BY <3>1, Numbers
      <4> QED BY <1>2, <1>5, <3>2, <3>3, <4>1, <4>2, Numbers
    <3>4. \A p, q \in Pass : Running(p) /\ Running(q) /\ p # q => s[p] # s[q]
      BY <1>8, <3>1 DEF Rounds
    <3>5. \A p \in Pass : s[p] >= 1
      BY <3>1
    <3>6. Rounds(s)'
      BY <1>7, <3>3, <3>4, <3>5 DEF Rounds
    <3> QED BY <3>1, <3>6
  <2> QED BY <2>1, <2>2
<1>9. PulseToCome'
  <2>1. CASE silence <= timer
    BY <1>1, <1>2, <1>3, <1>4, <2>1, Numbers DEF PulseToCome
  <2>2. ASSUME NEW p \in Pass, Running(p), silence <= Period + Spent(p)
        PROVE  PulseToCome'
    <3>1. silence' <= Period + Spent(p)'
      BY <1>2, <1>4, <1>5, <2>2, Numbers
    <3> QED BY <1>7, <2>2, <3>1 DEF PulseToCome
  <2> QED BY <1>1, <2>1, <2>2 DEF IInv, PulseToCome
<1> QED BY <1>6, <1>8, <1>9 DEF IInv

-----------------------------------------------------------------------------
(* The theorems *)

LEMMA Invariance == HeartbeatSpec => []IInv
<1>1. HeartbeatInit => IInv
  <2> SUFFICES ASSUME HeartbeatInit PROVE IInv
    OBVIOUS
  <2>1. /\ \A p \in Pass : ~Running(p)
        /\ cursor = [p \in Pass |-> 0] /\ blocked = [p \in Pass |-> "no"]
        /\ timer = 0 /\ ~due /\ due = FALSE /\ silence = 0
    BY DEF HeartbeatInit, Init, Running
  <2>2. PassTyped
    BY <2>1, Numbers DEF PassTyped, Blocked, MaxSilence
  <2>3. [p \in Pass |-> 0] \in [Pass -> Nat] /\ Rounds([p \in Pass |-> 0])
    BY <2>1 DEF Rounds
  <2> QED BY <2>1, <2>2, <2>3 DEF IInv, PulseToCome
<1>2. IInv /\ [HeartbeatNext]_hvars => IInv'
  <2> SUFFICES ASSUME IInv, [HeartbeatNext]_hvars PROVE IInv'
    OBVIOUS
  <2>1. ASSUME NEW p \in Pass, Work(p) PROVE IInv'
    <3>1. cursor[p] # N + 1 /\ UNCHANGED silence /\ (Begin(p) \/ Proceed(p))
      BY <2>1 DEF Work, N
    <3> QED BY <3>1, BeginKeeps, ProceedKeeps
  <2>2. CASE UNCHANGED hvars
    <3>1. /\ cursor' = cursor /\ blocked' = blocked /\ timer' = timer /\ due' = due
          /\ silence' = silence
      BY <2>2 DEF hvars, vars, locals, wall
    <3>2. \A p \in Pass : (Running(p)' <=> Running(p)) /\ Spent(p)' = Spent(p)
      BY <3>1 DEF Running, Spent
    <3>3. ASSUME NEW r \in [Pass -> Nat], Rounds(r) PROVE Rounds(r)'
      BY <3>1, <3>2, <3>3 DEF Rounds
    <3>4. PassTyped' /\ PulseToCome'
      BY <3>1, <3>2 DEF IInv, PassTyped, PulseToCome
    <3> QED BY <3>3, <3>4 DEF IInv
  <2> QED BY <2>1, <2>2, PulseKeeps, TickKeeps DEF HeartbeatNext
<1> QED BY <1>1, <1>2, PTL DEF HeartbeatSpec

(* For any components, any period and any number of threads that is        *)
(* enough, whatever the answers and however the passes overlap: pulses are *)
(* never further apart than one period and the longest pass.               *)
THEOREM PulseCorrect == HeartbeatSpec => []PulseBounded
<1>1. IInv => PulseBounded
  <2> SUFFICES ASSUME IInv PROVE silence <= Period + LongestPass
    BY DEF PulseBounded
  <2>1. \A p \in Pass : Spent(p) \in Int /\ Spent(p) <= 2 * N
    <3> SUFFICES ASSUME NEW p \in Pass PROVE Spent(p) \in Int /\ Spent(p) <= 2 * N
      OBVIOUS
    <3>1. blocked[p] = "no" => Waited(blocked[p]) = 0
      BY DEF Waited
    <3> QED BY <3>1, WaitedBounds, Numbers DEF IInv, PassTyped, Spent
  <2> QED BY <2>1, Numbers DEF IInv, PassTyped, PulseToCome
<1> QED BY <1>1, Invariance, PTL

(* With threads enough a pass is never late: the clock does not move on    *)
(* while the timer waits for a thread.                                     *)
THEOREM TimerServed == HeartbeatSpec => [][Elapse => ~due]_hvars
<1>1. IInv => [Elapse => ~due]_hvars
  BY TimerNeverWaits
<1> QED BY <1>1, Invariance, PTL
-----------------------------------------------------------------------------
(* Lockouts *)

Record ==
  [retry_count : Nat, phase : RecoveryPhase, elapsed : Nat, is_defective : BOOLEAN,
   current_state : Report]

(* What a record is in between any two steps of the passes. *)
RecordOK(m) ==
  /\ m \in Record
  /\ m.is_defective <=> m.phase = "DEFECTIVE"
  /\ m.is_defective <=> m.retry_count > MAX_RECOVERY_RETRIES

(* What it still is when a pass has waited for its cleanup, late or not:   *)
(* the wait was begun in POWER_OFF and is too short for the discharge to   *)
(* be over, and an ACTIVE answer meanwhile leaves all the strikes to come. *)
Cleanable(m, late) ==
  /\ m.phase \in {"POWER_OFF", "WAIT_DISCHARGE", "NOMINAL"}
  /\ m.phase = "NOMINAL" => m.retry_count = 0
  /\ m.phase = "WAIT_DISCHARGE" => m.elapsed <= (IF late THEN 2 ELSE 1)

(* In units of the timeout of a request, of which the policy has 60.       *)
LongDischarge == PowerOffTime >= 3

LockInv ==
  /\ cursor \in [Pass -> Nat] /\ blocked \in [Pass -> Blocked]
  /\ \A p \in Pass : blocked[p] # "no" => cursor[p] \in DOMAIN Order
  /\ managed_nodes \in [Node -> Record]
  /\ \A n \in Node : RecordOK(managed_nodes[n])
  /\ \A p \in Pass : Visiting(p, Cleaning) =>
       Cleanable(managed_nodes[Visited(p)], blocked[p] = "lateCleanup")

(* v is m with these fields, and the last report as it was.                *)
Updated(v, m, phase, elapsed, strikes, flag) ==
  /\ v \in Record
  /\ v.phase = phase /\ v.elapsed = elapsed /\ v.retry_count = strikes
  /\ v.is_defective = flag /\ v.current_state = m.current_state

LEMMA FieldUpdates ==
  ASSUME NEW m \in Record, NEW k \in Nat, NEW ph \in RecoveryPhase
  PROVE  /\ Updated([m EXCEPT !.phase = ph], m, ph, m.elapsed, m.retry_count, m.is_defective)
         /\ Updated([m EXCEPT !.elapsed = k], m, m.phase, k, m.retry_count, m.is_defective)
         /\ Updated([m EXCEPT !.retry_count = k], m, m.phase, m.elapsed, k, m.is_defective)
         /\ Updated([m EXCEPT !.is_defective = TRUE], m, m.phase, m.elapsed, m.retry_count, TRUE)
<1>1. Updated([m EXCEPT !.phase = ph], m, ph, m.elapsed, m.retry_count, m.is_defective)
  BY DEF Updated, Record
<1>2. Updated([m EXCEPT !.elapsed = k], m, m.phase, k, m.retry_count, m.is_defective)
  BY DEF Updated, Record
<1>3. Updated([m EXCEPT !.retry_count = k], m, m.phase, m.elapsed, k, m.is_defective)
  BY DEF Updated, Record
<1>4. Updated([m EXCEPT !.is_defective = TRUE], m, m.phase, m.elapsed, m.retry_count, TRUE)
  BY DEF Updated, Record
<1> QED BY <1>1, <1>2, <1>3, <1>4

(* The assignments of the recovery state machine that change two fields.   *)
LEMMA CompoundUpdates ==
  ASSUME NEW m \in Record
  PROVE  /\ Updated(Stabilized(m), m, "NOMINAL", m.elapsed, 0, m.is_defective)
         /\ Updated(LockOut(m), m, "DEFECTIVE", m.elapsed, m.retry_count, TRUE)
         /\ \A ph \in RecoveryPhase :
              Updated(EnterTimed(m, ph), m, ph, 0, m.retry_count, m.is_defective)
<1>0. "NOMINAL" \in RecoveryPhase /\ "DEFECTIVE" \in RecoveryPhase
  BY DEF RecoveryPhase
<1>1. Updated(Stabilized(m), m, "NOMINAL", m.elapsed, 0, m.is_defective)
  <2> DEFINE q == [m EXCEPT !.retry_count = 0]
  <2>1. Updated(q, m, m.phase, m.elapsed, 0, m.is_defective)
    BY <1>0, FieldUpdates
  <2> HIDE DEF q
  <2>2. Updated([q EXCEPT !.phase = "NOMINAL"], q, "NOMINAL", q.elapsed, q.retry_count,
                q.is_defective)
    BY <1>0, <2>1, FieldUpdates DEF Updated
  <2>3. Stabilized(m) = [q EXCEPT !.phase = "NOMINAL"]
    BY DEF Stabilized, q
  <2> QED BY <2>1, <2>2, <2>3 DEF Updated
<1>2. Updated(LockOut(m), m, "DEFECTIVE", m.elapsed, m.retry_count, TRUE)
  <2> DEFINE q == [m EXCEPT !.is_defective = TRUE]
  <2>1. Updated(q, m, m.phase, m.elapsed, m.retry_count, TRUE)
    BY <1>0, FieldUpdates
  <2> HIDE DEF q
  <2>2. Updated([q EXCEPT !.phase = "DEFECTIVE"], q, "DEFECTIVE", q.elapsed, q.retry_count,
                q.is_defective)
    BY <1>0, <2>1, FieldUpdates DEF Updated
  <2>3. LockOut(m) = [q EXCEPT !.phase = "DEFECTIVE"]
    BY DEF LockOut, q
  <2> QED BY <2>1, <2>2, <2>3 DEF Updated
<1>3. ASSUME NEW ph \in RecoveryPhase
      PROVE  Updated(EnterTimed(m, ph), m, ph, 0, m.retry_count, m.is_defective)
  <2> DEFINE q == [m EXCEPT !.phase = ph]
  <2>1. Updated(q, m, ph, m.elapsed, m.retry_count, m.is_defective)
    BY FieldUpdates
  <2> HIDE DEF q
  <2>0. q \in Record /\ 0 \in Nat
    BY <2>1 DEF Updated
  <2>2. Updated([q EXCEPT !.elapsed = 0], q, q.phase, 0, q.retry_count, q.is_defective)
    BY <1>0, <2>0, FieldUpdates, Zenon
  <2>3. EnterTimed(m, ph) = [q EXCEPT !.elapsed = 0]
    BY DEF EnterTimed, q
  <2> QED BY <2>1, <2>2, <2>3 DEF Updated
<1> QED BY <1>1, <1>2, <1>3

LEMMA OlderUpdates ==
  ASSUME NEW m \in Record, NEW n
  PROVE  \E e \in Nat : /\ e <= m.elapsed + 1
                        /\ Updated(Older(n, m), m, m.phase, e, m.retry_count, m.is_defective)
<1> DEFINE e == IF m.elapsed < LongestWait(n) THEN m.elapsed + 1 ELSE m.elapsed
<1>1. m.elapsed \in Nat /\ "NOMINAL" \in RecoveryPhase
  BY DEF Record, RecoveryPhase
<1>2. e \in Nat /\ e <= m.elapsed + 1
  BY <1>1
<1>3. Older(n, m) = [m EXCEPT !.elapsed = e]
  BY DEF Older
<1> HIDE DEF e
<1>4. Updated([m EXCEPT !.elapsed = e], m, m.phase, e, m.retry_count, m.is_defective)
  BY <1>1, <1>2, FieldUpdates, Zenon
<1> QED BY <1>2, <1>3, <1>4

(* An answer leaves the record as it must be, also one that was asked for  *)
(* before another pass locked the component out.                           *)
LEMMA EvaluateOK ==
  ASSUME LongDischarge, NEW n, NEW m, RecordOK(m), NEW s \in Report, ~Zombie(m, s)
  PROVE  /\ RecordOK(Evaluate(n, m, s))
         /\ \A late \in BOOLEAN : Cleanable(m, late) => Cleanable(Evaluate(n, m, s), late)
<1> DEFINE q == [m EXCEPT !.current_state = s]
<1>1. RecordOK(q) /\ \A late \in BOOLEAN : Cleanable(m, late) => Cleanable(q, late)
  BY DEF RecordOK, Record, Cleanable
<1>2. CASE s = "ACTIVE"
  <2>1. Evaluate(n, m, s) = Stabilized(q) /\ ~q.is_defective
    BY <1>2 DEF Evaluate, Zombie, RecordOK, Record
  <2> HIDE DEF q
  <2>2. Updated(Stabilized(q), q, "NOMINAL", q.elapsed, 0, q.is_defective)
    BY <1>1, CompoundUpdates DEF RecordOK
  <2>3. \A late \in BOOLEAN : Cleanable(Stabilized(q), late)
    BY <2>2 DEF Updated, Cleanable
  <2>4. RecordOK(Stabilized(q))
    BY <2>1, <2>2, RetryAssumption DEF Updated, RecordOK
  <2> QED BY <2>1, <2>3, <2>4
<1>3. CASE s \in {"INACTIVE", "UNCONFIGURED"}
  BY <1>1, <1>3 DEF Evaluate
<1>4. CASE s = "UNKNOWN"
  <2>1. Evaluate(n, m, s) = HandleRecoveryFsm(n, q)
    BY <1>4 DEF Evaluate
  <2> HIDE DEF q
  <2> DEFINE v == HandleRecoveryFsm(n, q)
  <2>2. CASE q.phase = "NOMINAL"
    <3>1. v = Strike(q) /\ ~q.is_defective /\ q.retry_count \in 0..MAX_RECOVERY_RETRIES
      BY <1>1, <2>2, RetryAssumption DEF HandleRecoveryFsm, RecordOK, Record
    <3> DEFINE k == q.retry_count + 1
               r == [q EXCEPT !.retry_count = k]
    <3>2. Updated(r, q, "NOMINAL", q.elapsed, k, q.is_defective) /\ k \in Nat
      <4>1. k \in Nat /\ q \in Record /\ "NOMINAL" \in RecoveryPhase
        BY <1>1 DEF RecordOK, Record, RecoveryPhase
      <4> QED BY <2>2, <4>1, FieldUpdates
    <3>3. v = IF k > MAX_RECOVERY_RETRIES THEN LockOut(r) ELSE [r EXCEPT !.phase = "POWER_OFF"]
      BY <3>1 DEF Strike, StrikesExhausted
    <3>4. k = q.retry_count + 1
      OBVIOUS
    <3> HIDE DEF k, r
    <3>5. CASE k > MAX_RECOVERY_RETRIES
      <4>1. Updated(LockOut(r), r, "DEFECTIVE", r.elapsed, r.retry_count, TRUE)
        BY <3>2, CompoundUpdates DEF Updated
      <4>2. RecordOK(v)
        BY <3>2, <3>3, <3>5, <4>1 DEF Updated, RecordOK
      <4>3. \A late \in BOOLEAN : ~Cleanable(q, late)
        BY <2>2, <3>4, <3>5, RetryAssumption DEF Cleanable
      <4> QED BY <1>1, <2>1, <4>2, <4>3
    <3>6. CASE ~(k > MAX_RECOVERY_RETRIES)
      <4>1. Updated([r EXCEPT !.phase = "POWER_OFF"], r, "POWER_OFF", r.elapsed, r.retry_count,
                    r.is_defective)
        BY <3>2, FieldUpdates DEF Updated, RecoveryPhase
      <4>2. RecordOK(v) /\ \A late \in BOOLEAN : Cleanable(v, late)
        BY <3>1, <3>2, <3>3, <3>6, <4>1 DEF Updated, RecordOK, Cleanable
      <4> QED BY <2>1, <4>2
    <3> QED BY <3>5, <3>6
  <2>3. CASE q.phase = "POWER_OFF"
    <3>1. v = EnterTimed(q, "WAIT_DISCHARGE")
      BY <2>3 DEF HandleRecoveryFsm
    <3>2. Updated(v, q, "WAIT_DISCHARGE", 0, q.retry_count, q.is_defective)
      BY <1>1, <3>1, CompoundUpdates DEF RecordOK, RecoveryPhase
    <3>3. RecordOK(v) /\ \A late \in BOOLEAN : Cleanable(v, late)
      BY <1>1, <2>3, <3>2 DEF Updated, RecordOK, Cleanable
    <3> QED BY <2>1, <3>3
  <2>4. CASE q.phase = "WAIT_DISCHARGE"
    <3>1. v = IF DischargeOver(q) THEN [q EXCEPT !.phase = "POWER_ON"] ELSE q
      BY <2>4 DEF HandleRecoveryFsm
    <3>2. RecordOK(v)
      BY <1>1, <2>4, <3>1 DEF RecordOK, Record, RecoveryPhase
    <3>3. \A late \in BOOLEAN : Cleanable(q, late) => ~DischargeOver(q)
      BY <1>1, <2>4, TimeAssumption DEF Cleanable, DischargeOver, LongDischarge, RecordOK, Record
    <3> QED BY <1>1, <2>1, <3>1, <3>2, <3>3
  <2>5. CASE q.phase \in {"POWER_ON", "WAIT_BOOT"}
    <3>1. v \in {q, EnterTimed(q, "WAIT_BOOT"), EnterTimed(q, "NOMINAL")}
      BY <2>5 DEF HandleRecoveryFsm
    <3>2. ASSUME NEW ph \in {"WAIT_BOOT", "NOMINAL"} PROVE RecordOK(EnterTimed(q, ph))
      <4>1. Updated(EnterTimed(q, ph), q, ph, 0, q.retry_count, q.is_defective)
        BY <1>1, <3>2, CompoundUpdates DEF RecordOK, RecoveryPhase
      <4> QED BY <1>1, <2>5, <4>1 DEF Updated, RecordOK
    <3>3. RecordOK(v)
      BY <1>1, <3>1, <3>2
    <3>4. \A late \in BOOLEAN : ~Cleanable(q, late)
      BY <2>5 DEF Cleanable
    <3> QED BY <1>1, <2>1, <3>3, <3>4
  <2>6. CASE q.phase = "DEFECTIVE"
    BY <1>1, <2>1, <2>6 DEF HandleRecoveryFsm
  <2> QED BY <1>1, <2>2, <2>3, <2>4, <2>5, <2>6 DEF RecordOK, Record, RecoveryPhase
<1> QED BY <1>2, <1>3, <1>4 DEF Report

(* A pass that changes only the record it visits, in a way the others that *)
(* wait for a cleanup of it can stand.                                     *)
LEMMA RecordStepKeeps ==
  ASSUME LockInv, NEW p \in Pass, NEW n \in Node, NEW v,
         managed_nodes' = [managed_nodes EXCEPT ![n] = v], RecordOK(v),
         \A late \in BOOLEAN : Cleanable(managed_nodes[n], late) => Cleanable(v, late),
         cursor' \in [Pass -> Nat], blocked' \in [Pass -> Blocked],
         \A q \in Pass \ {p} : cursor'[q] = cursor[q] /\ blocked'[q] = blocked[q],
         blocked'[p] # "no" => cursor'[p] \in DOMAIN Order,
         blocked'[p] \in Cleaning => cursor'[p] = cursor[p] /\ Order[cursor[p]] = n
                                     /\ Cleanable(v, blocked'[p] = "lateCleanup")
  PROVE  LockInv'
<1>1. managed_nodes' \in [Node -> Record] /\ \A k \in Node : RecordOK(managed_nodes'[k])
  BY DEF LockInv, RecordOK
<1>2. ASSUME NEW q \in Pass, Visiting(q, Cleaning)'
      PROVE  Cleanable(managed_nodes'[Order[cursor'[q]]], blocked'[q] = "lateCleanup")
  <2>1. CASE q = p
    BY <1>2, <2>1 DEF Visiting, LockInv
  <2>2. CASE q # p
    <3>1. Visiting(q, Cleaning) /\ cursor'[q] = cursor[q] /\ blocked'[q] = blocked[q]
      BY <1>2, <2>2 DEF Visiting
    <3>2. Cleanable(managed_nodes[Order[cursor[q]]], blocked[q] = "lateCleanup")
      BY <3>1 DEF LockInv, Visited
    <3>3. Order[cursor[q]] \in Node
      BY <3>1, OrderAssumption DEF Visiting
    <3> QED BY <3>1, <3>2, <3>3 DEF LockInv
  <2> QED BY <2>1, <2>2
<1> QED BY <1>1, <1>2 DEF LockInv, Visited

LEMMA AnswerLocks ==
  ASSUME LongDischarge, LockInv, NEW p \in Pass, NEW s \in Report, Visiting(p, Asking),
         ~Zombie(managed_nodes[Visited(p)], s),
         managed_nodes' = [managed_nodes EXCEPT ![Visited(p)] =
                             Evaluate(Visited(p), managed_nodes[Visited(p)], s)],
         cursor' \in [Pass -> Nat], blocked' \in [Pass -> Blocked],
         \A q \in Pass \ {p} : cursor'[q] = cursor[q] /\ blocked'[q] = blocked[q],
         blocked'[p] # "no" => cursor'[p] \in DOMAIN Order, blocked'[p] \notin Cleaning
  PROVE  LockInv'
<1> DEFINE n == Visited(p)
           v == Evaluate(n, managed_nodes[n], s)
<1>1. n \in Node
  BY OrderAssumption DEF Visiting, Visited
<1>2. RecordOK(managed_nodes[n])
  BY <1>1 DEF LockInv
<1>3. RecordOK(v) /\ \A late \in BOOLEAN : Cleanable(managed_nodes[n], late) => Cleanable(v, late)
  BY <1>2, EvaluateOK
<1> HIDE DEF v
<1>4. managed_nodes' = [managed_nodes EXCEPT ![n] = v]
  BY DEF v
<1> HIDE DEF n
<1> QED BY <1>1, <1>3, <1>4, RecordStepKeeps

(* A pass goes on without touching the records, and without starting to    *)
(* wait for a cleanup.                                                     *)
LEMMA LeavesRecords ==
  ASSUME LockInv, NEW p \in Pass, UNCHANGED managed_nodes,
         cursor' \in [Pass -> Nat], blocked' \in [Pass -> Blocked],
         \A q \in Pass \ {p} : cursor'[q] = cursor[q] /\ blocked'[q] = blocked[q],
         blocked'[p] # "no" => cursor'[p] \in DOMAIN Order, blocked'[p] \notin Cleaning
  PROVE  LockInv'
<1>1. \A q \in Pass : Visiting(q, Cleaning)' =>
        Visiting(q, Cleaning) /\ cursor'[q] = cursor[q] /\ blocked'[q] = blocked[q]
  BY DEF Visiting
<1> QED BY <1>1 DEF LockInv, Visited

(* Note moves the cursor on and ends the wait. *)
LEMMA NoteMoves ==
  ASSUME LockInv, NEW p \in Pass, NEW level, NEW active, Note(p, level, active)
  PROVE  /\ cursor' \in [Pass -> Nat] /\ blocked' \in [Pass -> Blocked]
         /\ \A q \in Pass \ {p} : cursor'[q] = cursor[q] /\ blocked'[q] = blocked[q]
         /\ blocked'[p] = "no"
<1>1. /\ cursor' = [cursor EXCEPT ![p] = cursor[p] + 1] /\ blocked' = [blocked EXCEPT ![p] = "no"]
  BY DEF Note
<1> QED BY <1>1 DEF LockInv, Blocked

(* So does a new wait, without the cursor. *)
LEMMA WaitMoves ==
  ASSUME LockInv, NEW p \in Pass, NEW wait \in Early, NEW waits, Visiting(p, waits),
         blocked' = [blocked EXCEPT ![p] = wait], UNCHANGED cursor
  PROVE  /\ cursor' \in [Pass -> Nat] /\ blocked' \in [Pass -> Blocked]
         /\ \A q \in Pass \ {p} : cursor'[q] = cursor[q] /\ blocked'[q] = blocked[q]
         /\ blocked'[p] = wait /\ cursor'[p] = cursor[p] /\ cursor'[p] \in DOMAIN Order
BY DEF LockInv, Blocked, Visiting

LEMMA RequestCleanupLocks ==
  ASSUME LockInv, NEW p \in Pass, RequestCleanup(p)
  PROVE  LockInv'
<1> DEFINE n == Order[cursor[p]]
           v == [managed_nodes[n] EXCEPT !.current_state = "UNKNOWN"]
<1>1. n \in Node /\ managed_nodes[n].phase = "POWER_OFF"
  BY OrderAssumption DEF RequestCleanup, Visiting, Visited
<1>2. RecordOK(managed_nodes[n])
  BY <1>1 DEF LockInv
<1>3. managed_nodes' = [managed_nodes EXCEPT ![n] = v]
  <2>1. managed_nodes' = [managed_nodes EXCEPT ![n].current_state = "UNKNOWN"]
    BY DEF RequestCleanup, Visited
  <2> QED BY <2>1
<1>4. RecordOK(v) /\ \A late \in BOOLEAN : Cleanable(v, late)
  BY <1>1, <1>2 DEF RecordOK, Record, Report, Cleanable
<1> HIDE DEF v
<1>5. /\ cursor' \in [Pass -> Nat] /\ blocked' \in [Pass -> Blocked]
      /\ cursor'[p] = cursor[p] /\ cursor'[p] \in DOMAIN Order
      /\ \A q \in Pass \ {p} : cursor'[q] = cursor[q] /\ blocked'[q] = blocked[q]
  BY WaitMoves DEF RequestCleanup, Early
<1> QED BY <1>1, <1>3, <1>4, <1>5, RecordStepKeeps

(* The phase is written over whatever the record has become; that it has   *)
(* not become DEFECTIVE is what Cleanable says.                            *)
LEMMA FinishCleanupLocks ==
  ASSUME LongDischarge, LockInv, NEW p \in Pass, FinishCleanup(p)
  PROVE  LockInv'
<1> DEFINE n == Order[cursor[p]]
           m == managed_nodes[n]
           after == EnterTimed(m, "WAIT_DISCHARGE")
           v == IF blocked[p] = "lateCleanup" THEN Older(n, after) ELSE after
<1>1. n \in Node /\ Visiting(p, Cleaning)
  BY OrderAssumption DEF FinishCleanup, Visiting
<1>2. RecordOK(m) /\ m.phase \in {"POWER_OFF", "WAIT_DISCHARGE", "NOMINAL"}
  BY <1>1 DEF LockInv, Cleanable, Visited
<1>3. Updated(after, m, "WAIT_DISCHARGE", 0, m.retry_count, m.is_defective)
  BY <1>2, CompoundUpdates DEF RecordOK, RecoveryPhase
<1>4. managed_nodes' = [managed_nodes EXCEPT ![n] = v]
  BY DEF FinishCleanup, Visited
<1>5. \E level, active : Note(p, level, active)
  BY DEF FinishCleanup
<1> HIDE DEF after, m
<1>6. after \in Record /\ RecordOK(after) /\ after.phase = "WAIT_DISCHARGE" /\ after.elapsed = 0
  BY <1>2, <1>3 DEF Updated, RecordOK
<1>7. PICK e \in Nat : /\ e <= 1
                      /\ Updated(v, after, "WAIT_DISCHARGE", e, after.retry_count,
                                 after.is_defective)
  <2>1. Updated(after, after, "WAIT_DISCHARGE", 0, after.retry_count, after.is_defective)
    BY <1>6 DEF Updated
  <2>2. PICK e \in Nat : /\ e <= 0 + 1
                        /\ Updated(Older(n, after), after, "WAIT_DISCHARGE", e,
                                   after.retry_count, after.is_defective)
    BY <1>6, OlderUpdates
  <2> QED BY <2>1, <2>2
<1>8. RecordOK(v)
  BY <1>6, <1>7 DEF Updated, RecordOK
<1> HIDE DEF v
<1>9. \A late \in BOOLEAN : Cleanable(v, late)
  BY <1>7 DEF Updated, Cleanable
<1> HIDE DEF n
<1>10. /\ cursor' \in [Pass -> Nat] /\ blocked' \in [Pass -> Blocked] /\ blocked'[p] = "no"
      /\ \A q \in Pass \ {p} : cursor'[q] = cursor[q] /\ blocked'[q] = blocked[q]
  BY <1>5, NoteMoves
<1> QED BY <1>1, <1>4, <1>8, <1>9, <1>10, RecordStepKeeps DEF Cleaning

LEMMA ProceedLocks ==
  ASSUME LongDischarge, LockInv, NEW p \in Pass, Proceed(p)
  PROVE  LockInv'
<1>1. ASSUME NEW level, NEW active, Note(p, level, active), UNCHANGED managed_nodes
      PROVE  LockInv'
  BY <1>1, NoteMoves, LeavesRecords DEF Cleaning
<1>2. CASE SkipDefective(p)
  BY <1>1, <1>2 DEF SkipDefective
<1>3. CASE Query(p)
  <2>1. /\ Visiting(p, {"no"}) /\ blocked' = [blocked EXCEPT ![p] = "query"]
        /\ UNCHANGED <<managed_nodes, cursor>>
    BY <1>3 DEF Query
  <2> QED BY <2>1, WaitMoves, LeavesRecords DEF Early, Cleaning
<1>4. CASE AnswerZombie(p)
  <2> DEFINE n == Visited(p)
             v == [managed_nodes[n] EXCEPT !.current_state = "ACTIVE"]
  <2>0. Visiting(p, Asking) /\ Note(p, STATE_EMERGENCY, FALSE)
    BY <1>4 DEF AnswerZombie
  <2>1. n \in Node
    BY <2>0, OrderAssumption DEF Visiting, Visited
  <2>2. RecordOK(managed_nodes[n])
    BY <2>1 DEF LockInv
  <2>3. managed_nodes' = [managed_nodes EXCEPT ![n] = v]
    <3>1. managed_nodes' = [managed_nodes EXCEPT ![n].current_state = "ACTIVE"]
      BY <1>4 DEF AnswerZombie
    <3> QED BY <3>1
  <2>4. /\ RecordOK(v)
        /\ \A late \in BOOLEAN : Cleanable(managed_nodes[n], late) => Cleanable(v, late)
    BY <2>2 DEF RecordOK, Record, Report, Cleanable
  <2> HIDE DEF v, n
  <2> QED BY <2>0, <2>1, <2>3, <2>4, NoteMoves, RecordStepKeeps DEF Cleaning
<1>5. ASSUME NEW s \in Report, Answer(p, s) PROVE LockInv'
  <2>1. /\ Visiting(p, Asking) /\ ~Zombie(managed_nodes[Visited(p)], s)
        /\ managed_nodes' = [managed_nodes EXCEPT ![Visited(p)] =
                               Evaluate(Visited(p), managed_nodes[Visited(p)], s)]
    BY <1>5 DEF Answer
  <2>2. \E level, active : Note(p, level, active)
    BY <1>5 DEF Answer
  <2> QED BY <2>1, <2>2, NoteMoves, AnswerLocks DEF Cleaning
<1>6. ASSUME NEW s \in Report, RequestTransition(p, s) PROVE LockInv'
  <2>1. /\ Visiting(p, Asking)
        /\ managed_nodes' = [managed_nodes EXCEPT ![Visited(p)] =
                               Evaluate(Visited(p), managed_nodes[Visited(p)], s)]
        /\ blocked' = [blocked EXCEPT ![p] = "request"] /\ UNCHANGED cursor
    BY <1>6 DEF RequestTransition
  <2>2. s # "ACTIVE"
    BY <1>6 DEF RequestTransition, Request
  <2>3. ~Zombie(managed_nodes[Visited(p)], s)
    BY <2>2 DEF Zombie
  <2> QED BY <2>1, <2>3, WaitMoves, AnswerLocks DEF Early, Cleaning
<1>7. CASE FinishRequest(p)
  BY <1>1, <1>7 DEF FinishRequest
<1>8. CASE Publish(p)
  <2>1. /\ cursor' = [cursor EXCEPT ![p] = 0] /\ UNCHANGED <<managed_nodes, blocked>>
        /\ cursor[p] = Len(Order) + 1
    BY <1>8 DEF Publish
  <2>2. blocked[p] = "no"
    BY <2>1, OrderAssumption DEF LockInv
  <2>3. /\ cursor' \in [Pass -> Nat] /\ blocked' \in [Pass -> Blocked]
        /\ \A q \in Pass \ {p} : cursor'[q] = cursor[q] /\ blocked'[q] = blocked[q]
    BY <2>1 DEF LockInv
  <2> QED BY <2>1, <2>2, <2>3, LeavesRecords DEF Cleaning
<1> QED
  BY <1>2, <1>3, <1>4, <1>5, <1>6, <1>7, <1>8, RequestCleanupLocks, FinishCleanupLocks
  DEF Proceed

LEMMA ElapseLocks ==
  ASSUME LockInv, Elapse
  PROVE  LockInv'
<1>1. /\ managed_nodes' = [n \in Node |-> Older(n, managed_nodes[n])] /\ cursor' = cursor
      /\ blocked' = [p \in Pass |-> IF cursor[p] = 0 THEN "no" ELSE Late(blocked[p])]
      /\ \A p \in Pass : cursor[p] # 0 => blocked[p] \in Early
  BY DEF Elapse
<1>2. ASSUME NEW n \in Node
      PROVE  /\ RecordOK(managed_nodes'[n])
             /\ Cleanable(managed_nodes[n], FALSE) => Cleanable(managed_nodes'[n], TRUE)
  <2> DEFINE m == managed_nodes[n]
             v == managed_nodes'[n]
  <2>1. RecordOK(m) /\ m \in Record /\ v = Older(n, m)
    BY <1>1 DEF LockInv
  <2> HIDE DEF m, v
  <2>2. PICK e \in Nat : /\ e <= m.elapsed + 1
                        /\ Updated(v, m, m.phase, e, m.retry_count, m.is_defective)
    BY <2>1, OlderUpdates
  <2>3. RecordOK(v)
    BY <2>1, <2>2 DEF Updated, RecordOK
  <2>4. Cleanable(m, FALSE) => Cleanable(v, TRUE)
    BY <2>1, <2>2 DEF Updated, Cleanable, Record
  <2> QED BY <2>3, <2>4 DEF m, v
<1>3. ASSUME NEW p \in Pass
      PROVE  /\ blocked'[p] \in Blocked
             /\ blocked'[p] # "no" => cursor[p] \in DOMAIN Order
             /\ Visiting(p, Cleaning)' => Visiting(p, Cleaning) /\ blocked[p] = "cleanup"
                                          /\ blocked'[p] = "lateCleanup"
  <2>1. CASE cursor[p] = 0
    BY <1>1, <2>1, OrderAssumption DEF Visiting, Blocked
  <2>2. CASE cursor[p] # 0
    BY <1>1, <2>2 DEF Visiting, Blocked, Early, Late, Cleaning, LockInv
  <2> QED BY <2>1, <2>2
<1>4. managed_nodes' \in [Node -> Record] /\ blocked' \in [Pass -> Blocked]
  BY <1>1, <1>2, <1>3 DEF RecordOK
<1>5. ASSUME NEW p \in Pass, Visiting(p, Cleaning)'
      PROVE  Cleanable(managed_nodes'[Visited(p)'], blocked'[p] = "lateCleanup")
  <2>1. /\ Visiting(p, Cleaning) /\ blocked[p] = "cleanup" /\ blocked'[p] = "lateCleanup"
        /\ Visited(p)' = Visited(p) /\ Visited(p) \in Node
    BY <1>1, <1>3, <1>5, OrderAssumption DEF Visiting, Visited
  <2>2. (blocked[p] = "lateCleanup") = FALSE /\ (blocked'[p] = "lateCleanup") = TRUE
    BY <2>1
  <2>3. Cleanable(managed_nodes[Visited(p)], FALSE)
    BY <2>1, <2>2 DEF LockInv
  <2> QED BY <1>2, <2>1, <2>2, <2>3
<1> QED BY <1>1, <1>2, <1>3, <1>4, <1>5 DEF LockInv

LEMMA LockInvariance ==
  ASSUME LongDischarge
  PROVE  Spec => []LockInv
<1>1. Init => LockInv
  <2> SUFFICES ASSUME Init PROVE LockInv
    OBVIOUS
  <2>1. RecordOK(InitialNode)
    BY RetryAssumption DEF RecordOK, Record, InitialNode, RecoveryPhase, Report
  <2>2. \A p \in Pass : ~Visiting(p, Cleaning)
    BY DEF Init, Visiting, Cleaning
  <2> QED BY <2>1, <2>2 DEF Init, LockInv, RecordOK, Blocked
<1>2. LockInv /\ [Next]_vars => LockInv'
  <2> SUFFICES ASSUME LockInv, [Next]_vars PROVE LockInv'
    OBVIOUS
  <2>1. ASSUME NEW p \in Pass, Begin(p) PROVE LockInv'
    <3>1. /\ cursor' = [cursor EXCEPT ![p] = 1] /\ UNCHANGED <<managed_nodes, blocked>>
          /\ cursor[p] = 0
      BY <2>1 DEF Begin
    <3>2. blocked[p] = "no"
      BY <3>1, OrderAssumption DEF LockInv
    <3>3. /\ cursor' \in [Pass -> Nat] /\ blocked' \in [Pass -> Blocked]
          /\ \A q \in Pass \ {p} : cursor'[q] = cursor[q] /\ blocked'[q] = blocked[q]
      BY <3>1 DEF LockInv
    <3> QED BY <3>1, <3>2, <3>3, LeavesRecords DEF Cleaning
  <2>2. CASE UNCHANGED vars
    BY <2>2 DEF vars, locals, LockInv, Visiting, Visited
  <2>3. ASSUME NEW p \in Pass, Proceed(p) PROVE LockInv'
    BY <2>3, ProceedLocks
  <2> QED BY <2>1, <2>2, <2>3, ElapseLocks DEF Next
<1> QED BY <1>1, <1>2, PTL DEF Spec

(* For any components and any number of passes that overlap: a lockout is  *)
(* final and whole, if the discharge of a power cycle takes at least three *)
(* times as long as a request may (3 s and 50 ms in the policy): a pass    *)
(* that waits for its cleanup must write the phase before it can be over.  *)
THEOREM LockoutCorrect ==
  ASSUME LongDischarge
  PROVE  Spec => []LockoutFinal
<1>1. LockInv => LockoutFinal
  BY DEF LockInv, RecordOK, LockoutFinal
<1> QED BY <1>1, LockInvariance, PTL

(* The heartbeat only observes the passes. *)
LEMMA HeartbeatObserves == HeartbeatSpec => Spec
<1>1. HeartbeatInit => Init
  BY DEF HeartbeatInit
<1>2. [HeartbeatNext]_hvars => [Next]_vars
  BY DEF HeartbeatNext, hvars, Work, Pulse, Tick, Next, Proceed
<1> QED BY <1>1, <1>2, PTL DEF HeartbeatSpec, Spec

(* The same of the passes with their heartbeat. *)
THEOREM HeartbeatLockoutCorrect ==
  ASSUME LongDischarge
  PROVE  HeartbeatSpec => []LockoutFinal
BY LockoutCorrect, HeartbeatObserves, PTL
=============================================================================
