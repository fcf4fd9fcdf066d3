------------------------ MODULE TwistMuxThreadsProofs ------------------------
(***************************************************************************)
(* Proofs about TwistMuxThreads for any number of threads: why the loop    *)
(* may throw, and that BLOCKED is never reported over a command.           *)
(***************************************************************************)
EXTENDS TwistMuxThreads, SequenceTheorems, TLAPS

(* What can be left of a callback of the Reentrant group, *)
ReentrantLists ==
  {<<>>}
  \cup {FdirState(b) : b \in BOOLEAN} \cup {SafetyState(b) : b \in BOOLEAN}
  \cup {Combine, <<Op("readEstop", "-")>>} \cup {<<Op("combined", b)>> : b \in BOOLEAN}
  \cup {Teleop, <<Op("refuse", "-"), Op("takeOver", "-")>>, <<Op("takeOver", "-")>>}
  \cup {Nav, <<Op("refuse", "-"), Op("follow", "-")>>, <<Op("follow", "-")>>}
  \cup {ControlLoop, <<Op("lockAndAge", "-"), Op("manual", "-"), Op("autonomous", "-")>>}
  \cup {<<Op("decide", b), Op("manual", "-"), Op("autonomous", "-")>> : b \in BOOLEAN}
  \cup {<<Op("manual", "-"), Op("autonomous", "-")>>, <<Op("autonomous", "-")>>}
  \cup {<<Op("stop", s), Op("report", "-"), Op("drive", "-")>> : s \in {"BLOCKED", "IDLE"}}
  \cup {<<Op("route", "-"), Op("report", "-"), Op("drive", "-")>>}
  \cup {Publication, <<Op("drive", "-")>>}

(* and of a transition. *)
DefaultLists ==
  {<<>>, OnConfigure, OnDeactivate, OnCleanup, <<Op("smooth", "null")>>,
   OnActivate, <<Op("past", "-"), Op("idle", "-")>>, <<Op("idle", "-")>>}
  \cup {<<Op("state", b), Op("endpoints", b)>> : b \in BOOLEAN}
  \cup {<<Op("endpoints", b)>> : b \in BOOLEAN}
  \cup {<<Op("state", b), Op("smooth", "null")>> : b \in BOOLEAN}

(* The access a thread is at. *)
Doing(list) == IF list = <<>> THEN "nothing" ELSE Head(list).op

LEMMA ConcatenationIn ==
  ASSUME NEW S, NEW a \in S, NEW b \in S, NEW c \in S
  PROVE  <<a>> \o <<b, c>> = <<a, b, c>>
<1>1. /\ <<a>> \in Seq(S) /\ <<b, c>> \in Seq(S) /\ <<a, b, c>> \in Seq(S)
  OBVIOUS
<1>2. Len(<<a>> \o <<b, c>>) = Len(<<a, b, c>>)
  BY <1>1
<1>3. \A i \in 1..Len(<<a, b, c>>) : (<<a>> \o <<b, c>>)[i] = <<a, b, c>>[i]
  BY <1>1
<1> QED BY <1>1, <1>2, <1>3, SeqEqual, ConcatProperties

LEMMA Concatenation ==
  ASSUME NEW a, NEW b, NEW c
  PROVE  <<a>> \o <<b, c>> = <<a, b, c>>
<1>1. a \in {a, b, c} /\ b \in {a, b, c} /\ c \in {a, b, c}
  OBVIOUS
<1> QED BY <1>1, ConcatenationIn

LEMMA Lists ==
  /\ \A b : FdirState(b) = <<Op("fdir", b), Op("readFdir", "-"), Op("readEstop", "-")>>
  /\ \A b : SafetyState(b) = <<Op("estop", b), Op("readFdir", "-"), Op("readEstop", "-")>>
  /\ Teleop = <<Op("lock", "-"), Op("refuse", "-"), Op("takeOver", "-")>>
  /\ Nav = <<Op("lock", "-"), Op("refuse", "-"), Op("follow", "-")>>
BY Concatenation DEF FdirState, SafetyState, Teleop, Nav, Lock, Combine

(* What a thread at one access is at next if it simply goes on.            *)
Follows(list, rest) ==
  /\ Doing(list) \in {"fdir", "estop", "readFdir", "readEstop", "combined"} =>
       Doing(rest) \in {"readFdir", "readEstop", "nothing"}
  /\ Doing(list) = "readFdir" => Doing(rest) = "readEstop"
  /\ Doing(list) = "lock" => Doing(rest) = "refuse"
  /\ Doing(list) = "refuse" => Doing(rest) \in {"takeOver", "follow"}
  /\ Doing(list) \in {"takeOver", "follow", "drive"} => Doing(rest) = "nothing"
  /\ Doing(list) = "activated" => Doing(rest) = "lockAndAge"
  /\ Doing(list) \in {"lockAndAge", "decide"} =>
       rest = <<Op("manual", "-"), Op("autonomous", "-")>> /\ Doing(rest) = "manual"
  /\ Doing(list) = "manual" => Doing(rest) = "autonomous"
  /\ Doing(list) \in {"fdir", "estop", "combined"} => Head(list).arg \in BOOLEAN
  /\ Doing(list) = "stop" => Head(list).arg \in {"BLOCKED", "IDLE"}
  /\ Doing(list) \in {"stop", "route"} => Doing(rest) = "report"
  /\ Doing(list) = "report" => Doing(rest) = "drive"
  /\ Doing(list) \notin {"nothing", "smooth", "state", "endpoints", "past", "idle"}

LEMMA ReentrantSuccessors ==
  ASSUME NEW list \in ReentrantLists, list # <<>>
  PROVE  Tail(list) \in ReentrantLists /\ Follows(list, Tail(list))
<1>1. CASE \E b \in BOOLEAN : list = FdirState(b)
  <2>0. PICK b \in BOOLEAN : list = <<Op("fdir", b), Op("readFdir", "-"), Op("readEstop", "-")>>
    BY <1>1, Lists
  <2>1. /\ Doing(list) = "fdir" /\ Tail(list) = <<Op("readFdir", "-"), Op("readEstop", "-")>>
        /\ Doing(Tail(list)) = "readFdir"
        /\ Head(list).arg \in BOOLEAN
    BY <2>0 DEF Doing, Op
  <2>2. Tail(list) \in ReentrantLists
    BY <2>1 DEF ReentrantLists, Combine
  <2> QED BY <2>1, <2>2 DEF Follows
<1>2. CASE \E b \in BOOLEAN : list = SafetyState(b)
  <2>0. PICK b \in BOOLEAN : list = <<Op("estop", b), Op("readFdir", "-"), Op("readEstop", "-")>>
    BY <1>2, Lists
  <2>1. /\ Doing(list) = "estop" /\ Tail(list) = <<Op("readFdir", "-"), Op("readEstop", "-")>>
        /\ Doing(Tail(list)) = "readFdir"
        /\ Head(list).arg \in BOOLEAN
    BY <2>0 DEF Doing, Op
  <2>2. Tail(list) \in ReentrantLists
    BY <2>1 DEF ReentrantLists, Combine
  <2> QED BY <2>1, <2>2 DEF Follows
<1>3. CASE list = Combine
  <2>1. /\ Doing(list) = "readFdir" /\ Tail(list) = <<Op("readEstop", "-")>>
        /\ Doing(Tail(list)) = "readEstop"
    BY <1>3 DEF Doing, Op, Combine
  <2>2. Tail(list) \in ReentrantLists
    BY <2>1 DEF ReentrantLists
  <2> QED BY <2>1, <2>2 DEF Follows
<1>4. CASE list = <<Op("readEstop", "-")>>
  <2>1. /\ Doing(list) = "readEstop" /\ Tail(list) = <<>>
        /\ Doing(Tail(list)) = "nothing"
    BY <1>4 DEF Doing, Op
  <2>2. Tail(list) \in ReentrantLists
    BY <2>1 DEF ReentrantLists
  <2> QED BY <2>1, <2>2 DEF Follows
<1>5. CASE \E b \in BOOLEAN : list = <<Op("combined", b)>>
  <2>1. /\ Doing(list) = "combined" /\ Tail(list) = <<>>
        /\ Doing(Tail(list)) = "nothing"
        /\ Head(list).arg \in BOOLEAN
    BY <1>5 DEF Doing, Op
  <2>2. Tail(list) \in ReentrantLists
    BY <2>1 DEF ReentrantLists
  <2> QED BY <2>1, <2>2 DEF Follows
<1>6. CASE list = Teleop
  <2>1. /\ Doing(list) = "lock" /\ Tail(list) = <<Op("refuse", "-"), Op("takeOver", "-")>>
        /\ Doing(Tail(list)) = "refuse"
    BY <1>6, Lists DEF Doing, Op
  <2>2. Tail(list) \in ReentrantLists
    BY <2>1 DEF ReentrantLists
  <2> QED BY <2>1, <2>2 DEF Follows
<1>7. CASE list = <<Op("refuse", "-"), Op("takeOver", "-")>>
  <2>1. /\ Doing(list) = "refuse" /\ Tail(list) = <<Op("takeOver", "-")>>
        /\ Doing(Tail(list)) = "takeOver"
    BY <1>7 DEF Doing, Op
  <2>2. Tail(list) \in ReentrantLists
    BY <2>1 DEF ReentrantLists
  <2> QED BY <2>1, <2>2 DEF Follows
<1>8. CASE list = <<Op("takeOver", "-")>>
  <2>1. /\ Doing(list) = "takeOver" /\ Tail(list) = <<>>
        /\ Doing(Tail(list)) = "nothing"
    BY <1>8 DEF Doing, Op
  <2>2. Tail(list) \in ReentrantLists
    BY <2>1 DEF ReentrantLists
  <2> QED BY <2>1, <2>2 DEF Follows
<1>9. CASE list = Nav
  <2>1. /\ Doing(list) = "lock" /\ Tail(list) = <<Op("refuse", "-"), Op("follow", "-")>>
        /\ Doing(Tail(list)) = "refuse"
    BY <1>9, Lists DEF Doing, Op
  <2>2. Tail(list) \in ReentrantLists
    BY <2>1 DEF ReentrantLists
  <2> QED BY <2>1, <2>2 DEF Follows
<1>10. CASE list = <<Op("refuse", "-"), Op("follow", "-")>>
  <2>1. /\ Doing(list) = "refuse" /\ Tail(list) = <<Op("follow", "-")>>
        /\ Doing(Tail(list)) = "follow"
    BY <1>10 DEF Doing, Op
  <2>2. Tail(list) \in ReentrantLists
    BY <2>1 DEF ReentrantLists
  <2> QED BY <2>1, <2>2 DEF Follows
<1>11. CASE list = <<Op("follow", "-")>>
  <2>1. /\ Doing(list) = "follow" /\ Tail(list) = <<>>
        /\ Doing(Tail(list)) = "nothing"
    BY <1>11 DEF Doing, Op
  <2>2. Tail(list) \in ReentrantLists
    BY <2>1 DEF ReentrantLists
  <2> QED BY <2>1, <2>2 DEF Follows
<1>12. CASE list = ControlLoop
  <2>1. /\ Doing(list) = "activated" /\ Tail(list) = <<Op("lockAndAge", "-"), Op("manual", "-"), Op("autonomous", "-")>>
        /\ Doing(Tail(list)) = "lockAndAge"
    BY <1>12 DEF Doing, Op, ControlLoop
  <2>2. Tail(list) \in ReentrantLists
    BY <2>1 DEF ReentrantLists
  <2> QED BY <2>1, <2>2 DEF Follows
<1>13. CASE list = <<Op("lockAndAge", "-"), Op("manual", "-"), Op("autonomous", "-")>>
  <2>1. /\ Doing(list) = "lockAndAge" /\ Tail(list) = <<Op("manual", "-"), Op("autonomous", "-")>>
        /\ Doing(Tail(list)) = "manual"
    BY <1>13 DEF Doing, Op
  <2>2. Tail(list) \in ReentrantLists
    BY <2>1 DEF ReentrantLists
  <2> QED BY <2>1, <2>2 DEF Follows
<1>14. CASE \E b \in BOOLEAN : list = <<Op("decide", b), Op("manual", "-"), Op("autonomous", "-")>>
  <2>1. /\ Doing(list) = "decide" /\ Tail(list) = <<Op("manual", "-"), Op("autonomous", "-")>>
        /\ Doing(Tail(list)) = "manual"
    BY <1>14 DEF Doing, Op
  <2>2. Tail(list) \in ReentrantLists
    BY <2>1 DEF ReentrantLists
  <2> QED BY <2>1, <2>2 DEF Follows
<1>15. CASE list = <<Op("manual", "-"), Op("autonomous", "-")>>
  <2>1. /\ Doing(list) = "manual" /\ Tail(list) = <<Op("autonomous", "-")>>
        /\ Doing(Tail(list)) = "autonomous"
    BY <1>15 DEF Doing, Op
  <2>2. Tail(list) \in ReentrantLists
    BY <2>1 DEF ReentrantLists
  <2> QED BY <2>1, <2>2 DEF Follows
<1>16. CASE list = <<Op("autonomous", "-")>>
  <2>1. /\ Doing(list) = "autonomous" /\ Tail(list) = <<>>
        /\ Doing(Tail(list)) = "nothing"
    BY <1>16 DEF Doing, Op
  <2>2. Tail(list) \in ReentrantLists
    BY <2>1 DEF ReentrantLists
  <2> QED BY <2>1, <2>2 DEF Follows
<1>17. CASE \E s \in {"BLOCKED", "IDLE"} : list = <<Op("stop", s), Op("report", "-"), Op("drive", "-")>>
  <2>1. /\ Doing(list) = "stop" /\ Tail(list) = <<Op("report", "-"), Op("drive", "-")>>
        /\ Doing(Tail(list)) = "report"
        /\ Head(list).arg \in {"BLOCKED", "IDLE"}
    BY <1>17 DEF Doing, Op
  <2>2. Tail(list) \in ReentrantLists
    BY <2>1 DEF ReentrantLists, Publication
  <2> QED BY <2>1, <2>2 DEF Follows
<1>18. CASE list = <<Op("route", "-"), Op("report", "-"), Op("drive", "-")>>
  <2>1. /\ Doing(list) = "route" /\ Tail(list) = <<Op("report", "-"), Op("drive", "-")>>
        /\ Doing(Tail(list)) = "report"
    BY <1>18 DEF Doing, Op
  <2>2. Tail(list) \in ReentrantLists
    BY <2>1 DEF ReentrantLists, Publication
  <2> QED BY <2>1, <2>2 DEF Follows
<1>19. CASE list = Publication
  <2>1. /\ Doing(list) = "report" /\ Tail(list) = <<Op("drive", "-")>>
        /\ Doing(Tail(list)) = "drive"
    BY <1>19 DEF Doing, Op, Publication
  <2>2. Tail(list) \in ReentrantLists
    BY <2>1 DEF ReentrantLists
  <2> QED BY <2>1, <2>2 DEF Follows
<1>20. CASE list = <<Op("drive", "-")>>
  <2>1. /\ Doing(list) = "drive" /\ Tail(list) = <<>>
        /\ Doing(Tail(list)) = "nothing"
    BY <1>20 DEF Doing, Op
  <2>2. Tail(list) \in ReentrantLists
    BY <2>1 DEF ReentrantLists
  <2> QED BY <2>1, <2>2 DEF Follows
<1> QED
  BY <1>1, <1>2, <1>3, <1>4, <1>5, <1>6, <1>7, <1>8, <1>9, <1>10,
     <1>11, <1>12, <1>13, <1>14, <1>15, <1>16, <1>17, <1>18, <1>19, <1>20
  DEF ReentrantLists

LEMMA DefaultSuccessors ==
  ASSUME NEW list \in DefaultLists, list # <<>>
  PROVE  /\ Tail(list) \in DefaultLists
         /\ Doing(list) \in {"smooth", "state", "endpoints", "past", "idle"}
         /\ Doing(list) = "smooth" /\ Head(list).arg = "active" => Doing(Tail(list)) = "past"
         /\ Doing(list) = "past" => Doing(Tail(list)) = "idle"
<1>1. CASE list = OnConfigure
  <2>0. PICK b \in BOOLEAN : list = <<Op("smooth", "inactive"), Op("state", b), Op("endpoints", b)>>
    BY <1>1 DEF OnConfigure
  <2>1. /\ Doing(list) = "smooth" /\ Head(list).arg = "inactive"
        /\ Tail(list) = <<Op("state", b), Op("endpoints", b)>> /\ Doing(Tail(list)) = "state"
    BY <2>0 DEF Doing, Op
  <2> QED BY <2>1 DEF DefaultLists
<1>2. CASE \E b \in BOOLEAN : list = <<Op("state", b), Op("endpoints", b)>>
  <2>0. PICK b \in BOOLEAN : list = <<Op("state", b), Op("endpoints", b)>>
    BY <1>2
  <2>1. /\ Doing(list) = "state"
        /\ Tail(list) = <<Op("endpoints", b)>> /\ Doing(Tail(list)) = "endpoints"
    BY <2>0 DEF Doing, Op
  <2> QED BY <2>1 DEF DefaultLists
<1>3. CASE \E b \in BOOLEAN : list = <<Op("endpoints", b)>>
  <2>0. PICK b \in BOOLEAN : list = <<Op("endpoints", b)>>
    BY <1>3
  <2>1. /\ Doing(list) = "endpoints"
        /\ Tail(list) = <<>> /\ Doing(Tail(list)) = "nothing"
    BY <2>0 DEF Doing, Op
  <2> QED BY <2>1 DEF DefaultLists
<1>4. CASE list = OnActivate
  <2>0. list = <<Op("smooth", "active"), Op("past", "-"), Op("idle", "-")>>
    BY <1>4 DEF OnActivate
  <2>1. /\ Doing(list) = "smooth" /\ Head(list).arg = "active"
        /\ Tail(list) = <<Op("past", "-"), Op("idle", "-")>> /\ Doing(Tail(list)) = "past"
    BY <2>0 DEF Doing, Op
  <2> QED BY <2>1 DEF DefaultLists
<1>5. CASE list = <<Op("past", "-"), Op("idle", "-")>>
  <2>1. /\ Doing(list) = "past"
        /\ Tail(list) = <<Op("idle", "-")>> /\ Doing(Tail(list)) = "idle"
    BY <1>5 DEF Doing, Op
  <2> QED BY <2>1 DEF DefaultLists
<1>6. CASE list = <<Op("idle", "-")>>
  <2>1. /\ Doing(list) = "idle"
        /\ Tail(list) = <<>> /\ Doing(Tail(list)) = "nothing"
    BY <1>6 DEF Doing, Op
  <2> QED BY <2>1 DEF DefaultLists
<1>7. CASE list = OnDeactivate
  <2>0. list = <<Op("smooth", "inactive")>>
    BY <1>7 DEF OnDeactivate
  <2>1. /\ Doing(list) = "smooth" /\ Head(list).arg = "inactive"
        /\ Tail(list) = <<>> /\ Doing(Tail(list)) = "nothing"
    BY <2>0 DEF Doing, Op
  <2> QED BY <2>1 DEF DefaultLists
<1>8. CASE list = OnCleanup
  <2>0. PICK b \in BOOLEAN : list = <<Op("endpoints", b), Op("state", b), Op("smooth", "null")>>
    BY <1>8 DEF OnCleanup
  <2>1. /\ Doing(list) = "endpoints"
        /\ Tail(list) = <<Op("state", b), Op("smooth", "null")>> /\ Doing(Tail(list)) = "state"
    BY <2>0 DEF Doing, Op
  <2> QED BY <2>1 DEF DefaultLists
<1>9. CASE \E b \in BOOLEAN : list = <<Op("state", b), Op("smooth", "null")>>
  <2>0. PICK b \in BOOLEAN : list = <<Op("state", b), Op("smooth", "null")>>
    BY <1>9
  <2>1. /\ Doing(list) = "state"
        /\ Tail(list) = <<Op("smooth", "null")>> /\ Doing(Tail(list)) = "smooth"
    BY <2>0 DEF Doing, Op
  <2> QED BY <2>1 DEF DefaultLists
<1>10. CASE list = <<Op("smooth", "null")>>
  <2>1. /\ Doing(list) = "smooth" /\ Head(list).arg = "null"
        /\ Tail(list) = <<>> /\ Doing(Tail(list)) = "nothing"
    BY <1>10 DEF Doing, Op
  <2> QED BY <2>1 DEF DefaultLists
<1> QED BY <1>1, <1>2, <1>3, <1>4, <1>5, <1>6, <1>7, <1>8, <1>9, <1>10 DEF DefaultLists

-----------------------------------------------------------------------------
(* The inductive invariant *)

Shapes ==
  /\ todo \in [Thread -> ReentrantLists \cup DefaultLists]
  /\ \A t \in Reentrant : todo[t] \in ReentrantLists
  /\ todo[Default] \in DefaultLists

Typed ==
  /\ is_fdir_blocked \in BOOLEAN /\ is_estop_blocked \in BOOLEAN
  /\ is_safety_blocked \in BOOLEAN
  /\ current_state \in TwistMuxState
  /\ fresh \in BOOLEAN /\ driven \in BOOLEAN

Holding ==
  {"refuse", "takeOver", "follow", "decide", "manual", "autonomous", "stop", "route", "report",
   "drive"}

(* Past the test of the publisher, and not yet decided. *)
PastTest == {"lockAndAge", "decide", "manual", "autonomous"}

(* on_activate has activated the publisher and not yet left the state UCFG. *)
Activating == {"past", "idle"}

(* What a thread knows at an access: it holds the mutex, and what it has   *)
(* found out about the state still holds, up to a transition to IDLE.      *)
ThreadInv(t) ==
  /\ Doing(todo[t]) \in Holding => mux_mutex = t
  /\ Doing(todo[t]) = "autonomous" => current_state # "MANUAL"
  /\ Doing(todo[t]) = "route" => current_state # "BLOCKED"
  /\ Doing(todo[t]) = "report" => (current_state = "BLOCKED" => ~driven)
  /\ Doing(todo[t]) \in PastTest =>
       (current_state = "UCFG" => Doing(todo[Default]) \in Activating)

IInv ==
  /\ Shapes /\ Typed /\ ThrowCauses
  /\ \A t \in Reentrant : ThreadInv(t)
  /\ smooth_pub = "active" => (current_state = "UCFG" => Doing(todo[Default]) \in Activating)

-----------------------------------------------------------------------------
(* What a step does to the lists *)

(* Thread t has rest left to do, the others what they had. *)
Moved(t, rest) ==
  /\ Shapes' /\ todo'[t] = rest
  /\ \A u \in Thread \ {t} : todo'[u] = todo[u]

LEMMA ReplaceMoves ==
  ASSUME Shapes, NEW t \in Reentrant, NEW rest \in ReentrantLists,
         todo' = [todo EXCEPT ![t] = rest]
  PROVE  Moved(t, rest)
BY ThreadAssumption DEF Shapes, Moved, Thread

LEMMA ContinueMoves ==
  ASSUME Shapes, NEW t \in Reentrant, todo[t] # <<>>, Continue(t)
  PROVE  Moved(t, Tail(todo[t])) /\ Follows(todo[t], Tail(todo[t]))
<1>1. todo[t] \in ReentrantLists
  BY DEF Shapes
<1>2. Tail(todo[t]) \in ReentrantLists /\ Follows(todo[t], Tail(todo[t]))
  BY <1>1, ReentrantSuccessors
<1>3. todo' = [todo EXCEPT ![t] = Tail(todo[t])]
  BY DEF Continue
<1> QED BY <1>2, <1>3, ReplaceMoves

LEMMA DefaultMoves ==
  ASSUME Shapes, NEW rest \in DefaultLists, todo' = [todo EXCEPT ![Default] = rest]
  PROVE  Moved(Default, rest)
BY ThreadAssumption DEF Shapes, Moved, Thread

(* What the other threads know survives a step of t that leaves state and  *)
(* set-point alone and takes the mutex at most from nobody, and any step   *)
(* of the thread that holds the mutex.                                     *)
LEMMA OthersKeep ==
  ASSUME IInv, NEW t \in Reentrant, NEW rest, Moved(t, rest),
         current_state' = "UCFG" => current_state = "UCFG",
         \/ UNCHANGED drive /\ (mux_mutex' = mux_mutex \/ mux_mutex = NoThread)
         \/ mux_mutex = t,
         NEW u \in Reentrant \ {t}
  PROVE  ThreadInv(u)'
<1>1. todo'[u] = todo[u] /\ todo'[Default] = todo[Default] /\ ThreadInv(u)
  BY ThreadAssumption DEF Moved, Thread, IInv
<1>2. CASE Doing(todo[u]) \in Holding
  <2>1. mux_mutex = u /\ u # NoThread
    BY <1>1, <1>2, ThreadAssumption DEF ThreadInv
  <2>2. UNCHANGED drive /\ mux_mutex' = mux_mutex
    BY <2>1
  <2> QED BY <1>1, <2>2 DEF ThreadInv, drive
<1>3. CASE Doing(todo[u]) \notin Holding
  BY <1>1, <1>3 DEF ThreadInv, Holding
<1> QED BY <1>2, <1>3

(* A step of thread t that is not the end of the process. *)
LEMMA StepKeeps ==
  ASSUME IInv, NEW t \in Reentrant, NEW rest, Moved(t, rest), Typed',
         process = "running", process' # "threw", UNCHANGED smooth_pub,
         current_state' = "UCFG" => current_state = "UCFG",
         \/ UNCHANGED drive /\ (mux_mutex' = mux_mutex \/ mux_mutex = NoThread)
         \/ mux_mutex = t,
         ThreadInv(t)'
  PROVE  IInv'
<1>1. \A u \in Reentrant : ThreadInv(u)'
  BY OthersKeep
<1>2. todo'[Default] = todo[Default]
  BY ThreadAssumption DEF Moved, Thread
<1>3. smooth_pub' = "active" => (current_state' = "UCFG" => Doing(todo[Default])' \in Activating)
  BY <1>2 DEF IInv
<1> QED BY <1>1, <1>3 DEF IInv, Moved, ThrowCauses

-----------------------------------------------------------------------------
(* The accesses of the Reentrant group, one lemma each *)

LEMMA AtDoes ==
  ASSUME NEW t, NEW name, At(t, name)
  PROVE  todo[t] # <<>> /\ Doing(todo[t]) = name /\ Head(todo[t]).arg = Arg(t)
BY DEF At, Doing, Arg

LEMMA Unconcerned ==
  ASSUME NEW t, NEW rest, Moved(t, rest), Doing(rest) \notin Holding \cup PastTest
  PROVE  ThreadInv(t)'
BY DEF Moved, ThreadInv, Holding

LEMMA WriteFlagKeeps ==
  ASSUME IInv, process = "running", NEW t \in Reentrant, WriteFlag(t)
  PROVE  IInv'
<1>1. /\ todo[t] # <<>> /\ Doing(todo[t]) \in {"fdir", "estop", "combined"}
      /\ Head(todo[t]).arg = Arg(t)
  BY AtDoes DEF WriteFlag
<1>2. Moved(t, Tail(todo[t])) /\ Follows(todo[t], Tail(todo[t]))
  BY <1>1, ContinueMoves DEF WriteFlag, IInv
<1>3. ThreadInv(t)'
  BY <1>1, <1>2, Unconcerned DEF Follows, Holding, PastTest
<1>4. Arg(t) \in BOOLEAN
  BY <1>1, <1>2 DEF Follows
<1>5. UNCHANGED <<process, resources, drive, mux_mutex>>
  BY DEF WriteFlag
<1>6. Typed'
  BY <1>4, <1>5 DEF WriteFlag, IInv, Typed, drive
<1> QED BY <1>2, <1>3, <1>5, <1>6, StepKeeps DEF resources, drive

LEMMA ReadFlagKeeps ==
  ASSUME IInv, process = "running", NEW t \in Reentrant, ReadFlag(t)
  PROVE  IInv'
<1>1. UNCHANGED <<process, resources, flags, drive, mux_mutex>>
  BY DEF ReadFlag
<1>2. Typed'
  BY <1>1 DEF IInv, Typed, flags, drive
<1>3. \A b \in BOOLEAN : /\ <<Op("combined", b)>> \in ReentrantLists
                         /\ Doing(<<Op("combined", b)>>) = "combined"
  <2> SUFFICES ASSUME NEW b \in BOOLEAN
               PROVE  /\ <<Op("combined", b)>> \in ReentrantLists
                      /\ Doing(<<Op("combined", b)>>) = "combined"
    OBVIOUS
  <2>1. Doing(<<Op("combined", b)>>) = "combined"
    BY DEF Doing, Op
  <2>2. <<Op("combined", b)>> \in ReentrantLists
    BY DEF ReentrantLists
  <2> QED BY <2>1, <2>2
<1>4. ASSUME NEW rest \in ReentrantLists, Replace(t, rest),
             Doing(rest) \in {"combined", "readEstop"}
      PROVE  IInv'
  <2>1. Moved(t, rest)
    BY <1>4, ReplaceMoves DEF Replace, IInv
  <2>2. ThreadInv(t)'
    BY <1>4, <2>1, Unconcerned DEF Holding, PastTest
  <2> QED BY <1>1, <1>2, <2>1, <2>2, StepKeeps DEF resources, drive
<1>5. CASE At(t, "readFdir") /\ is_fdir_blocked
  <2>1. Replace(t, <<Op("combined", TRUE)>>)
    BY <1>5, AtDoes DEF ReadFlag
  <2> QED BY <1>3, <1>4, <2>1
<1>6. CASE At(t, "readFdir") /\ ~is_fdir_blocked
  <2>1. todo[t] # <<>> /\ Doing(todo[t]) = "readFdir" /\ todo[t] \in ReentrantLists
    BY <1>6, AtDoes DEF IInv, Shapes
  <2>2. Tail(todo[t]) \in ReentrantLists /\ Doing(Tail(todo[t])) = "readEstop"
    BY <2>1, ReentrantSuccessors DEF Follows
  <2>3. Replace(t, Tail(todo[t]))
    BY <1>6, <2>1, AtDoes DEF ReadFlag
  <2> QED BY <1>4, <2>2, <2>3
<1>7. CASE At(t, "readEstop")
  <2>1. Replace(t, <<Op("combined", is_estop_blocked)>>) /\ is_estop_blocked \in BOOLEAN
    BY <1>7, AtDoes DEF ReadFlag, IInv, Typed
  <2> QED BY <1>3, <1>4, <2>1
<1> QED BY <1>5, <1>6, <1>7 DEF ReadFlag

LEMMA EndIsAList == <<>> \in ReentrantLists /\ Doing(<<>>) = "nothing"
BY DEF ReentrantLists, Doing

LEMMA AcquireKeeps ==
  ASSUME IInv, process = "running", NEW t \in Reentrant, Acquire(t)
  PROVE  IInv'
<1>1. todo[t] # <<>> /\ Doing(todo[t]) = "lock"
  BY AtDoes DEF Acquire
<1>2. Moved(t, Tail(todo[t])) /\ Doing(Tail(todo[t])) = "refuse"
  BY <1>1, ContinueMoves DEF Acquire, IInv, Follows
<1>3. ThreadInv(t)'
  BY <1>2 DEF Moved, ThreadInv, Acquire, PastTest
<1>4. UNCHANGED <<process, resources, flags, drive>> /\ mux_mutex = NoThread
  BY DEF Acquire
<1>5. Typed'
  BY <1>4 DEF IInv, Typed, flags, drive
<1> QED BY <1>2, <1>3, <1>4, <1>5, StepKeeps DEF resources, drive

LEMMA RefuseKeeps ==
  ASSUME IInv, process = "running", NEW t \in Reentrant, Refuse(t)
  PROVE  IInv'
<1>1. todo[t] # <<>> /\ Doing(todo[t]) = "refuse" /\ todo[t] \in ReentrantLists
  BY AtDoes DEF Refuse, IInv, Shapes
<1>2. mux_mutex = t
  BY <1>1 DEF IInv, ThreadInv, Holding
<1>3. UNCHANGED <<process, resources, flags, drive>>
  BY DEF Refuse
<1>4. Typed'
  BY <1>3 DEF IInv, Typed, flags, drive
<1>5. CASE is_safety_blocked
  <2>1. Moved(t, <<>>)
    BY <1>5, EndIsAList, ReplaceMoves DEF Refuse, Replace, IInv
  <2>2. ThreadInv(t)'
    BY <2>1, EndIsAList, Unconcerned DEF Holding, PastTest
  <2> QED BY <1>2, <1>3, <1>4, <2>1, <2>2, StepKeeps DEF resources, drive
<1>6. CASE ~is_safety_blocked
  <2>1. Moved(t, Tail(todo[t])) /\ Doing(Tail(todo[t])) \in {"takeOver", "follow"}
    BY <1>1, <1>6, ContinueMoves DEF Refuse, IInv, Follows
  <2>2. mux_mutex' = mux_mutex
    BY <1>6 DEF Refuse
  <2>3. ThreadInv(t)'
    BY <1>2, <2>1, <2>2 DEF Moved, ThreadInv, PastTest
  <2> QED BY <1>2, <1>3, <1>4, <2>1, <2>3, StepKeeps DEF resources, drive
<1> QED BY <1>5, <1>6

LEMMA CommandKeeps ==
  ASSUME IInv, process = "running", NEW t \in Reentrant, TakeOver(t) \/ Follow(t)
  PROVE  IInv'
<1>1. todo[t] # <<>> /\ Doing(todo[t]) \in {"takeOver", "follow"}
  BY AtDoes DEF TakeOver, Follow
<1>2. mux_mutex = t
  BY <1>1 DEF IInv, ThreadInv, Holding
<1>3. Moved(t, Tail(todo[t])) /\ Doing(Tail(todo[t])) = "nothing"
  BY <1>1, ContinueMoves DEF TakeOver, Follow, IInv, Follows
<1>4. ThreadInv(t)'
  BY <1>3, Unconcerned DEF Holding, PastTest
<1>5. /\ UNCHANGED <<process, resources, flags, driven>> /\ fresh' = TRUE
      /\ current_state' \in {current_state, "MANUAL", "AUTONOMOUS"}
  BY DEF TakeOver, Follow
<1>6. Typed'
  BY <1>5 DEF IInv, Typed, flags, TwistMuxState
<1> QED BY <1>2, <1>3, <1>4, <1>5, <1>6, StepKeeps DEF resources

LEMMA TestActivatedKeeps ==
  ASSUME IInv, process = "running", NEW t \in Reentrant, TestActivated(t)
  PROVE  IInv'
<1>1. todo[t] # <<>> /\ Doing(todo[t]) = "activated" /\ todo[t] \in ReentrantLists
  BY AtDoes DEF TestActivated, IInv, Shapes
<1>2. UNCHANGED <<resources, flags, drive, mux_mutex>> /\ process' # "threw"
  BY DEF TestActivated, Dereference
<1>3. Typed'
  BY <1>2 DEF IInv, Typed, flags, drive
<1>4. CASE smooth_pub = "active"
  <2>1. /\ Tail(todo[t]) \in ReentrantLists /\ Doing(Tail(todo[t])) = "lockAndAge"
        /\ Replace(t, Tail(todo[t]))
    BY <1>1, <1>4, ReentrantSuccessors DEF TestActivated, Follows
  <2>2. Moved(t, Tail(todo[t]))
    BY <2>1, ReplaceMoves DEF Replace, IInv
  <2>3. todo'[Default] = todo[Default]
    BY <2>2, ThreadAssumption DEF Moved, Thread
  <2>4. ThreadInv(t)'
    BY <1>2, <1>4, <2>1, <2>2, <2>3 DEF Moved, ThreadInv, IInv, Holding, drive
  <2> QED BY <1>2, <1>3, <2>2, <2>4, StepKeeps DEF resources, drive
<1>5. CASE smooth_pub # "active"
  <2>1. Moved(t, <<>>)
    BY <1>5, EndIsAList, ReplaceMoves DEF TestActivated, Replace, IInv
  <2>2. ThreadInv(t)'
    BY <2>1, EndIsAList, Unconcerned DEF Holding, PastTest
  <2> QED BY <1>2, <1>3, <2>1, <2>2, StepKeeps DEF resources, drive
<1> QED BY <1>4, <1>5

(* The lists the loop goes on with. *)
LEMMA LoopLists ==
  /\ \A b \in BOOLEAN :
       LET list == <<Op("decide", b)>> \o <<Op("manual", "-"), Op("autonomous", "-")>>
       IN  list \in ReentrantLists /\ Doing(list) = "decide"
  /\ \A s \in {"BLOCKED", "IDLE"} :
       LET list == <<Op("stop", s)>> \o Publication
       IN  list \in ReentrantLists /\ Doing(list) = "stop"
  /\ LET list == <<Op("route", "-")>> \o Publication
     IN  list \in ReentrantLists /\ Doing(list) = "route"
<1>1. ASSUME NEW b \in BOOLEAN
      PROVE  LET list == <<Op("decide", b)>> \o <<Op("manual", "-"), Op("autonomous", "-")>>
             IN  list \in ReentrantLists /\ Doing(list) = "decide"
  <2> DEFINE list == <<Op("decide", b), Op("manual", "-"), Op("autonomous", "-")>>
  <2>1. <<Op("decide", b)>> \o <<Op("manual", "-"), Op("autonomous", "-")>> = list
    BY Concatenation
  <2>2. list \in ReentrantLists
    BY DEF ReentrantLists
  <2>3. Doing(list) = "decide"
    BY DEF Doing, Op
  <2> HIDE DEF list
  <2> QED BY <2>1, <2>2, <2>3
<1>2. ASSUME NEW s \in {"BLOCKED", "IDLE"}
      PROVE  LET list == <<Op("stop", s)>> \o Publication
             IN  list \in ReentrantLists /\ Doing(list) = "stop"
  <2> DEFINE list == <<Op("stop", s), Op("report", "-"), Op("drive", "-")>>
  <2>1. <<Op("stop", s)>> \o Publication = list
    BY Concatenation DEF Publication
  <2>2. list \in ReentrantLists
    BY DEF ReentrantLists
  <2>3. Doing(list) = "stop"
    BY DEF Doing, Op
  <2> HIDE DEF list
  <2> QED BY <2>1, <2>2, <2>3
<1>3. LET list == <<Op("route", "-")>> \o Publication
      IN  list \in ReentrantLists /\ Doing(list) = "route"
  <2> DEFINE list == <<Op("route", "-"), Op("report", "-"), Op("drive", "-")>>
  <2>1. <<Op("route", "-")>> \o Publication = list
    BY Concatenation DEF Publication
  <2>2. list \in ReentrantLists
    BY DEF ReentrantLists
  <2>3. Doing(list) = "route"
    BY DEF Doing, Op
  <2> HIDE DEF list
  <2> QED BY <2>1, <2>2, <2>3
<1> QED BY <1>1, <1>2, <1>3

LEMMA LockAndAgeKeeps ==
  ASSUME IInv, process = "running", NEW t \in Reentrant, LockAndAge(t)
  PROVE  IInv'
<1>1. todo[t] # <<>> /\ Doing(todo[t]) = "lockAndAge" /\ todo[t] \in ReentrantLists
  BY AtDoes DEF LockAndAge, IInv, Shapes
<1>2. UNCHANGED <<process, resources, flags, drive>> /\ mux_mutex = NoThread /\ mux_mutex' = t
  BY DEF LockAndAge
<1>3. Typed'
  BY <1>2 DEF IInv, Typed, flags, drive
<1> DEFINE rest == <<Op("decide", fresh)>> \o <<Op("manual", "-"), Op("autonomous", "-")>>
<1>4. rest \in ReentrantLists /\ Doing(rest) = "decide"
  BY LoopLists DEF IInv, Typed
<1>5. Replace(t, rest)
  BY <1>1, ReentrantSuccessors DEF LockAndAge, Follows
<1> HIDE DEF rest
<1>6. Moved(t, rest)
  BY <1>4, <1>5, ReplaceMoves DEF Replace, IInv
<1>7. todo'[Default] = todo[Default]
  BY <1>6, ThreadAssumption DEF Moved, Thread
<1>8. ThreadInv(t)'
  BY <1>1, <1>2, <1>4, <1>6, <1>7 DEF Moved, ThreadInv, IInv, PastTest, drive
<1> QED BY <1>2, <1>3, <1>6, <1>8, StepKeeps DEF resources, drive

LEMMA DecideKeeps ==
  ASSUME IInv, process = "running", NEW t \in Reentrant, Decide(t)
  PROVE  IInv'
<1>1. todo[t] # <<>> /\ Doing(todo[t]) = "decide" /\ todo[t] \in ReentrantLists
  BY AtDoes DEF Decide, IInv, Shapes
<1>2. UNCHANGED <<process, resources, flags, drive, mux_mutex>>
  BY DEF Decide
<1>3. Typed'
  BY <1>2 DEF IInv, Typed, flags, drive
<1>4. mux_mutex = t /\ (current_state = "UCFG" => Doing(todo[Default]) \in Activating)
  BY <1>1 DEF IInv, ThreadInv, Holding, PastTest
<1>5. ASSUME NEW rest \in ReentrantLists, Doing(rest) \in {"stop", "manual"}, Replace(t, rest)
      PROVE  IInv'
  <2>1. Moved(t, rest)
    BY <1>5, ReplaceMoves DEF Replace, IInv
  <2>2. todo'[Default] = todo[Default]
    BY <2>1, ThreadAssumption DEF Moved, Thread
  <2>3. ThreadInv(t)'
    BY <1>2, <1>4, <1>5, <2>1, <2>2 DEF Moved, ThreadInv, drive
  <2> QED BY <1>2, <1>3, <2>1, <2>3, StepKeeps DEF resources, drive
<1>6. CASE is_safety_blocked
  BY <1>5, <1>6, LoopLists DEF Decide
<1>7. CASE ~is_safety_blocked /\ Arg(t)
  BY <1>1, <1>5, <1>7, ReentrantSuccessors DEF Decide, Follows
<1>8. CASE ~is_safety_blocked /\ ~Arg(t)
  BY <1>5, <1>8, LoopLists DEF Decide
<1> QED BY <1>6, <1>7, <1>8

LEMMA TestManualKeeps ==
  ASSUME IInv, process = "running", NEW t \in Reentrant, TestManual(t)
  PROVE  IInv'
<1>1. todo[t] # <<>> /\ Doing(todo[t]) = "manual" /\ todo[t] \in ReentrantLists
  BY AtDoes DEF TestManual, IInv, Shapes
<1>2. UNCHANGED <<process, resources, flags, drive, mux_mutex>>
  BY DEF TestManual
<1>3. Typed'
  BY <1>2 DEF IInv, Typed, flags, drive
<1>4. mux_mutex = t /\ (current_state = "UCFG" => Doing(todo[Default]) \in Activating)
  BY <1>1 DEF IInv, ThreadInv, Holding, PastTest
<1>5. ASSUME NEW rest \in ReentrantLists, Replace(t, rest),
             \/ Doing(rest) = "route" /\ current_state = "MANUAL"
             \/ Doing(rest) = "autonomous" /\ current_state # "MANUAL"
      PROVE  IInv'
  <2>1. Moved(t, rest)
    BY <1>5, ReplaceMoves DEF Replace, IInv
  <2>2. todo'[Default] = todo[Default]
    BY <2>1, ThreadAssumption DEF Moved, Thread
  <2>3. ThreadInv(t)'
    BY <1>2, <1>4, <1>5, <2>1, <2>2 DEF Moved, ThreadInv, drive, PastTest
  <2> QED BY <1>2, <1>3, <2>1, <2>3, StepKeeps DEF resources, drive
<1>6. CASE current_state = "MANUAL"
  BY <1>5, <1>6, LoopLists DEF TestManual
<1>7. CASE current_state # "MANUAL"
  BY <1>1, <1>5, <1>7, ReentrantSuccessors DEF TestManual, Follows
<1> QED BY <1>6, <1>7

(* The throw: the loop has found the state not to be MANUAL, holds the     *)
(* mutex, and only a transition has come in between.                       *)
LEMMA TestAutonomousKeeps ==
  ASSUME IInv, process = "running", NEW t \in Reentrant, TestAutonomous(t)
  PROVE  IInv'
<1>1. Doing(todo[t]) = "autonomous"
  BY AtDoes DEF TestAutonomous
<1>2. UNCHANGED <<resources, flags, drive, mux_mutex>>
  BY DEF TestAutonomous
<1>3. Typed'
  BY <1>2 DEF IInv, Typed, flags, drive
<1>4. /\ mux_mutex = t /\ current_state # "MANUAL"
      /\ current_state = "UCFG" => Doing(todo[Default]) \in Activating
  BY <1>1 DEF IInv, ThreadInv, Holding, PastTest
<1>5. CASE current_state = "AUTONOMOUS"
  <2> DEFINE rest == <<Op("route", "-")>> \o Publication
  <2>1. rest \in ReentrantLists /\ Doing(rest) = "route" /\ Replace(t, rest)
    BY <1>5, LoopLists DEF TestAutonomous
  <2> HIDE DEF rest
  <2>2. Moved(t, rest)
    BY <2>1, ReplaceMoves DEF Replace, IInv
  <2>3. ThreadInv(t)'
    BY <1>2, <1>4, <1>5, <2>1, <2>2 DEF Moved, ThreadInv, drive, PastTest
  <2>4. process' = process
    BY <1>5 DEF TestAutonomous
  <2> QED BY <1>2, <1>3, <2>2, <2>3, <2>4, StepKeeps DEF resources, drive
<1>6. CASE current_state # "AUTONOMOUS"
  <2>1. UNCHANGED todo
    BY <1>6 DEF TestAutonomous
  <2>2. current_state \in {"BLOCKED", "IDLE", "UCFG"}
    BY <1>4, <1>6 DEF IInv, Typed, TwistMuxState
  <2>3. Doing(todo[Default]) \in Activating => todo[Default] # <<>>
    BY DEF Doing, Activating
  <2>4. ThrowCauses'
    BY <1>2, <1>4, <2>1, <2>2, <2>3 DEF ThrowCauses, drive
  <2>5. Shapes' /\ \A u \in Reentrant : ThreadInv(u)'
    BY <1>2, <2>1 DEF IInv, Shapes, ThreadInv, drive
  <2> QED BY <1>2, <1>3, <2>1, <2>4, <2>5 DEF IInv, resources, drive
<1> QED BY <1>5, <1>6

LEMMA SetTargetKeeps ==
  ASSUME IInv, process = "running", NEW t \in Reentrant, SetTarget(t)
  PROVE  IInv'
<1>1. todo[t] # <<>> /\ Doing(todo[t]) \in {"stop", "route"} /\ Head(todo[t]).arg = Arg(t)
  BY AtDoes DEF SetTarget
<1>2. mux_mutex = t /\ (Doing(todo[t]) = "route" => current_state # "BLOCKED")
  BY <1>1 DEF IInv, ThreadInv, Holding
<1>3. /\ Moved(t, Tail(todo[t])) /\ Doing(Tail(todo[t])) = "report"
      /\ Doing(todo[t]) = "stop" => Arg(t) \in {"BLOCKED", "IDLE"}
  BY <1>1, ContinueMoves DEF SetTarget, IInv, Follows
<1>4. UNCHANGED <<process, resources, flags, fresh, mux_mutex>>
  BY DEF SetTarget
<1>5. \/ Doing(todo[t]) = "stop" /\ current_state' = Arg(t) /\ driven' = FALSE
      \/ Doing(todo[t]) = "route" /\ driven' = TRUE /\ UNCHANGED current_state
  BY AtDoes DEF SetTarget
<1>6. Typed'
  BY <1>3, <1>4, <1>5 DEF IInv, Typed, TwistMuxState, flags
<1>7. ThreadInv(t)'
  BY <1>2, <1>3, <1>4, <1>5 DEF Moved, ThreadInv, PastTest
<1>8. current_state' = "UCFG" => current_state = "UCFG"
  BY <1>3, <1>5
<1> QED BY <1>2, <1>3, <1>4, <1>6, <1>7, <1>8, StepKeeps DEF resources

LEMMA PublishKeeps ==
  ASSUME IInv, process = "running", NEW t \in Reentrant, PublishState(t) \/ PublishVelocity(t)
  PROVE  IInv'
<1>1. todo[t] # <<>> /\ Doing(todo[t]) \in {"report", "drive"}
  BY AtDoes DEF PublishState, PublishVelocity
<1>2. mux_mutex = t
  BY <1>1 DEF IInv, ThreadInv, Holding
<1>3. Moved(t, Tail(todo[t])) /\ Doing(Tail(todo[t])) \in {"drive", "nothing"}
  BY <1>1, ContinueMoves DEF PublishState, PublishVelocity, IInv, Follows
<1>4. /\ UNCHANGED <<resources, flags, drive>> /\ process' # "threw"
      /\ PublishState(t) => UNCHANGED mux_mutex
  BY DEF PublishState, PublishVelocity, Dereference
<1>5. Typed'
  BY <1>4 DEF IInv, Typed, flags, drive
<1>6. PublishVelocity(t) => Doing(Tail(todo[t])) = "nothing"
  BY <1>1, AtDoes, ContinueMoves DEF PublishVelocity, IInv, Follows
<1>7. ThreadInv(t)'
  BY <1>2, <1>3, <1>4, <1>6 DEF Moved, ThreadInv, Holding, PastTest
<1> QED BY <1>2, <1>3, <1>4, <1>5, <1>7, StepKeeps DEF resources, drive

-----------------------------------------------------------------------------
(* The other steps *)

LEMMA ServeKeeps ==
  ASSUME IInv, process = "running", NEW t \in Reentrant,
         ServeReport(t) \/ ServeCommand(t) \/ ServeTimer(t)
  PROVE  IInv'
<1>1. UNCHANGED <<process, resources, flags, drive, mux_mutex>>
  BY DEF ServeReport, ServeCommand, ServeTimer, Start
<1>2. Typed'
  BY <1>1 DEF IInv, Typed, flags, drive
<1>3. ASSUME NEW callback \in ReentrantLists, Start(t, callback),
             Doing(callback) \in {"fdir", "estop", "lock", "activated"}
      PROVE  IInv'
  <2>1. Moved(t, callback)
    BY <1>3, ReplaceMoves DEF Start, IInv
  <2>2. ThreadInv(t)'
    BY <1>3, <2>1, Unconcerned DEF Holding, PastTest
  <2> QED BY <1>1, <1>2, <2>1, <2>2, StepKeeps DEF resources, drive
<1>4. ASSUME NEW b \in BOOLEAN
      PROVE  /\ FdirState(b) \in ReentrantLists /\ SafetyState(b) \in ReentrantLists
             /\ Doing(FdirState(b)) = "fdir" /\ Doing(SafetyState(b)) = "estop"
  <2>1. FdirState(b) \in ReentrantLists /\ SafetyState(b) \in ReentrantLists
    BY DEF ReentrantLists
  <2>2. Doing(FdirState(b)) = "fdir"
    BY Lists DEF Doing, Op
  <2>3. Doing(SafetyState(b)) = "estop"
    BY Lists DEF Doing, Op
  <2> QED BY <2>1, <2>2, <2>3
<1>5. /\ Teleop \in ReentrantLists /\ Nav \in ReentrantLists /\ ControlLoop \in ReentrantLists
      /\ Doing(Teleop) = "lock" /\ Doing(Nav) = "lock" /\ Doing(ControlLoop) = "activated"
  <2>1. Teleop \in ReentrantLists /\ Nav \in ReentrantLists /\ ControlLoop \in ReentrantLists
    BY DEF ReentrantLists
  <2>2. Doing(Teleop) = "lock" /\ Doing(Nav) = "lock"
    BY Lists DEF Doing, Op
  <2>3. Doing(ControlLoop) = "activated"
    BY DEF Doing, Op, ControlLoop
  <2> QED BY <2>1, <2>2, <2>3
<1> QED BY <1>3, <1>4, <1>5 DEF ServeReport, ServeCommand, ServeTimer

(* A step of the default thread: it never holds the mutex, and takes the   *)
(* state at most to IDLE.                                                  *)
LEMMA DefaultKeeps ==
  ASSUME IInv, NEW rest, Moved(Default, rest), Typed', process = "running",
         UNCHANGED <<process, flags, driven, mux_mutex>>,
         current_state' \in {current_state, "IDLE"},
         current_state' = "UCFG" =>
           /\ Doing(todo[Default]) \in Activating => Doing(rest) \in Activating
           /\ smooth_pub' = "active" => smooth_pub = "active" \/ Doing(rest) \in Activating
  PROVE  IInv'
<1>1. \A u \in Reentrant : todo'[u] = todo[u]
  BY ThreadAssumption DEF Moved, Thread
<1>2. \A u \in Reentrant : ThreadInv(u)'
  BY <1>1 DEF Moved, IInv, ThreadInv
<1>3. smooth_pub' = "active" => (current_state' = "UCFG" => Doing(todo[Default])' \in Activating)
  BY DEF Moved, IInv
<1> QED BY <1>2, <1>3 DEF IInv, Moved, ThrowCauses

LEMMA ServeTransitionKeeps ==
  ASSUME IInv, process = "running", ServeTransition
  PROVE  IInv'
<1>1. UNCHANGED <<process, resources, flags, drive, mux_mutex>> /\ todo[Default] = <<>>
  BY DEF ServeTransition, Start
<1>2. Typed'
  BY <1>1 DEF IInv, Typed, flags, drive
<1>3. Doing(todo[Default]) \notin Activating
  BY <1>1 DEF Doing, Activating
<1>4. PICK callback \in {OnConfigure, OnActivate, OnDeactivate, OnCleanup} : Start(Default, callback)
  BY DEF ServeTransition
<1>5. callback \in DefaultLists
  BY DEF DefaultLists
<1>6. Moved(Default, callback)
  BY <1>4, <1>5, DefaultMoves DEF Start, IInv
<1> QED BY <1>1, <1>2, <1>3, <1>6, DefaultKeeps DEF resources, drive

LEMMA TransitionKeeps ==
  ASSUME IInv, process = "running",
         WriteResource(Default) \/ StampPast(Default) \/ EnterIdle(Default)
  PROVE  IInv'
<1>1. todo[Default] # <<>> /\ todo[Default] \in DefaultLists
  BY AtDoes DEF WriteResource, StampPast, EnterIdle, IInv, Shapes
<1>2. Tail(todo[Default]) \in DefaultLists
  BY <1>1, DefaultSuccessors
<1>3. Moved(Default, Tail(todo[Default]))
  BY <1>2, DefaultMoves DEF WriteResource, StampPast, EnterIdle, Continue, IInv
<1>4. CASE WriteResource(Default)
  <2>1. UNCHANGED <<process, flags, drive, mux_mutex>>
    BY <1>4 DEF WriteResource
  <2>2. Typed'
    BY <2>1 DEF IInv, Typed, flags, drive
  <2>3. /\ Doing(todo[Default]) \notin Activating
        /\ smooth_pub' = smooth_pub \/ (Doing(todo[Default]) = "smooth"
                                        /\ smooth_pub' = Head(todo[Default]).arg)
    BY <1>4, AtDoes DEF WriteResource, Activating
  <2>4. smooth_pub' = "active" =>
          smooth_pub = "active" \/ Doing(Tail(todo[Default])) \in Activating
    BY <1>1, <2>3, DefaultSuccessors DEF Activating
  <2> QED BY <1>3, <2>1, <2>2, <2>3, <2>4, DefaultKeeps DEF drive
<1>5. CASE StampPast(Default)
  <2>1. UNCHANGED <<process, resources, flags, current_state, driven, mux_mutex>> /\ fresh' = FALSE
    BY <1>5 DEF StampPast
  <2>2. Typed'
    BY <2>1 DEF IInv, Typed, flags
  <2>3. Doing(Tail(todo[Default])) \in Activating
    BY <1>1, <1>5, AtDoes, DefaultSuccessors DEF StampPast, Activating
  <2> QED BY <1>3, <2>1, <2>2, <2>3, DefaultKeeps DEF resources
<1>6. CASE EnterIdle(Default)
  <2>1. /\ UNCHANGED <<process, resources, flags, fresh, driven, mux_mutex>>
        /\ current_state' = "IDLE"
    BY <1>6 DEF EnterIdle
  <2>2. Typed'
    BY <2>1 DEF IInv, Typed, TwistMuxState, flags
  <2> QED BY <1>3, <2>1, <2>2, DefaultKeeps DEF resources
<1> QED BY <1>4, <1>5, <1>6

LEMMA ElapseKeeps ==
  ASSUME IInv, Elapse \/ UNCHANGED vars
  PROVE  IInv'
<1>1. /\ UNCHANGED <<process, smooth_pub, flags, current_state, driven, mux_mutex, todo>>
      /\ fresh' \in {fresh, FALSE}
  BY DEF Elapse, vars, resources, drive
<1>2. Shapes' /\ Typed' /\ ThrowCauses'
  BY <1>1 DEF IInv, Shapes, Typed, ThrowCauses, flags
<1>3. \A u \in Reentrant : ThreadInv(u)'
  BY <1>1 DEF IInv, ThreadInv
<1> QED BY <1>1, <1>2, <1>3 DEF IInv

-----------------------------------------------------------------------------
(* All steps *)

LEMMA ExecuteKeeps ==
  ASSUME IInv, process = "running", NEW t \in Thread, Execute(t)
  PROVE  IInv'
<1>1. CASE t \in Reentrant
  <2>1. ASSUME WriteResource(t) \/ StampPast(t) \/ EnterIdle(t)
        PROVE  FALSE
    <3>1. todo[t] # <<>> /\ Doing(todo[t]) \in {"smooth", "state", "endpoints", "past", "idle"}
      BY <2>1, AtDoes DEF WriteResource, StampPast, EnterIdle
    <3>2. Follows(todo[t], Tail(todo[t]))
      BY <1>1, <3>1, ReentrantSuccessors DEF IInv, Shapes
    <3> QED BY <3>1, <3>2 DEF Follows
  <2> QED
    BY <1>1, <2>1, WriteFlagKeeps, ReadFlagKeeps, AcquireKeeps, RefuseKeeps, CommandKeeps,
       TestActivatedKeeps, LockAndAgeKeeps, DecideKeeps, TestManualKeeps, TestAutonomousKeeps,
       SetTargetKeeps, PublishKeeps
    DEF Execute
<1>2. CASE t = Default
  <2>1. todo[Default] # <<>> =>
          Doing(todo[Default]) \in {"smooth", "state", "endpoints", "past", "idle"}
    BY DefaultSuccessors DEF IInv, Shapes
  <2>2. ~WriteFlag(t) /\ ~ReadFlag(t) /\ ~Acquire(t) /\ ~Refuse(t) /\ ~TakeOver(t) /\ ~Follow(t)
    BY <1>2, <2>1, AtDoes DEF WriteFlag, ReadFlag, Acquire, Refuse, TakeOver, Follow
  <2>3. ~TestActivated(t) /\ ~LockAndAge(t) /\ ~Decide(t) /\ ~TestManual(t) /\ ~TestAutonomous(t)
    BY <1>2, <2>1, AtDoes DEF TestActivated, LockAndAge, Decide, TestManual, TestAutonomous
  <2>4. ~SetTarget(t) /\ ~PublishState(t) /\ ~PublishVelocity(t)
    BY <1>2, <2>1, AtDoes DEF SetTarget, PublishState, PublishVelocity
  <2> QED BY <1>2, <2>2, <2>3, <2>4, TransitionKeeps DEF Execute
<1> QED BY <1>1, <1>2 DEF Thread

LEMMA Invariance == Spec => []IInv
<1>1. Init => IInv
  <2> SUFFICES ASSUME Init PROVE IInv
    OBVIOUS
  <2>1. \A t \in Thread : todo[t] = <<>> /\ Doing(todo[t]) = "nothing"
    BY DEF Init, Doing
  <2>2. <<>> \in ReentrantLists /\ <<>> \in DefaultLists
    BY DEF ReentrantLists, DefaultLists
  <2>3. Shapes
    BY <2>1, <2>2 DEF Shapes, Init, Thread
  <2>4. Typed /\ ThrowCauses
    BY DEF Init, Typed, TwistMuxState, ThrowCauses
  <2>5. \A t \in Reentrant : ThreadInv(t)
    BY <2>1 DEF ThreadInv, Holding, PastTest, Thread
  <2>6. smooth_pub # "active"
    BY DEF Init
  <2> QED BY <2>3, <2>4, <2>5, <2>6 DEF IInv
<1>2. IInv /\ [Next]_vars => IInv'
  BY ServeKeeps, ServeTransitionKeeps, ExecuteKeeps, ElapseKeeps DEF Next
<1> QED BY <1>1, <1>2, PTL DEF Spec

-----------------------------------------------------------------------------
(* The theorems *)

(* With any number of threads: if the loop ends the process, it has found  *)
(* BLOCKED or IDLE, or UCFG while on_activate was under way, and never a   *)
(* state that a command has set.                                           *)
THEOREM ThrowCorrect == Spec => []ThrowCauses
BY Invariance, PTL DEF IInv

(* With any number of threads: no pass of the loop publishes BLOCKED while *)
(* the set-point is a command.                                             *)
THEOREM ReportCorrect == Spec => BlockedReportIsTrue
<1>1. IInv => [\A t \in Reentrant : PublishState(t) /\ current_state = "BLOCKED" => ~driven]_vars
  <2> SUFFICES ASSUME IInv, NEW t \in Reentrant, PublishState(t), current_state = "BLOCKED"
               PROVE  ~driven
    OBVIOUS
  <2>1. Doing(todo[t]) = "report"
    BY AtDoes DEF PublishState
  <2> QED BY <2>1 DEF IInv, ThreadInv
<1> QED BY <1>1, Invariance, PTL DEF BlockedReportIsTrue
=============================================================================
