------------------------ MODULE SafetyThreadsProofs ------------------------
(***************************************************************************)
(* Proofs about SafetyThreads for any number of threads, any levels and    *)
(* any velocities: in one thread the node keeps its four promises.         *)
(***************************************************************************)
EXTENDS SafetyThreads, SequenceTheorems, TLAPS

(* What is left of a callback is a sequence of accesses; here it is taken  *)
(* apart from the left.                                                    *)
Name ==
  {"gate", "allow", "latch", "enter", "stop", "report", "unlatched", "publisher", "compare",
   "believe", "command", "notLatched", "moving", "drive", "stopped", "emergency"}

Access ==
  [op : Name, arg : {"-"}] \cup [op : Name, arg : BOOLEAN] \cup [op : Name, arg : State]
    \cup [op : Name, arg : Velocity]
    \cup [op : Name, arg : [name : Publisher, on : BOOLEAN]]

Lists == Seq(Access)

Then(name, value, rest) == <<Op(name, value)>> \o rest

Gated(rest)          == Then("gate", "-", rest)
Stopping(rest)       == Then("stop", "-", rest)
Unlatched(rest)      == Then("unlatched", "-", rest)
Entering(s, rest)    == Then("enter", s, rest)
Latching(b, rest)    == Then("latch", b, rest)
Commanding(b, rest)  == Then("command", b, rest)
Believing(b, rest)   == Then("believe", b, Commanding(b, rest))
Comparing(b, rest)   == Then("compare", b, Believing(b, rest))
Switching(p, b, rest) == Then("publisher", [name |-> p, on |-> b], rest)

Driving(v) == Then("drive", v, <<>>)
Moving(v)  == Then("moving", v, Driving(v))
Vetting(v) == Then("notLatched", v, Moving(v))

Powering      == Comparing(TRUE, <<>>)
Cutting(rest) == Comparing(FALSE, rest)
Tripping(rest) == Entering("EMERGENCY", rest)

Rising1 == Switching("contactors", TRUE, Cutting(<<>>))
Rising2 == Switching("state", TRUE, Rising1)
Rising3 == Switching("motor", TRUE, Rising2)

Retiring1 == Switching("contactors", FALSE, <<>>)
Retiring2 == Switching("state", FALSE, Retiring1)
Retiring3 == Switching("motor", FALSE, Retiring2)

Reset1 == Latching(FALSE, Comparing(TRUE, Report))
Reset2 == Entering("NORMAL", Reset1)

Ends == {<<>>, Report}

-----------------------------------------------------------------------------
(* The proof outline: what holds of the node with this left to do. *)

(* What holds between two callbacks. *)
Settled ==
  /\ publishing = IF is_processing_allowed THEN Publisher ELSE {}
  /\ e_stop_active => ~contactors /\ motor = 0
  /\ ~is_processing_allowed => ~contactors
  /\ contactors => hardware_contactors_closed
  /\ current_state = "PROTECTIVE_STOP" => motor = 0

MotorAtRest ==
  /\ e_stop_active => motor = 0
  /\ current_state = "PROTECTIVE_STOP" => motor = 0

(* Left to do where it suffices that the node is settled, *)
Quiet ==
  {<<>>, Report, Unlatched(Powering), Unlatched(Entering("NORMAL", Powering)),
   Entering("DEGRADED", Unlatched(Powering)),
   Then("emergency", "-", Reset2), Reset2, Reset1}

(* and that it has passed the gate. *)
Admitted ==
  {Vetting(v) : v \in Velocity}
    \cup {Entering(s, Stopping(Unlatched(Powering))) : s \in {"PROTECTIVE_STOP", "DEGRADED"}}
    \cup {Latching(TRUE, Tripping(Stopping(Cutting(end)))) : end \in Ends}
    \cup {Stopping(<<>>), Entering("PROTECTIVE_STOP", Stopping(Cutting(<<>>))),
          Then("stopped", "-", Latching(TRUE, Tripping(Cutting(Report))))}

Resting(list) ==
  \/ list \in Quiet /\ Settled
  \/ /\ \E rest \in Quiet \cup Admitted \cup {Cutting(<<>>)} : list = Gated(rest)
     /\ Settled

Working(list) ==
  /\ is_processing_allowed
  /\ \/ list \in Admitted /\ Settled
     \/ \E v \in Velocity : list = Moving(v) /\ Settled /\ ~e_stop_active
     \/ /\ \E v \in Velocity : list = Driving(v)
        /\ Settled /\ ~e_stop_active /\ current_state \notin {"PROTECTIVE_STOP", "EMERGENCY"}

(* Between the write of the latch and the command that opens. *)
Opening(list) ==
  /\ is_processing_allowed /\ publishing = Publisher
  /\ \/ list = Latching(TRUE, Tripping(Cutting(Report))) /\ Settled /\ motor = 0
     \/ /\ list = Tripping(Cutting(Report))
        /\ contactors => hardware_contactors_closed
        /\ motor = 0
     \/ /\ \E end \in Ends :
             list \in {Tripping(Stopping(Cutting(end))), Stopping(Cutting(end))}
        /\ contactors => hardware_contactors_closed
     \/ /\ \E end \in Ends : list \in {Cutting(end), Believing(FALSE, end)}
        /\ contactors => hardware_contactors_closed
        /\ MotorAtRest
     \/ \E end \in Ends : list = Commanding(FALSE, end) /\ MotorAtRest

(* Before the command that closes. *)
Closing(list) ==
  \/ /\ list = Stopping(Unlatched(Powering))
     /\ is_processing_allowed /\ publishing = Publisher
     /\ contactors => hardware_contactors_closed
     /\ e_stop_active => ~contactors
  \/ /\ \/ list = Entering("NORMAL", Powering)
        \/ \E end \in Ends : list \in {Comparing(TRUE, end), Believing(TRUE, end)}
        \/ \E end \in Ends : list = Commanding(TRUE, end) /\ hardware_contactors_closed
     /\ Settled /\ ~e_stop_active

Activating(list) ==
  \/ list = Then("allow", TRUE, Rising3) /\ Settled /\ ~is_processing_allowed
  \/ /\ is_processing_allowed /\ ~contactors /\ MotorAtRest
     /\ \/ list = Rising3 /\ publishing = {}
        \/ list = Rising2 /\ publishing = {"motor"}
        \/ list = Rising1 /\ publishing = {"motor", "state"}

Deactivating(list) ==
  \/ list = Then("allow", FALSE, Cutting(Retiring3)) /\ Settled /\ is_processing_allowed
  \/ /\ ~is_processing_allowed /\ MotorAtRest
     /\ \/ /\ list \in {Cutting(Retiring3), Believing(FALSE, Retiring3)}
           /\ publishing = Publisher
           /\ contactors => hardware_contactors_closed
        \/ list = Commanding(FALSE, Retiring3) /\ publishing = Publisher
        \/ list = Retiring3 /\ publishing = Publisher /\ ~contactors
        \/ list = Retiring2 /\ publishing = {"state", "contactors"} /\ ~contactors
        \/ list = Retiring1 /\ publishing = {"contactors"} /\ ~contactors

Outline(list) ==
  \/ Resting(list) \/ Working(list) \/ Opening(list) \/ Closing(list)
  \/ Activating(list) \/ Deactivating(list)

Booleans ==
  /\ is_processing_allowed \in BOOLEAN /\ e_stop_active \in BOOLEAN
  /\ hardware_contactors_closed \in BOOLEAN /\ contactors \in BOOLEAN

(* One thread at most has something left to do. *)
OneThreadInv ==
  /\ todo \in [Thread -> Lists]
  /\ Booleans
  /\ \E t \in Thread : Outline(todo[t]) /\ \A u \in Thread \ {t} : todo[u] = <<>>

Inv == executor = "single" => OneThreadInv

-----------------------------------------------------------------------------
(* Sequences *)

(* Concatenation, for reasoning from its laws alone. *)
a ++ b == a \o b

LEMMA Accesses ==
  /\ \A name \in Name : Op(name, "-") \in Access
  /\ \A b \in BOOLEAN : /\ Op("compare", b) \in Access /\ Op("believe", b) \in Access
                        /\ Op("command", b) \in Access /\ Op("latch", b) \in Access
                        /\ Op("allow", b) \in Access
  /\ \A s \in State : Op("enter", s) \in Access
  /\ \A v \in Velocity : /\ Op("notLatched", v) \in Access /\ Op("moving", v) \in Access
                         /\ Op("drive", v) \in Access
  /\ \A p \in Publisher, b \in BOOLEAN :
       Op("publisher", [name |-> p, on |-> b]) \in Access
<1>1. \A name \in Name : Op(name, "-") \in [op : Name, arg : {"-"}]
  BY DEF Op
<1>2. \A name \in Name, b \in BOOLEAN : Op(name, b) \in [op : Name, arg : BOOLEAN]
  BY DEF Op
<1>3. \A name \in Name, s \in State : Op(name, s) \in [op : Name, arg : State]
  BY DEF Op
<1>4. \A name \in Name, v \in Velocity : Op(name, v) \in [op : Name, arg : Velocity]
  BY DEF Op
<1>5. \A name \in Name, p \in Publisher, b \in BOOLEAN :
        Op(name, [name |-> p, on |-> b]) \in [op : Name, arg : [name : Publisher, on : BOOLEAN]]
  BY DEF Op
<1>6. /\ \A name \in Name : Op(name, "-") \in Access
      /\ \A name \in Name, b \in BOOLEAN : Op(name, b) \in Access
  BY <1>1, <1>2 DEF Access
<1>7. /\ \A name \in Name, s \in State : Op(name, s) \in Access
      /\ \A name \in Name, v \in Velocity : Op(name, v) \in Access
  BY <1>3, <1>4 DEF Access
<1>8. \A name \in Name, p \in Publisher, b \in BOOLEAN :
        Op(name, [name |-> p, on |-> b]) \in Access
  BY <1>5 DEF Access
<1>9. \A b \in BOOLEAN : /\ Op("compare", b) \in Access /\ Op("believe", b) \in Access
                         /\ Op("command", b) \in Access /\ Op("latch", b) \in Access
                         /\ Op("allow", b) \in Access
  BY <1>6 DEF Name
<1> QED BY <1>6, <1>7, <1>8, <1>9 DEF Name

LEMMA ThenTakenApart ==
  ASSUME NEW name, NEW value, NEW rest \in Lists, Op(name, value) \in Access
  PROVE  /\ Then(name, value, rest) \in Lists
         /\ Then(name, value, rest) # <<>>
         /\ Head(Then(name, value, rest)).op = name
         /\ Head(Then(name, value, rest)).arg = value
         /\ Tail(Then(name, value, rest)) = rest
<1>1. Op(name, value).op = name /\ Op(name, value).arg = value
  BY DEF Op
<1>2. Head(<<Op(name, value)>> \o rest) = Op(name, value) /\ Tail(<<Op(name, value)>> \o rest) = rest
  BY DEF Lists
<1>3. <<Op(name, value)>> \o rest \in Lists /\ <<Op(name, value)>> \o rest # <<>>
  BY DEF Lists
<1> QED BY <1>1, <1>2, <1>3 DEF Then

LEMMA ThenLonger ==
  ASSUME NEW name, NEW value, NEW rest \in Lists, Op(name, value) \in Access
  PROVE  /\ Len(Then(name, value, rest)) = Len(rest) + 1
         /\ \A i \in 1..Len(rest) : Then(name, value, rest)[i + 1] = rest[i]
BY ConcatProperties DEF Then, Lists

LEMMA ThenAppended ==
  ASSUME NEW name, NEW value, NEW rest \in Lists, NEW more \in Lists,
         Op(name, value) \in Access
  PROVE  Then(name, value, rest) ++ more = Then(name, value, rest ++ more)
<1>1. <<Op(name, value)>> \in Lists
  BY DEF Lists
<1> QED BY <1>1, ConcatAssociative DEF Then, Lists, ++

LEMMA ComparingTyped ==
  ASSUME NEW b \in BOOLEAN, NEW rest \in Lists
  PROVE  /\ Commanding(b, rest) \in Lists /\ Believing(b, rest) \in Lists
         /\ Comparing(b, rest) \in Lists
<1>1. /\ Op("command", b) \in Access /\ Op("believe", b) \in Access
      /\ Op("compare", b) \in Access
  BY Accesses
<1>2. Commanding(b, rest) \in Lists
  BY <1>1, ThenTakenApart DEF Commanding
<1>3. Believing(b, rest) \in Lists
  BY <1>1, <1>2, ThenTakenApart DEF Believing
<1>4. Comparing(b, rest) \in Lists
  BY <1>1, <1>3, ThenTakenApart DEF Comparing
<1> QED BY <1>2, <1>3, <1>4

(* set_hardware_contactors, skipped when the belief has the value already. *)
LEMMA ComparingSkipped ==
  ASSUME NEW b \in BOOLEAN, NEW rest \in Lists
  PROVE  SubSeq(Comparing(b, rest), 4, Len(Comparing(b, rest))) = rest
<1> DEFINE s == Comparing(b, rest)
<1>1. /\ Commanding(b, rest) \in Lists /\ Believing(b, rest) \in Lists /\ s \in Lists
      /\ Op("command", b) \in Access /\ Op("believe", b) \in Access
      /\ Op("compare", b) \in Access
  BY ComparingTyped, Accesses
<1>2. /\ Len(Commanding(b, rest)) = Len(rest) + 1
      /\ \A i \in 1..Len(rest) : Commanding(b, rest)[i + 1] = rest[i]
  BY <1>1, ThenLonger DEF Commanding
<1>3. /\ Len(Believing(b, rest)) = Len(Commanding(b, rest)) + 1
      /\ \A i \in 1..Len(Commanding(b, rest)) :
           Believing(b, rest)[i + 1] = Commanding(b, rest)[i]
  BY <1>1, ThenLonger DEF Believing
<1>4. /\ Len(s) = Len(Believing(b, rest)) + 1
      /\ \A i \in 1..Len(Believing(b, rest)) : s[i + 1] = Believing(b, rest)[i]
  BY <1>1, ThenLonger DEF Comparing
<1> HIDE DEF s
<1>5. Len(rest) \in Nat
  BY DEF Lists
<1>6. Len(s) = Len(rest) + 3
  BY <1>2, <1>3, <1>4, <1>5
<1>7. \A i \in 1..Len(rest) : s[i + 3] = rest[i]
  <2>1. TAKE i \in 1..Len(rest)
  <2>2. s[(i + 2) + 1] = Believing(b, rest)[i + 2]
    BY <1>2, <1>3, <1>4, <1>5
  <2>3. Believing(b, rest)[(i + 1) + 1] = Commanding(b, rest)[i + 1]
    BY <1>2, <1>3, <1>5
  <2> QED BY <1>2, <1>5, <2>2, <2>3
<1>8. \A i \in 4..Len(s) : s[i] \in Access
  BY <1>1, <1>5, <1>6, ElementOfSeq DEF Lists
<1>9. /\ SubSeq(s, 4, Len(s)) \in Lists /\ Len(SubSeq(s, 4, Len(s))) = Len(rest)
      /\ \A i \in 1..Len(rest) : SubSeq(s, 4, Len(s))[i] = s[4 + i - 1]
  BY <1>5, <1>6, <1>8, SubSeqProperties DEF Lists
<1>10. \A i \in 1..Len(rest) : SubSeq(s, 4, Len(s))[i] = rest[i]
  BY <1>5, <1>7, <1>9
<1>11. SubSeq(s, 4, Len(s)) = rest
  BY <1>9, <1>10, SeqEqual DEF Lists
<1> QED BY <1>11 DEF s

LEMMA Triple ==
  ASSUME NEW x \in Access, NEW y \in Access, NEW z \in Access
  PROVE  <<x, y, z>> = <<x>> \o (<<y>> \o (<<z>> \o <<>>))
<1> DEFINE s == <<x>> \o (<<y>> \o (<<z>> \o <<>>))
<1>1. <<x, y, z>> \in Seq(Access) /\ s \in Seq(Access) /\ Len(s) = 3
  OBVIOUS
<1>2. s[1] = x /\ s[2] = y /\ s[3] = z
  OBVIOUS
<1> HIDE DEF s
<1>3. Len(<<x, y, z>>) = 3 /\ \A i \in 1..3 : <<x, y, z>>[i] = s[i]
  BY <1>2
<1> QED BY <1>1, <1>3, SeqEqual

LEMMA SetContactorsIs ==
  ASSUME NEW b \in BOOLEAN
  PROVE  SetContactors(b) = Comparing(b, <<>>)
<1>1. Op("compare", b) \in Access /\ Op("believe", b) \in Access /\ Op("command", b) \in Access
  BY Accesses
<1> QED BY <1>1, Triple DEF SetContactors, Comparing, Believing, Commanding, Then

(* The parts of the outline are lists. *)
LEMMA ListTypes ==
  ASSUME NEW rest \in Lists
  PROVE  /\ Gated(rest) \in Lists /\ Stopping(rest) \in Lists /\ Unlatched(rest) \in Lists
         /\ Then("emergency", "-", rest) \in Lists /\ Then("stopped", "-", rest) \in Lists
         /\ \A s \in State : Entering(s, rest) \in Lists
         /\ \A b \in BOOLEAN :
              /\ Latching(b, rest) \in Lists /\ Then("allow", b, rest) \in Lists
              /\ Commanding(b, rest) \in Lists /\ Believing(b, rest) \in Lists
              /\ Comparing(b, rest) \in Lists
              /\ \A p \in Publisher : Switching(p, b, rest) \in Lists
BY ThenTakenApart, Accesses, ComparingTyped
   DEF Gated, Stopping, Unlatched, Entering, Latching, Switching, Name

LEMMA EndTypes ==
  /\ <<>> \in Lists /\ Report \in Lists /\ Report = Then("report", "-", <<>>)
  /\ Stop = Stopping(<<>>) /\ \A end \in Ends : end \in Lists
<1>1. Op("report", "-") \in Access /\ Op("stop", "-") \in Access
  BY Accesses DEF Name
<1>2. Report = Then("report", "-", <<>>) /\ Stop = Stopping(<<>>)
  BY <1>1, ConcatEmptySeq DEF Report, Stop, Then, Stopping
<1>3. <<>> \in Lists
  BY DEF Lists
<1>4. Report \in Lists
  BY <1>1, <1>2, <1>3, ThenTakenApart
<1> QED BY <1>2, <1>3, <1>4 DEF Ends

LEMMA VelocityTypes ==
  \A v \in Velocity : Driving(v) \in Lists /\ Moving(v) \in Lists /\ Vetting(v) \in Lists
<1>1. TAKE v \in Velocity
<1>2. Driving(v) \in Lists
  BY Accesses, EndTypes, ThenTakenApart DEF Driving
<1>3. Moving(v) \in Lists
  BY <1>2, Accesses, ThenTakenApart DEF Moving
<1>4. Vetting(v) \in Lists
  BY <1>3, Accesses, ThenTakenApart DEF Vetting
<1> QED BY <1>2, <1>3, <1>4

LEMMA PartTypes ==
  /\ Powering \in Lists /\ Entering("NORMAL", Powering) \in Lists
  /\ Unlatched(Powering) \in Lists /\ Stopping(Unlatched(Powering)) \in Lists
  /\ Unlatched(Entering("NORMAL", Powering)) \in Lists
  /\ Reset1 \in Lists /\ Reset2 \in Lists
  /\ \A end \in Ends : /\ Cutting(end) \in Lists /\ Stopping(Cutting(end)) \in Lists
                       /\ Tripping(Cutting(end)) \in Lists
                       /\ Tripping(Stopping(Cutting(end))) \in Lists
                       /\ Latching(TRUE, Tripping(Cutting(end))) \in Lists
                       /\ Latching(TRUE, Tripping(Stopping(Cutting(end)))) \in Lists
  /\ Rising1 \in Lists /\ Rising2 \in Lists /\ Rising3 \in Lists
  /\ Retiring1 \in Lists /\ Retiring2 \in Lists /\ Retiring3 \in Lists
  /\ Cutting(Retiring3) \in Lists
<1>1. /\ Powering \in Lists /\ \A end \in Ends : Cutting(end) \in Lists
      /\ Comparing(TRUE, Report) \in Lists /\ <<>> \in Ends
  BY EndTypes, ListTypes DEF Powering, Cutting, Ends
<1>2. /\ Unlatched(Powering) \in Lists /\ Entering("NORMAL", Powering) \in Lists
      /\ \A end \in Ends : Stopping(Cutting(end)) \in Lists /\ Tripping(Cutting(end)) \in Lists
      /\ Reset1 \in Lists
  BY <1>1, ListTypes DEF Tripping, Reset1, State
<1>3. /\ Stopping(Unlatched(Powering)) \in Lists /\ Reset2 \in Lists
      /\ Unlatched(Entering("NORMAL", Powering)) \in Lists
      /\ \A end \in Ends : /\ Tripping(Stopping(Cutting(end))) \in Lists
                           /\ Latching(TRUE, Tripping(Cutting(end))) \in Lists
  BY <1>2, ListTypes DEF Tripping, Reset2, State
<1>4. \A end \in Ends : Latching(TRUE, Tripping(Stopping(Cutting(end)))) \in Lists
  BY <1>3, ListTypes
<1>5. Rising1 \in Lists /\ Retiring1 \in Lists
  BY <1>1, EndTypes, ListTypes DEF Rising1, Retiring1, Publisher
<1>6. Rising2 \in Lists /\ Retiring2 \in Lists
  BY <1>5, ListTypes DEF Rising2, Retiring2, Publisher
<1>7. Rising3 \in Lists /\ Retiring3 \in Lists
  BY <1>6, ListTypes DEF Rising3, Retiring3, Publisher
<1>8. Cutting(Retiring3) \in Lists
  BY <1>7, ListTypes DEF Cutting
<1> QED BY <1>1, <1>2, <1>3, <1>4, <1>5, <1>6, <1>7, <1>8

LEMMA OutlineTypes == Quiet \subseteq Lists /\ Admitted \subseteq Lists
<1>1. Quiet \subseteq Lists
  <2>1. Entering("DEGRADED", Unlatched(Powering)) \in Lists
    BY PartTypes, ListTypes DEF State
  <2>2. Then("emergency", "-", Reset2) \in Lists
    BY PartTypes, ListTypes
  <2> QED BY <2>1, <2>2, PartTypes, EndTypes DEF Quiet
<1>2. Admitted \subseteq Lists
  <2>1. \A s \in {"PROTECTIVE_STOP", "DEGRADED"} :
          Entering(s, Stopping(Unlatched(Powering))) \in Lists
    BY PartTypes, ListTypes DEF State
  <2>2. <<>> \in Ends /\ Report \in Ends
    BY DEF Ends
  <2>3. Stopping(<<>>) \in Lists
    BY EndTypes, ListTypes
  <2>4. Entering("PROTECTIVE_STOP", Stopping(Cutting(<<>>))) \in Lists
    BY <2>2, PartTypes, ListTypes DEF State
  <2>5. Then("stopped", "-", Latching(TRUE, Tripping(Cutting(Report)))) \in Lists
    BY <2>2, PartTypes, ListTypes
  <2> QED BY <2>1, <2>3, <2>4, <2>5, VelocityTypes, PartTypes DEF Admitted
<1> QED BY <1>1, <1>2

(* What an access does. *)
LEMMA Effects ==
  ASSUME NEW t \in Thread, todo \in [Thread -> Lists], Execute(t),
         NEW name, NEW value, NEW rest \in Lists, Op(name, value) \in Access,
         todo[t] = Then(name, value, rest)
  PROVE  /\ name = "gate" =>
              /\ todo' = [todo EXCEPT ![t] = IF is_processing_allowed THEN rest ELSE <<>>]
              /\ UNCHANGED <<memory, output>>
         /\ name = "unlatched" =>
              /\ todo' = [todo EXCEPT ![t] = IF ~e_stop_active THEN rest ELSE <<>>]
              /\ UNCHANGED <<memory, output>>
         /\ name = "stopped" =>
              /\ todo' = [todo EXCEPT ![t] =
                            IF current_state = "PROTECTIVE_STOP" THEN rest ELSE <<>>]
              /\ UNCHANGED <<memory, output>>
         /\ name = "emergency" =>
              /\ todo' = [todo EXCEPT ![t] =
                            IF current_state = "EMERGENCY" \/ e_stop_active THEN rest ELSE <<>>]
              /\ UNCHANGED <<memory, output>>
         /\ name = "notLatched" =>
              /\ todo' = [todo EXCEPT ![t] = IF e_stop_active THEN Stop ELSE rest]
              /\ UNCHANGED <<memory, output>>
         /\ name = "moving" =>
              /\ todo' = [todo EXCEPT ![t] =
                            IF current_state \in {"PROTECTIVE_STOP", "EMERGENCY"} THEN Stop
                            ELSE rest]
              /\ UNCHANGED <<memory, output>>
         /\ name = "allow" =>
              /\ todo' = [todo EXCEPT ![t] = rest]
              /\ is_processing_allowed' = value
              /\ UNCHANGED <<publishing, e_stop_active, current_state,
                             hardware_contactors_closed, output>>
         /\ name = "publisher" =>
              /\ todo' = [todo EXCEPT ![t] = rest]
              /\ publishing' = IF value.on THEN publishing \cup {value.name}
                                           ELSE publishing \ {value.name}
              /\ UNCHANGED <<is_processing_allowed, e_stop_active, current_state,
                             hardware_contactors_closed, output>>
         /\ name = "latch" =>
              /\ todo' = [todo EXCEPT ![t] = rest]
              /\ e_stop_active' = value
              /\ UNCHANGED <<is_processing_allowed, publishing, current_state,
                             hardware_contactors_closed, output>>
         /\ name = "enter" =>
              /\ todo' = [todo EXCEPT ![t] = rest]
              /\ current_state' = value
              /\ UNCHANGED <<is_processing_allowed, publishing, e_stop_active,
                             hardware_contactors_closed, output>>
         /\ name = "compare" =>
              /\ todo' = [todo EXCEPT ![t] =
                            IF hardware_contactors_closed = value
                            THEN SubSeq(todo[t], 4, Len(todo[t])) ELSE rest]
              /\ UNCHANGED <<memory, output>>
         /\ name = "believe" =>
              /\ todo' = [todo EXCEPT ![t] = rest]
              /\ hardware_contactors_closed' = value
              /\ UNCHANGED <<is_processing_allowed, publishing, e_stop_active, current_state,
                             output>>
         /\ name = "command" =>
              /\ todo' = [todo EXCEPT ![t] = rest]
              /\ contactors' = IF "contactors" \in publishing THEN value ELSE contactors
              /\ UNCHANGED <<memory, motor, safety_state>>
         /\ name = "drive" =>
              /\ todo' = [todo EXCEPT ![t] = rest]
              /\ motor' \in {motor, value}
              /\ UNCHANGED <<memory, contactors, safety_state>>
         /\ name = "stop" =>
              /\ todo' = [todo EXCEPT ![t] = rest]
              /\ motor' = IF "motor" \in publishing THEN 0 ELSE motor
              /\ UNCHANGED <<memory, contactors, safety_state>>
         /\ name = "report" =>
              /\ todo' = [todo EXCEPT ![t] = rest]
              /\ UNCHANGED <<memory, contactors, motor>>
<1>1. /\ todo[t] # <<>> /\ Head(todo[t]).op = name /\ Arg(t) = value /\ Tail(todo[t]) = rest
  BY ThenTakenApart DEF Arg
<1>2. \A other : At(t, other) <=> other = name
  BY <1>1 DEF At
<1>3. Continue(t) <=> todo' = [todo EXCEPT ![t] = rest]
  BY <1>1 DEF Continue
<1>4. CASE ReadGate(t) \/ ReadLatch(t) \/ ReadStopped(t) \/ ReadEmergency(t)
  BY <1>1, <1>2, <1>4 DEF ReadGate, ReadLatch, ReadStopped, ReadEmergency, Guard, Replace
<1>5. CASE VetoLatch(t) \/ VetoState(t)
  BY <1>1, <1>2, <1>5 DEF VetoLatch, VetoState, Veto, Replace
<1>6. CASE WriteAllowed(t) \/ WriteLatch(t) \/ WriteState(t) \/ WriteBelief(t)
  BY <1>1, <1>2, <1>3, <1>6 DEF WriteAllowed, WriteLatch, WriteState, WriteBelief
<1>7. CASE SwitchPublisher(t)
  BY <1>1, <1>2, <1>3, <1>7 DEF SwitchPublisher
<1>8. CASE CompareBelief(t)
  BY <1>1, <1>2, <1>8 DEF CompareBelief, Replace
<1>9. CASE CommandContactors(t) \/ CommandMotor(t) \/ ReportState(t)
  BY <1>1, <1>2, <1>3, <1>9 DEF CommandContactors, CommandMotor, ReportState
<1> QED BY <1>4, <1>5, <1>6, <1>7, <1>8, <1>9 DEF Execute

-----------------------------------------------------------------------------
(* The steps of the one thread *)

(* A step follows the outline, and closes the contactors only unlatched. *)
Advances(t) ==
  /\ \E next \in Lists : todo' = [todo EXCEPT ![t] = next] /\ Outline(next)'
  /\ Booleans'
  /\ ~contactors /\ contactors' => ~e_stop_active

LEMMA UnchangedSettled ==
  ASSUME UNCHANGED <<memory, contactors, motor>>
  PROVE  /\ (Settled' <=> Settled) /\ (MotorAtRest' <=> MotorAtRest)
         /\ (Booleans' <=> Booleans)
BY DEF memory, Settled, MotorAtRest, Booleans

LEMMA RestingAdvances ==
  ASSUME NEW t \in Thread, todo \in [Thread -> Lists], Booleans, Execute(t), Resting(todo[t])
  PROVE  Advances(t)
<1> USE OutlineTypes, PartTypes, EndTypes
<1>0. <<>> \in Quiet /\ Report \in Quiet /\ Op("report", "-") \in Access
      /\ Op("gate", "-") \in Access /\ Op("unlatched", "-") \in Access
      /\ Op("emergency", "-") \in Access
  BY Accesses DEF Quiet, Name
<1>1. CASE Settled /\ \E rest \in Quiet \cup Admitted \cup {Cutting(<<>>)} : todo[t] = Gated(rest)
  <2>1. PICK rest \in Quiet \cup Admitted \cup {Cutting(<<>>)} : todo[t] = Gated(rest)
    BY <1>1
  <2>2. rest \in Lists
    BY DEF Ends
  <2>3. /\ todo' = [todo EXCEPT ![t] = IF is_processing_allowed THEN rest ELSE <<>>]
        /\ UNCHANGED <<memory, output>>
    BY <1>0, <2>1, <2>2, Effects DEF Gated
  <2>4. Settled' /\ Booleans' /\ UNCHANGED is_processing_allowed /\ UNCHANGED contactors
    BY <1>1, <2>3, UnchangedSettled DEF output, memory
  <2>5. CASE ~is_processing_allowed
    <3>1. Outline(<<>>)'
      BY <1>0, <2>4 DEF Outline, Resting
    <3> QED BY <2>3, <2>4, <2>5, <3>1 DEF Advances
  <2>6. CASE is_processing_allowed /\ rest \in Quiet
    <3>1. Outline(rest)'
      BY <2>4, <2>6 DEF Outline, Resting
    <3> QED BY <2>2, <2>3, <2>4, <2>6, <3>1 DEF Advances
  <2>7. CASE is_processing_allowed /\ rest \in Admitted
    <3>1. Outline(rest)'
      BY <2>4, <2>7 DEF Outline, Working
    <3> QED BY <2>2, <2>3, <2>4, <2>7, <3>1 DEF Advances
  <2>8. CASE is_processing_allowed /\ rest = Cutting(<<>>)
    <3>1. Outline(rest)'
      BY <2>4, <2>8 DEF Outline, Opening, Settled, MotorAtRest, Ends
    <3> QED BY <2>2, <2>3, <2>4, <2>8, <3>1 DEF Advances
  <2> QED BY <2>5, <2>6, <2>7, <2>8
<1>2. CASE Settled /\ todo[t] = Report
  <2>1. todo' = [todo EXCEPT ![t] = <<>>] /\ UNCHANGED <<memory, contactors, motor>>
    BY <1>0, <1>2, Effects
  <2>2. Outline(<<>>)' /\ Booleans'
    BY <1>0, <1>2, <2>1, UnchangedSettled DEF Outline, Resting
  <2> QED BY <2>1, <2>2 DEF Advances
<1>3. CASE Settled /\ todo[t] \in {Unlatched(Powering), Unlatched(Entering("NORMAL", Powering))}
  <2>1. PICK rest \in {Powering, Entering("NORMAL", Powering)} : todo[t] = Unlatched(rest)
    BY <1>3
  <2>2. /\ todo' = [todo EXCEPT ![t] = IF ~e_stop_active THEN rest ELSE <<>>]
        /\ UNCHANGED <<memory, output>>
    BY <1>0, <2>1, Effects DEF Unlatched
  <2>3. Settled' /\ Booleans' /\ UNCHANGED e_stop_active /\ UNCHANGED contactors
    BY <1>3, <2>2, UnchangedSettled DEF output, memory
  <2>4. CASE e_stop_active
    <3>1. Outline(<<>>)'
      BY <1>0, <2>3 DEF Outline, Resting
    <3> QED BY <2>2, <2>3, <2>4, <3>1 DEF Advances
  <2>5. CASE ~e_stop_active
    <3>1. Outline(rest)'
      BY <2>1, <2>3, <2>5 DEF Outline, Closing, Ends, Powering
    <3> QED BY <2>1, <2>2, <2>3, <2>5, <3>1 DEF Advances
  <2> QED BY <2>4, <2>5
<1>4. CASE Settled /\ todo[t] = Entering("DEGRADED", Unlatched(Powering))
  <2>1. /\ todo' = [todo EXCEPT ![t] = Unlatched(Powering)]
        /\ current_state' = "DEGRADED"
        /\ UNCHANGED <<is_processing_allowed, publishing, e_stop_active,
                       hardware_contactors_closed, output>>
    BY <1>4, Effects, Accesses DEF Entering, State
  <2>2. Settled' /\ Booleans' /\ UNCHANGED contactors
    BY <1>4, <2>1 DEF Settled, Booleans, output
  <2>3. Outline(Unlatched(Powering))'
    BY <2>2 DEF Outline, Resting, Quiet
  <2> QED BY <2>1, <2>2, <2>3 DEF Advances
<1>5. CASE Settled /\ todo[t] = Then("emergency", "-", Reset2)
  <2>1. PICK next \in {Reset2, <<>>} :
          todo' = [todo EXCEPT ![t] = next] /\ UNCHANGED <<memory, output>>
    BY <1>0, <1>5, Effects
  <2>2. Settled' /\ Booleans' /\ UNCHANGED contactors
    BY <1>5, <2>1, UnchangedSettled DEF output
  <2>3. Outline(next)'
    BY <2>1, <2>2 DEF Outline, Resting, Quiet
  <2> QED BY <2>1, <2>2, <2>3 DEF Advances
<1>6. CASE Settled /\ todo[t] = Reset2
  <2>1. /\ todo' = [todo EXCEPT ![t] = Reset1]
        /\ current_state' = "NORMAL"
        /\ UNCHANGED <<is_processing_allowed, publishing, e_stop_active,
                       hardware_contactors_closed, output>>
    BY <1>6, Effects, Accesses DEF Reset2, Entering, State
  <2>2. Settled' /\ Booleans' /\ UNCHANGED contactors
    BY <1>6, <2>1 DEF Settled, Booleans, output
  <2>3. Outline(Reset1)'
    BY <2>2 DEF Outline, Resting, Quiet
  <2> QED BY <2>1, <2>2, <2>3 DEF Advances
<1>7. CASE Settled /\ todo[t] = Reset1
  <2>0. Comparing(TRUE, Report) \in Lists
    BY ListTypes
  <2>1. /\ todo' = [todo EXCEPT ![t] = Comparing(TRUE, Report)]
        /\ e_stop_active' = FALSE
        /\ UNCHANGED <<is_processing_allowed, publishing, current_state,
                       hardware_contactors_closed, output>>
    BY <1>7, <2>0, Effects, Accesses DEF Reset1, Latching
  <2>2. Settled' /\ Booleans' /\ UNCHANGED contactors
    BY <1>7, <2>1 DEF Settled, Booleans, output
  <2>3. Outline(Comparing(TRUE, Report))'
    BY <2>1, <2>2 DEF Outline, Closing, Ends
  <2> QED BY <2>0, <2>1, <2>2, <2>3 DEF Advances
<1>8. todo[t] # <<>>
  BY DEF Execute, ReadGate, ReadLatch, ReadStopped, ReadEmergency, Guard, VetoLatch, VetoState,
         Veto, WriteAllowed, SwitchPublisher, WriteLatch, WriteState, CompareBelief, WriteBelief,
         CommandContactors, CommandMotor, ReportState, At
<1> QED BY <1>1, <1>2, <1>3, <1>4, <1>5, <1>6, <1>7, <1>8 DEF Resting, Quiet

(* stop on an active publisher, whatever is left after it. *)
LEMMA StopsTheMotor ==
  ASSUME NEW t \in Thread, todo \in [Thread -> Lists], Booleans, Execute(t),
         NEW rest \in Lists, todo[t] = Stopping(rest), publishing = Publisher
  PROVE  /\ todo' = [todo EXCEPT ![t] = rest] /\ Booleans' /\ motor' = 0
         /\ UNCHANGED <<memory, contactors>>
<1>1. Op("stop", "-") \in Access
  BY Accesses DEF Name
<1>2. /\ todo' = [todo EXCEPT ![t] = rest]
      /\ motor' = IF "motor" \in publishing THEN 0 ELSE motor
      /\ UNCHANGED <<memory, contactors>>
  BY <1>1, Effects DEF Stopping
<1> QED BY <1>2 DEF Publisher, Booleans, memory

LEMMA EntersState ==
  ASSUME NEW t \in Thread, todo \in [Thread -> Lists], Booleans, Execute(t),
         NEW s \in State, NEW rest \in Lists, todo[t] = Entering(s, rest)
  PROVE  /\ todo' = [todo EXCEPT ![t] = rest] /\ current_state' = s /\ Booleans'
         /\ UNCHANGED <<is_processing_allowed, publishing, e_stop_active,
                        hardware_contactors_closed, contactors, motor>>
<1>1. Op("enter", s) \in Access
  BY Accesses
<1>2. /\ todo' = [todo EXCEPT ![t] = rest] /\ current_state' = s
      /\ UNCHANGED <<is_processing_allowed, publishing, e_stop_active,
                     hardware_contactors_closed, output>>
  BY <1>1, Effects DEF Entering
<1> QED BY <1>2 DEF Booleans, output

LEMMA WorkingAdvances ==
  ASSUME NEW t \in Thread, todo \in [Thread -> Lists], Booleans, Execute(t), Working(todo[t])
  PROVE  Advances(t)
<1> USE OutlineTypes, PartTypes, EndTypes, VelocityTypes
<1>0. is_processing_allowed /\ Settled /\ publishing = Publisher
  BY DEF Working, Settled
<1>1. ASSUME NEW v \in Velocity, todo[t] = Vetting(v)
      PROVE  Advances(t)
  <2>1. /\ todo' = [todo EXCEPT ![t] = IF e_stop_active THEN Stopping(<<>>) ELSE Moving(v)]
        /\ UNCHANGED <<memory, output>>
    BY <1>1, Effects, Accesses DEF Vetting
  <2>2. /\ Settled' /\ Booleans' /\ UNCHANGED <<is_processing_allowed, e_stop_active, contactors>>
    BY <1>0, <2>1, UnchangedSettled DEF output, memory
  <2>3. CASE e_stop_active
    <3>1. Outline(Stopping(<<>>))' /\ Stopping(<<>>) \in Lists
      BY <1>0, <2>2, ListTypes DEF Outline, Working, Admitted
    <3> QED BY <2>1, <2>2, <2>3, <3>1 DEF Advances
  <2>4. CASE ~e_stop_active
    <3>1. Outline(Moving(v))'
      BY <1>0, <2>2, <2>4 DEF Outline, Working
    <3> QED BY <2>1, <2>2, <2>4, <3>1 DEF Advances
  <2> QED BY <2>3, <2>4
<1>2. ASSUME NEW v \in Velocity, todo[t] = Moving(v), ~e_stop_active
      PROVE  Advances(t)
  <2> DEFINE vetoed == current_state \in {"PROTECTIVE_STOP", "EMERGENCY"}
  <2>1. /\ todo' = [todo EXCEPT ![t] = IF vetoed THEN Stopping(<<>>) ELSE Driving(v)]
        /\ UNCHANGED <<memory, output>>
    BY <1>2, Effects, Accesses DEF Moving
  <2>2. /\ Settled' /\ Booleans'
        /\ UNCHANGED <<is_processing_allowed, e_stop_active, current_state, contactors>>
    BY <1>0, <2>1, UnchangedSettled DEF output, memory
  <2>3. CASE vetoed
    <3>1. Outline(Stopping(<<>>))' /\ Stopping(<<>>) \in Lists
      BY <1>0, <2>2, ListTypes DEF Outline, Working, Admitted
    <3> QED BY <2>1, <2>2, <2>3, <3>1 DEF Advances
  <2>4. CASE ~vetoed
    <3>1. Outline(Driving(v))'
      BY <1>0, <1>2, <2>2, <2>4 DEF Outline, Working
    <3> QED BY <2>1, <2>2, <2>4, <3>1 DEF Advances
  <2> QED BY <2>3, <2>4
<1>3. ASSUME NEW v \in Velocity, todo[t] = Driving(v), ~e_stop_active,
             current_state \notin {"PROTECTIVE_STOP", "EMERGENCY"}
      PROVE  Advances(t)
  <2>1. todo' = [todo EXCEPT ![t] = <<>>] /\ UNCHANGED <<memory, contactors>>
    BY <1>3, Effects, Accesses DEF Driving
  <2>2. Settled' /\ Booleans'
    BY <1>0, <1>3, <2>1 DEF Settled, Booleans, memory
  <2>3. Outline(<<>>)'
    BY <2>2 DEF Outline, Resting, Quiet
  <2> QED BY <2>1, <2>2, <2>3 DEF Advances
<1>4. ASSUME NEW s \in {"PROTECTIVE_STOP", "DEGRADED"},
             todo[t] = Entering(s, Stopping(Unlatched(Powering)))
      PROVE  Advances(t)
  <2>1. /\ todo' = [todo EXCEPT ![t] = Stopping(Unlatched(Powering))] /\ Booleans'
        /\ UNCHANGED <<is_processing_allowed, publishing, e_stop_active,
                       hardware_contactors_closed, contactors, motor>>
    BY <1>4, EntersState DEF State
  <2>2. Outline(Stopping(Unlatched(Powering)))'
    BY <1>0, <2>1 DEF Outline, Closing, Settled
  <2> QED BY <2>1, <2>2 DEF Advances
<1>5. ASSUME NEW end \in Ends, todo[t] = Latching(TRUE, Tripping(Stopping(Cutting(end))))
      PROVE  Advances(t)
  <2>1. /\ todo' = [todo EXCEPT ![t] = Tripping(Stopping(Cutting(end)))]
        /\ e_stop_active' = TRUE
        /\ UNCHANGED <<is_processing_allowed, publishing, current_state,
                       hardware_contactors_closed, output>>
    BY <1>5, Effects, Accesses DEF Latching
  <2>2. Booleans' /\ UNCHANGED contactors
    BY <2>1 DEF Booleans, output
  <2>3. Outline(Tripping(Stopping(Cutting(end))))'
    BY <1>0, <2>1, <2>2 DEF Outline, Opening, Settled
  <2> QED BY <2>1, <2>2, <2>3 DEF Advances
<1>6. CASE todo[t] = Stopping(<<>>)
  <2>1. /\ todo' = [todo EXCEPT ![t] = <<>>] /\ Booleans' /\ motor' = 0
        /\ UNCHANGED <<memory, contactors>>
    BY <1>0, <1>6, StopsTheMotor
  <2>2. Outline(<<>>)'
    BY <1>0, <2>1 DEF Outline, Resting, Quiet, Settled, memory
  <2> QED BY <2>1, <2>2 DEF Advances
<1>7. CASE todo[t] = Entering("PROTECTIVE_STOP", Stopping(Cutting(<<>>)))
  <2>1. Stopping(Cutting(<<>>)) \in Lists /\ <<>> \in Ends
    BY DEF Ends
  <2>2. /\ todo' = [todo EXCEPT ![t] = Stopping(Cutting(<<>>))] /\ Booleans'
        /\ UNCHANGED <<is_processing_allowed, publishing, e_stop_active,
                       hardware_contactors_closed, contactors, motor>>
    BY <1>7, <2>1, EntersState DEF State
  <2>3. Outline(Stopping(Cutting(<<>>)))'
    BY <1>0, <2>1, <2>2 DEF Outline, Opening, Settled
  <2> QED BY <2>1, <2>2, <2>3 DEF Advances
<1>8. CASE todo[t] = Then("stopped", "-", Latching(TRUE, Tripping(Cutting(Report))))
  <2> DEFINE rest == Latching(TRUE, Tripping(Cutting(Report)))
  <2>0. rest \in Lists /\ Op("stopped", "-") \in Access
    BY Accesses DEF Ends, Name
  <2> HIDE DEF rest
  <2>1. /\ todo' = [todo EXCEPT ![t] = IF current_state = "PROTECTIVE_STOP" THEN rest ELSE <<>>]
        /\ UNCHANGED <<memory, output>>
    BY <1>8, <2>0, Effects DEF rest
  <2>2. /\ Settled' /\ Booleans' /\ UNCHANGED <<is_processing_allowed, publishing, motor, contactors>>
    BY <1>0, <2>1, UnchangedSettled DEF output, memory
  <2>3. CASE current_state = "PROTECTIVE_STOP"
    <3>1. motor = 0
      BY <1>0, <2>3 DEF Settled
    <3>2. Outline(rest)'
      BY <1>0, <2>2, <3>1 DEF Outline, Opening, rest
    <3> QED BY <2>0, <2>1, <2>2, <2>3, <3>2 DEF Advances
  <2>4. CASE current_state # "PROTECTIVE_STOP"
    <3>1. Outline(<<>>)'
      BY <2>2 DEF Outline, Resting, Quiet
    <3> QED BY <2>1, <2>2, <2>4, <3>1 DEF Advances
  <2> QED BY <2>3, <2>4
<1> QED BY <1>1, <1>2, <1>3, <1>4, <1>5, <1>6, <1>7, <1>8 DEF Working, Admitted

(* The comparison, whatever is set and whatever follows. *)
LEMMA Compares ==
  ASSUME NEW t \in Thread, todo \in [Thread -> Lists], Booleans, Execute(t),
         NEW b \in BOOLEAN, NEW rest \in Lists, todo[t] = Comparing(b, rest)
  PROVE  /\ todo' = [todo EXCEPT ![t] = IF hardware_contactors_closed = b THEN rest
                                        ELSE Believing(b, rest)]
         /\ UNCHANGED <<memory, output>> /\ Booleans'
<1>1. Op("compare", b) \in Access /\ Believing(b, rest) \in Lists
  BY Accesses, ComparingTyped
<1>2. todo[t] = Then("compare", b, Believing(b, rest))
  BY DEF Comparing
<1>3. /\ todo' = [todo EXCEPT ![t] = IF hardware_contactors_closed = b
                                     THEN SubSeq(todo[t], 4, Len(todo[t]))
                                     ELSE Believing(b, rest)]
      /\ UNCHANGED <<memory, output>>
  BY <1>1, <1>2, Effects
<1>4. SubSeq(todo[t], 4, Len(todo[t])) = rest
  BY ComparingSkipped
<1> QED BY <1>3, <1>4 DEF Booleans, memory, output

LEMMA Believes ==
  ASSUME NEW t \in Thread, todo \in [Thread -> Lists], Booleans, Execute(t),
         NEW b \in BOOLEAN, NEW rest \in Lists, todo[t] = Believing(b, rest)
  PROVE  /\ todo' = [todo EXCEPT ![t] = Commanding(b, rest)]
         /\ hardware_contactors_closed' = b /\ Booleans'
         /\ UNCHANGED <<is_processing_allowed, publishing, e_stop_active, current_state,
                        contactors, motor>>
<1>1. Op("believe", b) \in Access /\ Commanding(b, rest) \in Lists
  BY Accesses, ComparingTyped
<1>2. /\ todo' = [todo EXCEPT ![t] = Commanding(b, rest)]
      /\ hardware_contactors_closed' = b
      /\ UNCHANGED <<is_processing_allowed, publishing, e_stop_active, current_state, output>>
  BY <1>1, Effects DEF Believing
<1> QED BY <1>2 DEF Booleans, output

LEMMA Commands ==
  ASSUME NEW t \in Thread, todo \in [Thread -> Lists], Booleans, Execute(t),
         NEW b \in BOOLEAN, NEW rest \in Lists, todo[t] = Commanding(b, rest)
  PROVE  /\ todo' = [todo EXCEPT ![t] = rest] /\ Booleans'
         /\ contactors' = IF "contactors" \in publishing THEN b ELSE contactors
         /\ UNCHANGED <<memory, motor>>
<1>1. Op("command", b) \in Access
  BY Accesses
<1>2. /\ todo' = [todo EXCEPT ![t] = rest]
      /\ contactors' = IF "contactors" \in publishing THEN b ELSE contactors
      /\ UNCHANGED <<memory, motor>>
  BY <1>1, Effects DEF Commanding
<1> QED BY <1>2 DEF Booleans, memory

LEMMA OpeningAdvances ==
  ASSUME NEW t \in Thread, todo \in [Thread -> Lists], Booleans, Execute(t), Opening(todo[t])
  PROVE  Advances(t)
<1> USE OutlineTypes, PartTypes, EndTypes
<1>0. is_processing_allowed /\ publishing = Publisher
  BY DEF Opening
<1>1. CASE todo[t] = Latching(TRUE, Tripping(Cutting(Report))) /\ Settled /\ motor = 0
  <2>0. Tripping(Cutting(Report)) \in Lists
    BY DEF Ends
  <2>1. /\ todo' = [todo EXCEPT ![t] = Tripping(Cutting(Report))]
        /\ e_stop_active' = TRUE
        /\ UNCHANGED <<is_processing_allowed, publishing, current_state,
                       hardware_contactors_closed, output>>
    BY <1>1, <2>0, Effects, Accesses DEF Latching
  <2>2. Booleans' /\ UNCHANGED contactors
    BY <2>1 DEF Booleans, output
  <2>3. Outline(Tripping(Cutting(Report)))'
    BY <1>0, <1>1, <2>1 DEF Outline, Opening, Settled, output
  <2> QED BY <2>0, <2>1, <2>2, <2>3 DEF Advances
<1>2. CASE /\ todo[t] = Tripping(Cutting(Report)) /\ motor = 0
           /\ contactors => hardware_contactors_closed
  <2>0. Cutting(Report) \in Lists
    BY DEF Ends
  <2>1. /\ todo' = [todo EXCEPT ![t] = Cutting(Report)] /\ Booleans'
        /\ UNCHANGED <<is_processing_allowed, publishing, e_stop_active,
                       hardware_contactors_closed, contactors, motor>>
    BY <1>2, <2>0, EntersState DEF Tripping, State
  <2>2. Outline(Cutting(Report))'
    BY <1>0, <1>2, <2>1 DEF Outline, Opening, Ends, MotorAtRest
  <2> QED BY <2>0, <2>1, <2>2 DEF Advances
<1>3. ASSUME NEW end \in Ends, todo[t] = Tripping(Stopping(Cutting(end))),
             contactors => hardware_contactors_closed
      PROVE  Advances(t)
  <2>1. /\ todo' = [todo EXCEPT ![t] = Stopping(Cutting(end))] /\ Booleans'
        /\ UNCHANGED <<is_processing_allowed, publishing, e_stop_active,
                       hardware_contactors_closed, contactors, motor>>
    BY <1>3, EntersState DEF Tripping, State
  <2>2. Outline(Stopping(Cutting(end)))'
    BY <1>0, <1>3, <2>1 DEF Outline, Opening
  <2> QED BY <2>1, <2>2 DEF Advances
<1>4. ASSUME NEW end \in Ends, todo[t] = Stopping(Cutting(end)),
             contactors => hardware_contactors_closed
      PROVE  Advances(t)
  <2>1. /\ todo' = [todo EXCEPT ![t] = Cutting(end)] /\ Booleans' /\ motor' = 0
        /\ UNCHANGED <<memory, contactors>>
    BY <1>0, <1>4, StopsTheMotor
  <2>2. Outline(Cutting(end))'
    BY <1>0, <1>4, <2>1 DEF Outline, Opening, MotorAtRest, memory
  <2> QED BY <2>1, <2>2 DEF Advances
<1>5. ASSUME NEW end \in Ends, todo[t] = Cutting(end), MotorAtRest,
             contactors => hardware_contactors_closed
      PROVE  Advances(t)
  <2>0. Believing(FALSE, end) \in Lists
    BY ComparingTyped
  <2>1. /\ todo' = [todo EXCEPT ![t] = IF hardware_contactors_closed = FALSE THEN end
                                       ELSE Believing(FALSE, end)]
        /\ UNCHANGED <<memory, output>> /\ Booleans'
    BY <1>5, Compares DEF Cutting
  <2>2. /\ UNCHANGED <<is_processing_allowed, publishing, e_stop_active, current_state,
                       hardware_contactors_closed, contactors, motor>>
        /\ MotorAtRest'
    BY <1>5, <2>1, UnchangedSettled DEF memory, output
  <2>3. CASE hardware_contactors_closed = FALSE
    <3>1. Settled'
      BY <1>0, <1>5, <2>2, <2>3 DEF Settled, MotorAtRest
    <3>2. Outline(end)'
      BY <3>1 DEF Outline, Resting, Quiet, Ends
    <3> QED BY <2>1, <2>2, <2>3, <3>2 DEF Advances
  <2>4. CASE hardware_contactors_closed # FALSE
    <3>1. Outline(Believing(FALSE, end))'
      BY <1>0, <1>5, <2>2 DEF Outline, Opening
    <3> QED BY <2>0, <2>1, <2>2, <2>4, <3>1 DEF Advances
  <2> QED BY <2>3, <2>4
<1>6. ASSUME NEW end \in Ends, todo[t] = Believing(FALSE, end), MotorAtRest
      PROVE  Advances(t)
  <2>0. Commanding(FALSE, end) \in Lists
    BY ComparingTyped
  <2>1. /\ todo' = [todo EXCEPT ![t] = Commanding(FALSE, end)] /\ Booleans'
        /\ UNCHANGED <<is_processing_allowed, publishing, e_stop_active, current_state,
                       contactors, motor>>
    BY <1>6, Believes
  <2>2. Outline(Commanding(FALSE, end))'
    BY <1>0, <1>6, <2>1 DEF Outline, Opening, MotorAtRest
  <2> QED BY <2>0, <2>1, <2>2 DEF Advances
<1>7. ASSUME NEW end \in Ends, todo[t] = Commanding(FALSE, end), MotorAtRest
      PROVE  Advances(t)
  <2>1. /\ todo' = [todo EXCEPT ![t] = end] /\ Booleans' /\ contactors' = FALSE
        /\ UNCHANGED <<memory, motor>>
    BY <1>0, <1>7, Commands DEF Publisher
  <2>2. Settled'
    BY <1>0, <1>7, <2>1 DEF Settled, MotorAtRest, memory
  <2>3. Outline(end)'
    BY <2>2 DEF Outline, Resting, Quiet, Ends
  <2> QED BY <2>1, <2>3 DEF Advances
<1> QED BY <1>1, <1>2, <1>3, <1>4, <1>5, <1>6, <1>7 DEF Opening

LEMMA ClosingAdvances ==
  ASSUME NEW t \in Thread, todo \in [Thread -> Lists], Booleans, Execute(t), Closing(todo[t])
  PROVE  Advances(t)
<1> USE OutlineTypes, PartTypes, EndTypes
<1>1. CASE /\ todo[t] = Stopping(Unlatched(Powering))
           /\ is_processing_allowed /\ publishing = Publisher
           /\ contactors => hardware_contactors_closed
           /\ e_stop_active => ~contactors
  <2>1. /\ todo' = [todo EXCEPT ![t] = Unlatched(Powering)] /\ Booleans' /\ motor' = 0
        /\ UNCHANGED <<memory, contactors>>
    BY <1>1, StopsTheMotor
  <2>2. Outline(Unlatched(Powering))'
    BY <1>1, <2>1 DEF Outline, Resting, Quiet, Settled, memory
  <2> QED BY <2>1, <2>2 DEF Advances
<1>2. CASE todo[t] = Entering("NORMAL", Powering) /\ Settled /\ ~e_stop_active
  <2>1. /\ todo' = [todo EXCEPT ![t] = Powering] /\ Booleans' /\ current_state' = "NORMAL"
        /\ UNCHANGED <<is_processing_allowed, publishing, e_stop_active,
                       hardware_contactors_closed, contactors, motor>>
    BY <1>2, EntersState DEF State
  <2>2. Outline(Powering)'
    BY <1>2, <2>1 DEF Outline, Closing, Settled, Powering, Ends
  <2> QED BY <2>1, <2>2 DEF Advances
<1>3. ASSUME NEW end \in Ends, todo[t] = Comparing(TRUE, end), Settled, ~e_stop_active
      PROVE  Advances(t)
  <2>1. /\ todo' = [todo EXCEPT ![t] = IF hardware_contactors_closed = TRUE THEN end
                                       ELSE Believing(TRUE, end)]
        /\ UNCHANGED <<memory, output>> /\ Booleans'
    BY <1>3, Compares
  <2>2. Settled' /\ UNCHANGED <<e_stop_active, contactors>> /\ Believing(TRUE, end) \in Lists
    BY <1>3, <2>1, UnchangedSettled, ComparingTyped DEF memory, output
  <2>3. Outline(end)' /\ Outline(Believing(TRUE, end))'
    BY <1>3, <2>2 DEF Outline, Resting, Quiet, Ends, Closing
  <2> QED BY <2>1, <2>2, <2>3 DEF Advances
<1>4. ASSUME NEW end \in Ends, todo[t] = Believing(TRUE, end), Settled, ~e_stop_active
      PROVE  Advances(t)
  <2>0. Commanding(TRUE, end) \in Lists
    BY ComparingTyped
  <2>1. /\ todo' = [todo EXCEPT ![t] = Commanding(TRUE, end)] /\ Booleans'
        /\ hardware_contactors_closed' = TRUE
        /\ UNCHANGED <<is_processing_allowed, publishing, e_stop_active, current_state,
                       contactors, motor>>
    BY <1>4, Believes
  <2>2. Outline(Commanding(TRUE, end))'
    BY <1>4, <2>1 DEF Outline, Closing, Settled
  <2> QED BY <2>0, <2>1, <2>2 DEF Advances
<1>5. ASSUME NEW end \in Ends, todo[t] = Commanding(TRUE, end), Settled, ~e_stop_active,
             hardware_contactors_closed
      PROVE  Advances(t)
  <2>1. /\ todo' = [todo EXCEPT ![t] = end] /\ Booleans'
        /\ contactors' = IF "contactors" \in publishing THEN TRUE ELSE contactors
        /\ UNCHANGED <<memory, motor>>
    BY <1>5, Commands
  <2>2. Settled'
    BY <1>5, <2>1 DEF Settled, memory
  <2>3. Outline(end)'
    BY <2>2 DEF Outline, Resting, Quiet, Ends
  <2> QED BY <1>5, <2>1, <2>3 DEF Advances
<1> QED BY <1>1, <1>2, <1>3, <1>4, <1>5 DEF Closing

LEMMA Switches ==
  ASSUME NEW t \in Thread, todo \in [Thread -> Lists], Booleans, Execute(t),
         NEW p \in Publisher, NEW b \in BOOLEAN, NEW rest \in Lists,
         todo[t] = Switching(p, b, rest)
  PROVE  /\ todo' = [todo EXCEPT ![t] = rest] /\ Booleans'
         /\ publishing' = IF b THEN publishing \cup {p} ELSE publishing \ {p}
         /\ UNCHANGED <<is_processing_allowed, e_stop_active, current_state,
                        hardware_contactors_closed, contactors, motor>>
<1> DEFINE value == [name |-> p, on |-> b]
<1>1. Op("publisher", value) \in Access /\ value.name = p /\ value.on = b
  BY Accesses
<1>2. todo[t] = Then("publisher", value, rest)
  BY DEF Switching
<1> HIDE DEF value
<1>3. /\ todo' = [todo EXCEPT ![t] = rest]
      /\ publishing' = IF value.on THEN publishing \cup {value.name}
                                   ELSE publishing \ {value.name}
      /\ UNCHANGED <<is_processing_allowed, e_stop_active, current_state,
                     hardware_contactors_closed, output>>
  BY <1>1, <1>2, Effects
<1> QED BY <1>1, <1>3 DEF Booleans, output

LEMMA ActivatingAdvances ==
  ASSUME NEW t \in Thread, todo \in [Thread -> Lists], Booleans, Execute(t), Activating(todo[t])
  PROVE  Advances(t)
<1> USE OutlineTypes, PartTypes, EndTypes
<1>1. CASE todo[t] = Then("allow", TRUE, Rising3) /\ Settled /\ ~is_processing_allowed
  <2>1. /\ todo' = [todo EXCEPT ![t] = Rising3]
        /\ is_processing_allowed' = TRUE
        /\ UNCHANGED <<publishing, e_stop_active, current_state,
                       hardware_contactors_closed, output>>
    BY <1>1, Effects, Accesses
  <2>2. Booleans' /\ UNCHANGED contactors
    BY <2>1 DEF Booleans, output
  <2>3. Outline(Rising3)'
    BY <1>1, <2>1 DEF Outline, Activating, Settled, MotorAtRest, output
  <2> QED BY <2>1, <2>2, <2>3 DEF Advances
<1>2. CASE /\ is_processing_allowed /\ ~contactors /\ MotorAtRest
           /\ todo[t] = Rising3 /\ publishing = {}
  <2>1. /\ todo' = [todo EXCEPT ![t] = Rising2] /\ Booleans'
        /\ publishing' = {"motor"}
        /\ UNCHANGED <<is_processing_allowed, e_stop_active, current_state,
                       hardware_contactors_closed, contactors, motor>>
    BY <1>2, Switches DEF Rising3, Publisher
  <2>2. Outline(Rising2)'
    BY <1>2, <2>1 DEF Outline, Activating, MotorAtRest
  <2> QED BY <2>1, <2>2 DEF Advances
<1>3. CASE /\ is_processing_allowed /\ ~contactors /\ MotorAtRest
           /\ todo[t] = Rising2 /\ publishing = {"motor"}
  <2>1. /\ todo' = [todo EXCEPT ![t] = Rising1] /\ Booleans'
        /\ publishing' = {"motor", "state"}
        /\ UNCHANGED <<is_processing_allowed, e_stop_active, current_state,
                       hardware_contactors_closed, contactors, motor>>
    BY <1>3, Switches DEF Rising2, Publisher
  <2>2. Outline(Rising1)'
    BY <1>3, <2>1 DEF Outline, Activating, MotorAtRest
  <2> QED BY <2>1, <2>2 DEF Advances
<1>4. CASE /\ is_processing_allowed /\ ~contactors /\ MotorAtRest
           /\ todo[t] = Rising1 /\ publishing = {"motor", "state"}
  <2>0. Cutting(<<>>) \in Lists
    BY DEF Ends
  <2>1. /\ todo' = [todo EXCEPT ![t] = Cutting(<<>>)] /\ Booleans'
        /\ publishing' = Publisher
        /\ UNCHANGED <<is_processing_allowed, e_stop_active, current_state,
                       hardware_contactors_closed, contactors, motor>>
    BY <1>4, <2>0, Switches DEF Rising1, Publisher
  <2>2. Outline(Cutting(<<>>))'
    BY <1>4, <2>1 DEF Outline, Opening, MotorAtRest, Ends
  <2> QED BY <2>0, <2>1, <2>2 DEF Advances
<1> QED BY <1>1, <1>2, <1>3, <1>4 DEF Activating

LEMMA DeactivatingAdvances ==
  ASSUME NEW t \in Thread, todo \in [Thread -> Lists], Booleans, Execute(t),
         Deactivating(todo[t])
  PROVE  Advances(t)
<1> USE OutlineTypes, PartTypes, EndTypes
<1>1. CASE /\ todo[t] = Then("allow", FALSE, Cutting(Retiring3))
           /\ Settled /\ is_processing_allowed
  <2>1. /\ todo' = [todo EXCEPT ![t] = Cutting(Retiring3)]
        /\ is_processing_allowed' = FALSE
        /\ UNCHANGED <<publishing, e_stop_active, current_state,
                       hardware_contactors_closed, output>>
    BY <1>1, Effects, Accesses
  <2>2. Booleans' /\ UNCHANGED contactors
    BY <2>1 DEF Booleans, output
  <2>3. Outline(Cutting(Retiring3))'
    BY <1>1, <2>1 DEF Outline, Deactivating, Settled, MotorAtRest, output
  <2> QED BY <2>1, <2>2, <2>3 DEF Advances
<1>2. CASE /\ ~is_processing_allowed /\ MotorAtRest /\ publishing = Publisher
           /\ todo[t] = Cutting(Retiring3)
           /\ contactors => hardware_contactors_closed
  <2>0. Believing(FALSE, Retiring3) \in Lists
    BY ComparingTyped
  <2>1. /\ todo' = [todo EXCEPT ![t] = IF hardware_contactors_closed = FALSE THEN Retiring3
                                       ELSE Believing(FALSE, Retiring3)]
        /\ UNCHANGED <<memory, output>> /\ Booleans'
    BY <1>2, Compares DEF Cutting
  <2>2. /\ UNCHANGED <<is_processing_allowed, publishing, hardware_contactors_closed, contactors>>
        /\ MotorAtRest'
    BY <1>2, <2>1, UnchangedSettled DEF memory, output
  <2>3. CASE hardware_contactors_closed = FALSE
    <3>1. Outline(Retiring3)'
      BY <1>2, <2>2, <2>3 DEF Outline, Deactivating
    <3> QED BY <2>1, <2>2, <2>3, <3>1 DEF Advances
  <2>4. CASE hardware_contactors_closed # FALSE
    <3>1. Outline(Believing(FALSE, Retiring3))'
      BY <1>2, <2>2 DEF Outline, Deactivating
    <3> QED BY <2>0, <2>1, <2>2, <2>4, <3>1 DEF Advances
  <2> QED BY <2>3, <2>4
<1>3. CASE /\ ~is_processing_allowed /\ MotorAtRest /\ publishing = Publisher
           /\ todo[t] = Believing(FALSE, Retiring3)
  <2>0. Commanding(FALSE, Retiring3) \in Lists
    BY ComparingTyped
  <2>1. /\ todo' = [todo EXCEPT ![t] = Commanding(FALSE, Retiring3)] /\ Booleans'
        /\ UNCHANGED <<is_processing_allowed, publishing, e_stop_active, current_state,
                       contactors, motor>>
    BY <1>3, Believes
  <2>2. Outline(Commanding(FALSE, Retiring3))'
    BY <1>3, <2>1 DEF Outline, Deactivating, MotorAtRest
  <2> QED BY <2>0, <2>1, <2>2 DEF Advances
<1>4. CASE /\ ~is_processing_allowed /\ MotorAtRest /\ publishing = Publisher
           /\ todo[t] = Commanding(FALSE, Retiring3)
  <2>1. /\ todo' = [todo EXCEPT ![t] = Retiring3] /\ Booleans' /\ contactors' = FALSE
        /\ UNCHANGED <<memory, motor>>
    BY <1>4, Commands DEF Publisher
  <2>2. Outline(Retiring3)'
    BY <1>4, <2>1 DEF Outline, Deactivating, MotorAtRest, memory
  <2> QED BY <2>1, <2>2 DEF Advances
<1>5. CASE /\ ~is_processing_allowed /\ MotorAtRest /\ publishing = Publisher /\ ~contactors
           /\ todo[t] = Retiring3
  <2>1. /\ todo' = [todo EXCEPT ![t] = Retiring2] /\ Booleans'
        /\ publishing' = {"state", "contactors"}
        /\ UNCHANGED <<is_processing_allowed, e_stop_active, current_state,
                       hardware_contactors_closed, contactors, motor>>
    BY <1>5, Switches DEF Retiring3, Publisher
  <2>2. Outline(Retiring2)'
    BY <1>5, <2>1 DEF Outline, Deactivating, MotorAtRest
  <2> QED BY <2>1, <2>2 DEF Advances
<1>6. CASE /\ ~is_processing_allowed /\ MotorAtRest /\ ~contactors
           /\ publishing = {"state", "contactors"}
           /\ todo[t] = Retiring2
  <2>1. /\ todo' = [todo EXCEPT ![t] = Retiring1] /\ Booleans'
        /\ publishing' = {"contactors"}
        /\ UNCHANGED <<is_processing_allowed, e_stop_active, current_state,
                       hardware_contactors_closed, contactors, motor>>
    BY <1>6, Switches DEF Retiring2, Publisher
  <2>2. Outline(Retiring1)'
    BY <1>6, <2>1 DEF Outline, Deactivating, MotorAtRest
  <2> QED BY <2>1, <2>2 DEF Advances
<1>7. CASE /\ ~is_processing_allowed /\ MotorAtRest /\ ~contactors
           /\ publishing = {"contactors"}
           /\ todo[t] = Retiring1
  <2>1. /\ todo' = [todo EXCEPT ![t] = <<>>] /\ Booleans'
        /\ publishing' = {}
        /\ UNCHANGED <<is_processing_allowed, e_stop_active, current_state,
                       hardware_contactors_closed, contactors, motor>>
    BY <1>7, Switches DEF Retiring1, Publisher
  <2>2. Settled'
    BY <1>7, <2>1 DEF Settled, MotorAtRest
  <2>3. Outline(<<>>)'
    BY <2>2 DEF Outline, Resting, Quiet
  <2> QED BY <2>1, <2>3 DEF Advances
<1> QED BY <1>1, <1>2, <1>3, <1>4, <1>5, <1>6, <1>7 DEF Deactivating

LEMMA OutlineAdvances ==
  ASSUME NEW t \in Thread, todo \in [Thread -> Lists], Booleans, Execute(t), Outline(todo[t])
  PROVE  Advances(t)
BY RestingAdvances, WorkingAdvances, OpeningAdvances, ClosingAdvances, ActivatingAdvances,
   DeactivatingAdvances DEF Outline

-----------------------------------------------------------------------------
(* The callbacks as lists *)

LEMMA Single ==
  \A a \in Access : <<a>> \in Lists
BY DEF Lists

LEMMA PieceTypes ==
  /\ Gate \in Lists /\ Stop \in Lists /\ Report \in Lists /\ IfUnlatched \in Lists
  /\ \A b \in BOOLEAN : Latch(b) \in Lists /\ Allow(b) \in Lists /\ SetContactors(b) \in Lists
  /\ \A s \in State : Enter(s) \in Lists
  /\ \A p \in Publisher, b \in BOOLEAN : Publish(p, b) \in Lists
<1>1. /\ Op("gate", "-") \in Access /\ Op("stop", "-") \in Access
      /\ Op("report", "-") \in Access /\ Op("unlatched", "-") \in Access
  BY Accesses DEF Name
<1>2. /\ Gate \in Lists /\ Stop \in Lists /\ Report \in Lists /\ IfUnlatched \in Lists
  BY <1>1, Single DEF Gate, Stop, Report, IfUnlatched
<1>3. \A b \in BOOLEAN : Latch(b) \in Lists /\ Allow(b) \in Lists
  BY Accesses, Single DEF Latch, Allow
<1>4. \A b \in BOOLEAN : SetContactors(b) \in Lists
  BY SetContactorsIs, ListTypes, EndTypes
<1>5. \A s \in State : Enter(s) \in Lists
  BY Accesses, Single DEF Enter
<1>6. \A p \in Publisher, b \in BOOLEAN : Publish(p, b) \in Lists
  BY Accesses, Single DEF Publish
<1> QED BY <1>2, <1>3, <1>4, <1>5, <1>6

LEMMA Associative ==
  \A a, b, c \in Lists : (a ++ b) ++ c = a ++ (b ++ c) /\ b ++ c \in Lists
BY ConcatAssociative, ConcatProperties DEF Lists, ++

LEMMA Associative4 ==
  \A a, b, c, d \in Lists : ((a ++ b) ++ c) ++ d = a ++ (b ++ (c ++ d))
BY Associative

LEMMA Associative5 ==
  \A a, b, c, d, e \in Lists :
    (((a ++ b) ++ c) ++ d) ++ e = a ++ (b ++ (c ++ (d ++ e)))
<1>1. TAKE a, b, c, d, e \in Lists
<1>2. a ++ b \in Lists /\ c ++ (d ++ e) \in Lists
  BY Associative
<1>3. (((a ++ b) ++ c) ++ d) ++ e = (a ++ b) ++ (c ++ (d ++ e))
  BY <1>2, Associative4
<1>4. (a ++ b) ++ (c ++ (d ++ e)) = a ++ (b ++ (c ++ (d ++ e)))
  BY <1>2, Associative
<1> QED BY <1>3, <1>4

LEMMA Associative6 ==
  \A a, b, c, d, e, f \in Lists :
    ((((a ++ b) ++ c) ++ d) ++ e) ++ f = a ++ (b ++ (c ++ (d ++ (e ++ f))))
<1>1. TAKE a, b, c, d, e, f \in Lists
<1>2. a ++ b \in Lists /\ c ++ (d ++ (e ++ f)) \in Lists
  BY Associative
<1>3. ((((a ++ b) ++ c) ++ d) ++ e) ++ f = (a ++ b) ++ (c ++ (d ++ (e ++ f)))
  BY <1>2, Associative5
<1>4. (a ++ b) ++ (c ++ (d ++ (e ++ f))) = a ++ (b ++ (c ++ (d ++ (e ++ f))))
  BY <1>2, Associative
<1> QED BY <1>3, <1>4

LEMMA Prefixes ==
  \A rest \in Lists :
    /\ Gate ++ rest = Gated(rest) /\ Stop ++ rest = Stopping(rest)
    /\ IfUnlatched ++ rest = Unlatched(rest)
    /\ \A b \in BOOLEAN :
         Latch(b) ++ rest = Latching(b, rest) /\ Allow(b) ++ rest = Then("allow", b, rest)
    /\ \A s \in State : Enter(s) ++ rest = Entering(s, rest)
    /\ \A p \in Publisher, b \in BOOLEAN : Publish(p, b) ++ rest = Switching(p, b, rest)
BY DEF ++, Gate, Stop, IfUnlatched, Latch, Allow, Enter, Publish, Then, Gated, Stopping,
       Unlatched, Latching, Entering, Switching

LEMMA Contacts ==
  /\ SetContactors(TRUE) = Powering /\ SetContactors(FALSE) = Cutting(<<>>)
  /\ SetContactors(TRUE) ++ Report = Comparing(TRUE, Report)
  /\ SetContactors(FALSE) ++ Report = Cutting(Report)
  /\ SetContactors(FALSE) ++ Retiring3 = Cutting(Retiring3)
<1> USE EndTypes, PartTypes
<1>1. SetContactors(TRUE) = Powering /\ SetContactors(FALSE) = Cutting(<<>>)
  BY SetContactorsIs DEF Powering, Cutting
<1>2. ASSUME NEW b \in BOOLEAN, NEW rest \in Lists
      PROVE  SetContactors(b) ++ rest = Comparing(b, rest)
  <2>1. /\ Commanding(b, <<>>) \in Lists /\ Believing(b, <<>>) \in Lists
        /\ Op("command", b) \in Access /\ Op("believe", b) \in Access
        /\ Op("compare", b) \in Access
    BY ComparingTyped, Accesses
  <2>2. <<>> ++ rest = rest
    BY ConcatEmptySeq DEF Lists, ++
  <2>3. Commanding(b, <<>>) ++ rest = Commanding(b, rest)
    BY <2>1, <2>2, ThenAppended DEF Commanding
  <2>4. Believing(b, <<>>) ++ rest = Believing(b, rest)
    BY <2>1, <2>3, ThenAppended DEF Believing
  <2>5. Comparing(b, <<>>) ++ rest = Comparing(b, rest)
    BY <2>1, <2>4, ThenAppended DEF Comparing
  <2> QED BY <2>5, SetContactorsIs
<1> QED BY <1>1, <1>2 DEF Cutting

(* health_state_callback *)
LEMMA HealthLists ==
  /\ HealthState("STARTUP") = Gated(Entering("PROTECTIVE_STOP", Stopping(Cutting(<<>>))))
  /\ HealthState("EMERGENCY") = Gated(Latching(TRUE, Tripping(Stopping(Cutting(<<>>)))))
  /\ HealthState("PROTECTIVE_STOP") =
       Gated(Entering("PROTECTIVE_STOP", Stopping(Unlatched(Powering))))
  /\ HealthState("DEGRADED") = Gated(Entering("DEGRADED", Unlatched(Powering)))
  /\ HealthState("OK") = Gated(Unlatched(Entering("NORMAL", Powering)))
  /\ HealthState("RECONFIGURED") =
       Gated(Entering("DEGRADED", Stopping(Unlatched(Powering))))
  /\ HealthState("UNKNOWN") = Gated(Cutting(<<>>))
<1>0. /\ Powering \in Lists /\ Cutting(<<>>) \in Lists /\ Unlatched(Powering) \in Lists
      /\ Stopping(Cutting(<<>>)) \in Lists /\ Stopping(Unlatched(Powering)) \in Lists
      /\ Entering("NORMAL", Powering) \in Lists
      /\ Tripping(Stopping(Cutting(<<>>))) \in Lists
  BY PartTypes DEF Ends
<1>00. /\ Enter("PROTECTIVE_STOP") \in Lists /\ Enter("EMERGENCY") \in Lists
      /\ Enter("DEGRADED") \in Lists /\ Enter("NORMAL") \in Lists
      /\ Stop \in Lists /\ IfUnlatched \in Lists /\ Latch(TRUE) \in Lists
  BY PieceTypes DEF State
<1>1. HealthState("STARTUP") = Gated(Entering("PROTECTIVE_STOP", Stopping(Cutting(<<>>))))
  <2>1. HealthState("STARTUP") = Gate ++ ((Enter("PROTECTIVE_STOP") ++ Stop) ++ Cutting(<<>>))
    BY Contacts DEF HealthState, ++
  <2>2. (Enter("PROTECTIVE_STOP") ++ Stop) ++ Cutting(<<>>)
          = Enter("PROTECTIVE_STOP") ++ (Stop ++ Cutting(<<>>))
    BY <1>0, <1>00, Associative
  <2>3. Entering("PROTECTIVE_STOP", Stopping(Cutting(<<>>))) \in Lists
    BY <1>0, ListTypes DEF State
  <2> QED BY <1>0, <2>1, <2>2, <2>3, Prefixes DEF State
<1>2. HealthState("EMERGENCY") = Gated(Latching(TRUE, Tripping(Stopping(Cutting(<<>>)))))
  <2>1. HealthState("EMERGENCY") =
          Gate ++ (((Latch(TRUE) ++ Enter("EMERGENCY")) ++ Stop) ++ Cutting(<<>>))
    BY Contacts DEF HealthState, ++
  <2>2. ((Latch(TRUE) ++ Enter("EMERGENCY")) ++ Stop) ++ Cutting(<<>>)
          = Latch(TRUE) ++ (Enter("EMERGENCY") ++ (Stop ++ Cutting(<<>>)))
    <3> DEFINE latch == Latch(TRUE)
    <3>1. /\ latch \in Lists /\ Enter("EMERGENCY") \in Lists /\ Stop \in Lists
          /\ Cutting(<<>>) \in Lists
      BY <1>0, <1>00
    <3> HIDE DEF latch
    <3>2. ((latch ++ Enter("EMERGENCY")) ++ Stop) ++ Cutting(<<>>)
            = latch ++ (Enter("EMERGENCY") ++ (Stop ++ Cutting(<<>>)))
      BY <3>1, Associative4
    <3> QED BY <3>2 DEF latch
  <2>3. Enter("EMERGENCY") ++ (Stop ++ Cutting(<<>>)) = Tripping(Stopping(Cutting(<<>>)))
    BY <1>0, Prefixes DEF Tripping, State
  <2>4. Latching(TRUE, Tripping(Stopping(Cutting(<<>>)))) \in Lists
    BY <1>0, ListTypes
  <2>5. Latch(TRUE) ++ Tripping(Stopping(Cutting(<<>>)))
          = Latching(TRUE, Tripping(Stopping(Cutting(<<>>))))
    BY <1>0, Prefixes
  <2>6. Gate ++ Latching(TRUE, Tripping(Stopping(Cutting(<<>>))))
          = Gated(Latching(TRUE, Tripping(Stopping(Cutting(<<>>)))))
    BY <2>4, Prefixes
  <2> QED BY <2>1, <2>2, <2>3, <2>5, <2>6
<1>3. \A s \in {"PROTECTIVE_STOP", "DEGRADED"} :
        /\ (((Enter(s) ++ Stop) ++ IfUnlatched) ++ Powering)
              = Entering(s, Stopping(Unlatched(Powering)))
        /\ Entering(s, Stopping(Unlatched(Powering))) \in Lists
  <2>1. TAKE s \in {"PROTECTIVE_STOP", "DEGRADED"}
  <2>2. ((Enter(s) ++ Stop) ++ IfUnlatched) ++ Powering
          = Enter(s) ++ (Stop ++ (IfUnlatched ++ Powering))
    <3>1. Enter(s) \in Lists /\ Stop \in Lists /\ IfUnlatched \in Lists /\ Powering \in Lists
      BY <1>0, <1>00
    <3> QED BY <3>1, Associative4
  <2>3. Entering(s, Stopping(Unlatched(Powering))) \in Lists
    BY <1>0, ListTypes DEF State
  <2> QED BY <1>0, <2>2, <2>3, Prefixes DEF State
<1>4. HealthState("PROTECTIVE_STOP") =
        Gated(Entering("PROTECTIVE_STOP", Stopping(Unlatched(Powering))))
  <2>1. HealthState("PROTECTIVE_STOP") =
          Gate ++ (((Enter("PROTECTIVE_STOP") ++ Stop) ++ IfUnlatched) ++ Powering)
    BY Contacts DEF HealthState, ++
  <2> QED BY <1>3, <2>1, Prefixes
<1>5. HealthState("RECONFIGURED") = Gated(Entering("DEGRADED", Stopping(Unlatched(Powering))))
  <2>1. HealthState("RECONFIGURED") =
          Gate ++ (((Enter("DEGRADED") ++ Stop) ++ IfUnlatched) ++ Powering)
    BY Contacts DEF HealthState, ++
  <2> QED BY <1>3, <2>1, Prefixes
<1>6. HealthState("DEGRADED") = Gated(Entering("DEGRADED", Unlatched(Powering)))
  <2>1. HealthState("DEGRADED") = Gate ++ ((Enter("DEGRADED") ++ IfUnlatched) ++ Powering)
    BY Contacts DEF HealthState, ++
  <2>2. (Enter("DEGRADED") ++ IfUnlatched) ++ Powering
          = Enter("DEGRADED") ++ (IfUnlatched ++ Powering)
    BY <1>0, <1>00, Associative
  <2>3. Entering("DEGRADED", Unlatched(Powering)) \in Lists
    BY <1>0, ListTypes DEF State
  <2> QED BY <1>0, <2>1, <2>2, <2>3, Prefixes DEF State
<1>7. HealthState("OK") = Gated(Unlatched(Entering("NORMAL", Powering)))
  <2>1. HealthState("OK") = Gate ++ ((IfUnlatched ++ Enter("NORMAL")) ++ Powering)
    BY Contacts DEF HealthState, ++
  <2>2. (IfUnlatched ++ Enter("NORMAL")) ++ Powering
          = IfUnlatched ++ (Enter("NORMAL") ++ Powering)
    BY <1>0, <1>00, Associative
  <2>3. Unlatched(Entering("NORMAL", Powering)) \in Lists
    BY <1>0, ListTypes
  <2> QED BY <1>0, <2>1, <2>2, <2>3, Prefixes DEF State
<1>8. HealthState("UNKNOWN") = Gated(Cutting(<<>>))
  <2>1. HealthState("UNKNOWN") = Gate ++ Cutting(<<>>)
    BY Contacts DEF HealthState, ++
  <2> QED BY <1>0, <2>1, Prefixes
<1> QED BY <1>1, <1>2, <1>4, <1>5, <1>6, <1>7, <1>8

(* The other callbacks *)
LEMMA CallbackLists ==
  /\ \A v \in Velocity : SmoothedVel(v) = Gated(Vetting(v))
  /\ MuxState = Gated(Report)
  /\ OdomMoving = Gated(Then("stopped", "-", Latching(TRUE, Tripping(Cutting(Report)))))
  /\ EStop = Gated(Latching(TRUE, Tripping(Stopping(Cutting(Report)))))
  /\ EStopReset = Then("emergency", "-", Reset2)
  /\ OnActivate = Then("allow", TRUE, Rising3)
  /\ OnDeactivate = Then("allow", FALSE, Cutting(Retiring3))
<1>0. /\ Gate \in Lists /\ Latch(TRUE) \in Lists /\ Enter("EMERGENCY") \in Lists
      /\ Stop \in Lists /\ Report \in Lists /\ SetContactors(FALSE) \in Lists
  BY PieceTypes DEF State
<1>1. \A v \in Velocity : SmoothedVel(v) = Gated(Vetting(v))
  <2>1. TAKE v \in Velocity
  <2>2. <<Op("notLatched", v), Op("moving", v), Op("drive", v)>> = Vetting(v)
    <3>1. /\ Op("notLatched", v) \in Access /\ Op("moving", v) \in Access
          /\ Op("drive", v) \in Access
      BY Accesses
    <3> QED BY <3>1, Triple DEF Vetting, Moving, Driving, Then
  <2> QED BY <2>2, VelocityTypes, Prefixes DEF SmoothedVel, ++
<1>2. MuxState = Gated(Report)
  BY EndTypes, Prefixes DEF MuxState, ++
<1>3. OdomMoving = Gated(Then("stopped", "-", Latching(TRUE, Tripping(Cutting(Report)))))
  <2> DEFINE Stopped == <<Op("stopped", "-")>>
             rest == Latching(TRUE, Tripping(Cutting(Report)))
  <2>1. Stopped \in Lists
    BY Accesses, Single DEF Name
  <2>2. /\ Cutting(Report) \in Lists /\ Tripping(Cutting(Report)) \in Lists /\ rest \in Lists
    BY PartTypes DEF Ends
  <2>3. Then("stopped", "-", rest) \in Lists /\ Then("stopped", "-", rest) = Stopped ++ rest
    BY <2>2, ListTypes DEF Then, ++
  <2>4. OdomMoving = ((((Gate ++ Stopped) ++ Latch(TRUE)) ++ Enter("EMERGENCY"))
                        ++ SetContactors(FALSE)) ++ Report
    BY DEF OdomMoving, ++
  <2>5. Enter("EMERGENCY") ++ Cutting(Report) = Tripping(Cutting(Report))
    BY <2>2, Prefixes DEF Tripping, State
  <2>6. Latch(TRUE) ++ Tripping(Cutting(Report)) = rest
    BY <2>2, Prefixes
  <2> HIDE DEF Stopped, rest
  <2>7. OdomMoving = Gate ++ (Stopped ++ (Latch(TRUE) ++ (Enter("EMERGENCY") ++ Cutting(Report))))
    <3> DEFINE latch == Latch(TRUE)
               open == SetContactors(FALSE)
    <3>1. latch \in Lists /\ open \in Lists /\ open ++ Report = Cutting(Report)
      BY <1>0, Contacts
    <3>2. OdomMoving = ((((Gate ++ Stopped) ++ latch) ++ Enter("EMERGENCY")) ++ open) ++ Report
      BY <2>4
    <3> HIDE DEF latch, open
    <3>3. OdomMoving = Gate ++ (Stopped ++ (latch ++ (Enter("EMERGENCY") ++ (open ++ Report))))
      BY <1>0, <2>1, <3>1, <3>2, Associative6
    <3> QED BY <3>1, <3>3 DEF latch
  <2>8. OdomMoving = Gated(Then("stopped", "-", rest))
    <3>1. OdomMoving = Gate ++ Then("stopped", "-", rest)
      BY <2>3, <2>5, <2>6, <2>7
    <3> QED BY <2>3, <3>1, Prefixes
  <2> QED BY <2>8 DEF rest
<1>4. EStop = Gated(Latching(TRUE, Tripping(Stopping(Cutting(Report)))))
  <2>1. /\ Cutting(Report) \in Lists /\ Stopping(Cutting(Report)) \in Lists
        /\ Tripping(Stopping(Cutting(Report))) \in Lists
        /\ Latching(TRUE, Tripping(Stopping(Cutting(Report)))) \in Lists
    BY PartTypes DEF Ends
  <2>0. EStop = ((((Gate ++ Latch(TRUE)) ++ Enter("EMERGENCY")) ++ Stop) ++ SetContactors(FALSE))
                  ++ Report
    BY DEF EStop, ++
  <2>2. EStop = Gate ++ (Latch(TRUE) ++ (Enter("EMERGENCY") ++ (Stop ++ Cutting(Report))))
    <3> DEFINE latch == Latch(TRUE)
               open == SetContactors(FALSE)
    <3>1. latch \in Lists /\ open \in Lists /\ open ++ Report = Cutting(Report)
      BY <1>0, Contacts
    <3>2. EStop = ((((Gate ++ latch) ++ Enter("EMERGENCY")) ++ Stop) ++ open) ++ Report
      BY <2>0
    <3> HIDE DEF latch, open
    <3>3. EStop = Gate ++ (latch ++ (Enter("EMERGENCY") ++ (Stop ++ (open ++ Report))))
      BY <1>0, <3>1, <3>2, Associative6
    <3> QED BY <3>1, <3>3 DEF latch
  <2>3. Enter("EMERGENCY") ++ (Stop ++ Cutting(Report)) = Tripping(Stopping(Cutting(Report)))
    BY <2>1, Prefixes DEF Tripping, State
  <2> QED BY <2>1, <2>2, <2>3, Prefixes
<1>5. EStopReset = Then("emergency", "-", Reset2)
  <2> DEFINE Latched == <<Op("emergency", "-")>>
  <2>1. Latched \in Lists
    BY Accesses, Single DEF Name
  <2>2. Then("emergency", "-", Reset2) = Latched ++ Reset2
    BY DEF Then, ++
  <2>3. EStopReset = (((Latched ++ Enter("NORMAL")) ++ Latch(FALSE)) ++ SetContactors(TRUE))
                       ++ Report
    BY DEF EStopReset, ++
  <2> HIDE DEF Latched
  <2>4. EStopReset = Latched ++ (Enter("NORMAL") ++ (Latch(FALSE) ++ Comparing(TRUE, Report)))
    <3> DEFINE unlatch == Latch(FALSE)
               close == SetContactors(TRUE)
    <3>1. /\ Enter("NORMAL") \in Lists /\ unlatch \in Lists /\ Report \in Lists
          /\ close \in Lists
      BY PieceTypes DEF State
    <3>0. close ++ Report = Comparing(TRUE, Report)
      BY Contacts
    <3>2. EStopReset = (((Latched ++ Enter("NORMAL")) ++ unlatch) ++ close) ++ Report
      BY <2>3
    <3> HIDE DEF unlatch, close
    <3>3. EStopReset = Latched ++ (Enter("NORMAL") ++ (unlatch ++ (close ++ Report)))
      BY <2>1, <3>1, <3>2, Associative5
    <3> QED BY <3>0, <3>3 DEF unlatch
  <2>5. Latch(FALSE) ++ Comparing(TRUE, Report) = Reset1
    BY PieceTypes, ListTypes, Prefixes DEF Reset1
  <2>6. Enter("NORMAL") ++ Reset1 = Reset2
    BY PartTypes, Prefixes DEF Reset2, State
  <2> QED BY <2>2, <2>4, <2>5, <2>6
<1>6. OnActivate = Then("allow", TRUE, Rising3)
  <2>1. OnActivate = (((Allow(TRUE) ++ Publish("motor", TRUE)) ++ Publish("state", TRUE))
                        ++ Publish("contactors", TRUE)) ++ Cutting(<<>>)
    BY Contacts DEF OnActivate, ++
  <2>2. Cutting(<<>>) \in Lists
    BY PartTypes DEF Ends
  <2>3. OnActivate = Allow(TRUE) ++ (Publish("motor", TRUE) ++ (Publish("state", TRUE)
                       ++ (Publish("contactors", TRUE) ++ Cutting(<<>>))))
    <3> DEFINE allow == Allow(TRUE)
               on(p) == Publish(p, TRUE)
    <3>1. allow \in Lists /\ \A p \in Publisher : on(p) \in Lists
      BY PieceTypes
    <3>2. OnActivate = (((allow ++ on("motor")) ++ on("state")) ++ on("contactors")) ++ Cutting(<<>>)
      BY <2>1
    <3> HIDE DEF allow, on
    <3>3. OnActivate = allow ++ (on("motor") ++ (on("state") ++ (on("contactors") ++ Cutting(<<>>))))
      BY <2>2, <3>1, <3>2, Associative5 DEF Publisher
    <3> QED BY <3>3 DEF allow, on
  <2>4. Publish("contactors", TRUE) ++ Cutting(<<>>) = Rising1
    BY <2>2, Prefixes DEF Rising1, Publisher
  <2>5. Publish("state", TRUE) ++ Rising1 = Rising2
    BY PartTypes, Prefixes DEF Rising2, Publisher
  <2>6. Publish("motor", TRUE) ++ Rising2 = Rising3
    BY PartTypes, Prefixes DEF Rising3, Publisher
  <2> QED BY <2>3, <2>4, <2>5, <2>6, PartTypes, Prefixes
<1>7. OnDeactivate = Then("allow", FALSE, Cutting(Retiring3))
  <2>0. OnDeactivate = (((Allow(FALSE) ++ SetContactors(FALSE)) ++ Publish("motor", FALSE))
                          ++ Publish("state", FALSE)) ++ Publish("contactors", FALSE)
    BY DEF OnDeactivate, ++
  <2>1. OnDeactivate = Allow(FALSE) ++ (SetContactors(FALSE) ++ (Publish("motor", FALSE)
                         ++ (Publish("state", FALSE) ++ Publish("contactors", FALSE))))
    <3> DEFINE forbid == Allow(FALSE)
               open == SetContactors(FALSE)
               off(p) == Publish(p, FALSE)
    <3>1. forbid \in Lists /\ open \in Lists /\ \A p \in Publisher : off(p) \in Lists
      BY PieceTypes
    <3>2. OnDeactivate = (((forbid ++ open) ++ off("motor")) ++ off("state")) ++ off("contactors")
      BY <2>0
    <3> HIDE DEF forbid, open, off
    <3>3. OnDeactivate = forbid ++ (open ++ (off("motor") ++ (off("state") ++ off("contactors"))))
      BY <3>1, <3>2, Associative5 DEF Publisher
    <3> QED BY <3>3 DEF forbid, open, off
  <2>2. Publish("contactors", FALSE) = Retiring1
    BY Accesses, ConcatEmptySeq DEF Publish, Retiring1, Switching, Then, Publisher
  <2>3. Publish("state", FALSE) ++ Retiring1 = Retiring2
    BY PartTypes, Prefixes DEF Retiring2, Publisher
  <2>4. Publish("motor", FALSE) ++ Retiring2 = Retiring3
    BY PartTypes, Prefixes DEF Retiring3, Publisher
  <2>5. OnDeactivate = Allow(FALSE) ++ Cutting(Retiring3)
    BY <2>1, <2>2, <2>3, <2>4, Contacts
  <2> QED BY <2>5, PartTypes, Prefixes
<1> QED BY <1>1, <1>2, <1>3, <1>4, <1>5, <1>6, <1>7

-----------------------------------------------------------------------------
(* Every step *)

(* The outline of an idle node says that it is settled. *)
LEMMA IdleSettled ==
  Outline(<<>>) => Settled
<1>0. \A name, value : \A rest \in Lists :
        Op(name, value) \in Access => Then(name, value, rest) # <<>>
  BY ThenTakenApart
<1>1. \A rest \in Lists : /\ Gated(rest) # <<>> /\ Stopping(rest) # <<>>
                          /\ \A s \in State : Entering(s, rest) # <<>>
                          /\ \A b \in BOOLEAN : /\ Latching(b, rest) # <<>>
                                                 /\ Commanding(b, rest) # <<>>
                                                 /\ Then("allow", b, rest) # <<>>
                                                 /\ \A p \in Publisher :
                                                      Switching(p, b, rest) # <<>>
  BY <1>0, Accesses
     DEF Gated, Stopping, Entering, Latching, Commanding, Switching, Name
<1>2. \A b \in BOOLEAN, rest \in Lists : Believing(b, rest) # <<>> /\ Comparing(b, rest) # <<>>
  BY <1>0, Accesses, ComparingTyped DEF Believing, Comparing
<1>3. \A v \in Velocity : Driving(v) # <<>> /\ Moving(v) # <<>>
  BY <1>0, Accesses, VelocityTypes, EndTypes DEF Driving, Moving
<1>4. Resting(<<>>) => Settled
  BY DEF Resting
<1>5. Working(<<>>) => Settled
  BY DEF Working
<1>6. ~Opening(<<>>)
  BY <1>1, <1>2, EndTypes, PartTypes DEF Opening, Tripping, Cutting, Ends, State
<1>7. Closing(<<>>) => Settled
  BY <1>1, PartTypes DEF Closing
<1>8. Activating(<<>>) => Settled
  <2>1. Rising1 # <<>> /\ Rising2 # <<>> /\ Rising3 # <<>>
    BY <1>1, PartTypes DEF Rising1, Rising2, Rising3, Publisher, Ends
  <2> QED BY <2>1 DEF Activating
<1>9. Deactivating(<<>>) => Settled
  <2>1. Retiring1 # <<>> /\ Retiring2 # <<>> /\ Retiring3 # <<>>
    BY <1>1, EndTypes, PartTypes DEF Retiring1, Retiring2, Retiring3, Publisher
  <2>2. Cutting(Retiring3) # <<>> /\ Believing(FALSE, Retiring3) # <<>>
        /\ Commanding(FALSE, Retiring3) # <<>>
    BY <1>1, <1>2, PartTypes DEF Cutting
  <2> QED BY <2>1, <2>2 DEF Deactivating
<1> QED BY <1>4, <1>5, <1>6, <1>7, <1>8, <1>9 DEF Outline

LEMMA OutlineUnchanged ==
  ASSUME UNCHANGED <<is_processing_allowed, publishing, e_stop_active, current_state,
                     hardware_contactors_closed, contactors, motor>>
  PROVE  \A list : Outline(list)' <=> Outline(list)
<1>1. (Settled' <=> Settled) /\ (MotorAtRest' <=> MotorAtRest)
  BY DEF Settled, MotorAtRest
<1>2. \A list : (Resting(list)' <=> Resting(list)) /\ (Working(list)' <=> Working(list))
  BY <1>1 DEF Resting, Working
<1>3. \A list : Opening(list)' <=> Opening(list)
  BY <1>1 DEF Opening
<1>4. \A list : Closing(list)' <=> Closing(list)
  BY <1>1 DEF Closing
<1>5. \A list : Activating(list)' <=> Activating(list)
  BY <1>1 DEF Activating
<1>6. \A list : Deactivating(list)' <=> Deactivating(list)
  BY <1>1 DEF Deactivating
<1> QED BY <1>2, <1>3, <1>4, <1>5, <1>6 DEF Outline

(* A callback starts when the node is settled, and it has a place in the   *)
(* outline.                                                                *)
LEMMA CallbackAdmitted ==
  ASSUME Settled
  PROVE  /\ \A v \in Velocity : SmoothedVel(v) \in Lists /\ Outline(SmoothedVel(v))
         /\ executor \in Executors =>
              \A level \in Level[executor] :
                HealthState(level) \in Lists /\ Outline(HealthState(level))
         /\ \A callback \in {MuxState, OdomMoving, EStop, EStopReset} :
              callback \in Lists /\ Outline(callback)
         /\ OnActivate \in Lists /\ OnDeactivate \in Lists
         /\ is_processing_allowed => Outline(OnDeactivate)
         /\ ~is_processing_allowed => Outline(OnActivate)
<1>1. \A rest \in Quiet \cup Admitted \cup {Cutting(<<>>)} :
        Gated(rest) \in Lists /\ Outline(Gated(rest))
  <2>1. TAKE rest \in Quiet \cup Admitted \cup {Cutting(<<>>)}
  <2>2. rest \in Lists
    BY OutlineTypes, PartTypes DEF Ends
  <2> QED BY <2>2, ListTypes DEF Outline, Resting
<1>2. /\ \A v \in Velocity : Vetting(v) \in Admitted
      /\ Report \in Quiet /\ Then("emergency", "-", Reset2) \in Quiet
      /\ Then("stopped", "-", Latching(TRUE, Tripping(Cutting(Report)))) \in Admitted
      /\ \A end \in Ends : Latching(TRUE, Tripping(Stopping(Cutting(end)))) \in Admitted
      /\ Entering("PROTECTIVE_STOP", Stopping(Cutting(<<>>))) \in Admitted
      /\ \A s \in {"PROTECTIVE_STOP", "DEGRADED"} :
           Entering(s, Stopping(Unlatched(Powering))) \in Admitted
      /\ Entering("DEGRADED", Unlatched(Powering)) \in Quiet
      /\ Unlatched(Entering("NORMAL", Powering)) \in Quiet
  BY DEF Admitted, Quiet
<1>3. \A v \in Velocity : SmoothedVel(v) \in Lists /\ Outline(SmoothedVel(v))
  BY <1>1, <1>2, CallbackLists
<1>4. ASSUME executor \in Executors, NEW level \in Level[executor]
      PROVE  HealthState(level) \in Lists /\ Outline(HealthState(level))
  <2>1. level \in {"STARTUP", "OK", "DEGRADED", "RECONFIGURED", "PROTECTIVE_STOP", "EMERGENCY",
                   "UNKNOWN"}
    BY <1>4, LevelAssumption
  <2>2. <<>> \in Ends
    BY DEF Ends
  <2>3. \E rest \in Quiet \cup Admitted \cup {Cutting(<<>>)} : HealthState(level) = Gated(rest)
    BY <1>2, <2>1, <2>2, HealthLists
  <2> QED BY <1>1, <2>3
<1>5. /\ MuxState \in Lists /\ Outline(MuxState)
      /\ OdomMoving \in Lists /\ Outline(OdomMoving)
      /\ EStop \in Lists /\ Outline(EStop)
  BY <1>1, <1>2, CallbackLists DEF Ends
<1>6. EStopReset \in Lists /\ Outline(EStopReset)
  BY <1>2, CallbackLists, OutlineTypes DEF Outline, Resting
<1>7. OnActivate \in Lists /\ OnDeactivate \in Lists
  BY CallbackLists, ListTypes, PartTypes
<1>8. is_processing_allowed => Outline(OnDeactivate)
  BY CallbackLists DEF Outline, Deactivating
<1>9. ~is_processing_allowed => Outline(OnActivate)
  BY CallbackLists DEF Outline, Activating
<1> QED BY <1>3, <1>4, <1>5, <1>6, <1>7, <1>8, <1>9

LEMMA StartKeeps ==
  ASSUME executor = "single", OneThreadInv,
         NEW t \in Thread, NEW callback \in Lists, Start(t, callback),
         Settled => Outline(callback)
  PROVE  OneThreadInv' /\ UNCHANGED contactors
<1>1. /\ AtRest /\ todo' = [todo EXCEPT ![t] = callback]
      /\ UNCHANGED <<memory, contactors, motor>>
  BY DEF Start, output
<1>2. Settled
  BY <1>1, IdleSettled DEF OneThreadInv, AtRest
<1>3. Outline(callback)' /\ Booleans'
  <2>1. UNCHANGED <<is_processing_allowed, publishing, e_stop_active, current_state,
                    hardware_contactors_closed, contactors, motor>>
    BY <1>1 DEF memory
  <2> QED BY <1>1, <1>2, <2>1, OutlineUnchanged, UnchangedSettled DEF OneThreadInv
<1>4. todo' \in [Thread -> Lists] /\ todo'[t] = callback
      /\ \A u \in Thread \ {t} : todo'[u] = <<>>
  BY <1>1 DEF OneThreadInv, AtRest
<1>5. Outline(todo[t])'
  BY <1>3, <1>4
<1> QED BY <1>1, <1>3, <1>4, <1>5 DEF OneThreadInv

LEMMA ExecuteKeeps ==
  ASSUME OneThreadInv, NEW u \in Thread, Execute(u)
  PROVE  OneThreadInv' /\ (~contactors /\ contactors' => ~e_stop_active)
<1>1. PICK t \in Thread : Outline(todo[t]) /\ \A other \in Thread \ {t} : todo[other] = <<>>
  BY DEF OneThreadInv
<1>2. todo[u] # <<>>
  BY DEF Execute, ReadGate, ReadLatch, ReadStopped, ReadEmergency, Guard, VetoLatch, VetoState,
         Veto, WriteAllowed, SwitchPublisher, WriteLatch, WriteState, CompareBelief, WriteBelief,
         CommandContactors, CommandMotor, ReportState, At
<1>3. u = t
  BY <1>1, <1>2
<1>4. Advances(t)
  BY <1>1, <1>3, OutlineAdvances DEF OneThreadInv
<1>5. PICK next \in Lists : todo' = [todo EXCEPT ![t] = next] /\ Outline(next)'
  BY <1>4 DEF Advances
<1>6. /\ todo' \in [Thread -> Lists] /\ todo'[t] = next
      /\ \A other \in Thread \ {t} : todo'[other] = <<>>
  BY <1>1, <1>5 DEF OneThreadInv
<1>7. Outline(todo[t])'
  BY <1>5, <1>6
<1> QED BY <1>4, <1>6, <1>7 DEF OneThreadInv, Advances

LEMMA NextKeeps ==
  ASSUME Inv, executor \in Executors, [Next]_vars
  PROVE  /\ Inv' /\ executor' \in Executors
         /\ executor = "single" /\ ~contactors /\ contactors' => ~e_stop_active
<1>1. executor' = executor
  BY DEF Next, vars
<1>2. SUFFICES ASSUME executor = "single", OneThreadInv
               PROVE  OneThreadInv' /\ (~contactors /\ contactors' => ~e_stop_active)
  BY <1>1 DEF Inv
<1>3. CASE UNCHANGED vars
  <2>1. UNCHANGED <<memory, contactors, motor, todo>>
    BY <1>3 DEF vars, process, output
  <2>2. \A t \in Thread : Outline(todo[t]) => Outline(todo[t])'
    <3>1. UNCHANGED <<is_processing_allowed, publishing, e_stop_active, current_state,
                      hardware_contactors_closed, contactors, motor>>
      BY <2>1 DEF memory
    <3> QED BY <2>1, <3>1, OutlineUnchanged
  <2> QED BY <1>2, <2>1, <2>2, UnchangedSettled DEF OneThreadInv
<1>4. ASSUME NEW t \in Reentrant, ServeReentrant(t)
      PROVE  OneThreadInv' /\ UNCHANGED contactors
  <2>1. t \in Thread
    BY DEF Thread
  <2>2. CASE ServeSmoothed(t)
    <3>1. PICK v \in Velocity : Start(t, SmoothedVel(v))
      BY <2>2 DEF ServeSmoothed
    <3>2. SmoothedVel(v) \in Lists /\ (Settled => Outline(SmoothedVel(v)))
      BY CallbackAdmitted, CallbackLists, ListTypes, VelocityTypes
    <3> QED BY <1>2, <2>1, <3>1, <3>2, StartKeeps
  <2>3. ASSUME NEW level \in Level[executor], Start(t, HealthState(level))
        PROVE  OneThreadInv' /\ UNCHANGED contactors
    <3>1. Settled
      BY <1>2, <2>1, <2>3, IdleSettled DEF Start, AtRest, OneThreadInv
    <3> QED BY <1>2, <2>1, <2>3, <3>1, CallbackAdmitted, StartKeeps
  <2>4. CASE Start(t, MuxState)
    <3>1. Settled
      BY <1>2, <2>1, <2>4, IdleSettled DEF Start, AtRest, OneThreadInv
    <3> QED BY <1>2, <2>1, <2>4, <3>1, CallbackAdmitted, StartKeeps
  <2> QED BY <1>4, <2>2, <2>3, <2>4 DEF ServeReentrant
<1>5. CASE ServeDefault
  <2>1. Default \in Thread
    BY DEF Thread
  <2>2. Settled
    BY <1>2, <1>5, <2>1, IdleSettled DEF ServeDefault, Start, AtRest, OneThreadInv
  <2>3. CASE \E callback \in {OdomMoving, EStop, EStopReset} : Start(Default, callback)
    BY <1>2, <2>1, <2>2, <2>3, CallbackAdmitted, StartKeeps
  <2>4. CASE is_processing_allowed /\ Start(Default, OnDeactivate)
    BY <1>2, <2>1, <2>2, <2>4, CallbackAdmitted, StartKeeps
  <2>5. CASE ~is_processing_allowed /\ Start(Default, OnActivate)
    BY <1>2, <2>1, <2>2, <2>5, CallbackAdmitted, StartKeeps
  <2> QED BY <1>5, <2>3, <2>4, <2>5 DEF ServeDefault
<1> QED BY <1>2, <1>3, <1>4, <1>5, ExecuteKeeps DEF Next

LEMMA InitInv == Init => Inv /\ executor \in Executors
<1>1. SUFFICES ASSUME Init PROVE OneThreadInv /\ executor \in Executors
  BY DEF Inv
<1>2. Settled /\ Booleans
  BY <1>1 DEF Init, Settled, Booleans
<1>3. <<>> \in Lists /\ Outline(<<>>)
  BY <1>2, EndTypes DEF Outline, Resting, Quiet
<1>4. todo \in [Thread -> Lists] /\ Default \in Thread /\ \A t \in Thread : todo[t] = <<>>
  BY <1>1, <1>3 DEF Init, Thread
<1> QED BY <1>1, <1>2, <1>3, <1>4 DEF OneThreadInv, Init

LEMMA InvCorrect == Spec => [](Inv /\ executor \in Executors)
<1>1. (Inv /\ executor \in Executors) /\ [Next]_vars => (Inv /\ executor \in Executors)'
  BY NextKeeps
<1> QED BY <1>1, InitInv, PTL DEF Spec

-----------------------------------------------------------------------------
(* In one thread, whatever the order in which callbacks and transitions    *)
(* are run, the node keeps all four promises: whenever none of them is in  *)
(* progress, a set latch holds the contactors open and the motor at zero,  *)
(* an inactive node does not power the motors, and the belief that         *)
(* set_hardware_contactors trusts covers what was commanded.               *)
THEOREM PromisesCorrect == Spec => []OneThreadKeepsPromises
<1>1. Inv => OneThreadKeepsPromises
  <2>1. SUFFICES ASSUME executor = "single", OneThreadInv, AtRest
                 PROVE  /\ e_stop_active => ~contactors /\ motor = 0
                        /\ ~is_processing_allowed => ~contactors
                        /\ contactors => hardware_contactors_closed
    BY DEF Inv, OneThreadKeepsPromises, EStopHoldsContactors, EStopHoldsMotor, NoZombiePower,
           BeliefIsCommand
  <2>2. Settled
    BY <2>1, IdleSettled DEF OneThreadInv, AtRest
  <2> QED BY <2>2 DEF Settled
<1> QED BY <1>1, InvCorrect, PTL

(* In one thread no access of any callback switches power on over a set    *)
(* latch: on every path to the command that closes, the latch was read as  *)
(* clear, or cleared, after it could last be set.                          *)
THEOREM PowerUpCorrect == Spec => PowerOnlyUnlatched
<1>1. (Inv /\ executor \in Executors) /\ [Next]_vars
        => [executor = "single" /\ ~contactors /\ contactors' => ~e_stop_active]_vars
  BY NextKeeps
<1> QED BY <1>1, InvCorrect, PTL DEF Spec, PowerOnlyUnlatched
=============================================================================
