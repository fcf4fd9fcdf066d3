------------------------- MODULE LidarMergerProofs -------------------------
(***************************************************************************)
(* Proofs about LidarMerger for any outcomes of the projection and any     *)
(* depth of the power queue: the pointers fused_callback dereferences, the *)
(* arithmetic of the merged cloud, and the last word on power.             *)
(***************************************************************************)
EXTENDS LidarMerger, SequenceTheorems, TLAPS

-----------------------------------------------------------------------------
(* The resources *)

(* ActiveIsEquipped is not inductive: on_activate needs what on_configure  *)
(* has left, and on_error that a cleanup has taken the synchronizer away.  *)
Equipped ==
  /\ ActiveIsEquipped
  /\ lifecycle = "INACTIVE" => publisher = "inactive" /\ sync /\ tf_buffer /\ power_sub
  /\ lifecycle = "UNCONFIGURED" => publisher = "none" /\ ~sync

LEMMA EquippedInv == Spec => []Equipped
<1>1. Init => Equipped
  BY DEF Init, Equipped, ActiveIsEquipped
<1>2. Equipped /\ [Next]_vars => Equipped'
  <2> SUFFICES ASSUME Equipped, [Next]_vars PROVE Equipped'
    OBVIOUS
  <2> USE DEF Equipped, ActiveIsEquipped
  <2>1. CASE OnConfigure \/ OnConfigureThrows
    BY <2>1 DEF OnConfigure, OnConfigureThrows
  <2>2. CASE OnActivate \/ OnDeactivate
    BY <2>2 DEF OnActivate, OnDeactivate
  <2>3. CASE OnCleanup \/ OnShutdown \/ Unload
    BY <2>3 DEF OnCleanup, OnShutdown, Unload
  <2>4. CASE UNCHANGED <<lifecycle, resources>>
    BY <2>4 DEF resources
  <2> QED BY <2>1, <2>2, <2>3, <2>4
        DEF Next, Transitions, PowerCallback, FusedCallback, SwitchPower, vars
<1> QED BY <1>1, <1>2, PTL DEF Spec

(* fused_callback dereferences publisher_ and tf_buffer_ of an active node *)
(* only, and there they are never null.                                    *)
THEOREM EquippedCorrect == Spec => []ActiveIsEquipped
<1>1. Equipped => ActiveIsEquipped
  BY DEF Equipped
<1> QED BY <1>1, EquippedInv, PTL

-----------------------------------------------------------------------------
(* One turn of the loop over the scans *)

Outcomes == [ok : BOOLEAN, points : Nat, step : Nat \ {0}, is_dense : BOOLEAN]

LEMMA Products ==
  ASSUME NEW a \in Nat, NEW b \in Nat, NEW s \in Nat \ {0}
  PROVE  /\ a * s \in Nat
         /\ a * s = 0 <=> a = 0
         /\ (a + b) * s = a * s + b * s
  OBVIOUS

(* What the loop maintains whatever the scans are: there are data exactly  *)
(* if there are points, and none in a cloud without fields.                *)
Counted(c) ==
  /\ c.height \in {0, 1} /\ c.width \in Nat /\ c.size \in Nat /\ c.is_dense \in BOOLEAN
  /\ c.size = 0 <=> c.width = 0
  /\ c.height = 0 => c.size = 0
  /\ c.parts \in Seq(Scan)
  /\ c.width = 0 => c.parts = <<>>

(* What one scan adds to it. *)
Some(q) == q.ok /\ q.points > 0
Count(q) == IF Some(q) THEN q.points ELSE 0
Part(scan, q) == IF Some(q) THEN <<scan>> ELSE <<>>

Adds(d, c, scan, q) ==
  /\ d.width = c.width + Count(q)
  /\ d.parts = c.parts \o Part(scan, q)
  /\ d.height = 0 <=> c.height = 0 /\ ~q.ok
  /\ d.is_dense /\ d.width > 0 => (c.width > 0 => c.is_dense) /\ (Some(q) => q.is_dense)

LEMMA ExtendCounts ==
  ASSUME NEW c, Counted(c), NEW scan \in Scan, NEW q \in Outcomes
  PROVE  Counted(Extend(c, scan, q)) /\ Adds(Extend(c, scan, q), c, scan, q)
<1>1. /\ q.ok \in BOOLEAN /\ q.points \in Nat /\ q.step \in Nat \ {0}
      /\ q.is_dense \in BOOLEAN
  BY DEF Outcomes
<1>2. q.points * q.step \in Nat /\ (q.points * q.step = 0 <=> q.points = 0)
  BY <1>1, Products
<1>3. c.parts \o <<>> = c.parts /\ <<>> \o <<scan>> = <<scan>> /\ <<>> \o <<>> = <<>>
  BY ConcatEmptySeq DEF Counted
<1>4. <<scan>> \in Seq(Scan) /\ c.parts \o <<scan>> \in Seq(Scan)
  BY DEF Counted
<1>5. CASE ~q.ok
  <2>1. Extend(c, scan, q) = c
    BY <1>5 DEF Extend
  <2> QED BY <1>1, <1>3, <1>5, <2>1 DEF Counted, Adds, Some, Count, Part
<1>6. CASE q.ok /\ c.size = 0
  <2> DEFINE d == CloudOut(scan, q)
  <2>1. Extend(c, scan, q) = d
    BY <1>6 DEF Extend
  <2>2. /\ d.height = 1 /\ d.width = q.points /\ d.size = q.points * q.step
        /\ d.is_dense = q.is_dense /\ d.parts = IF q.points = 0 THEN <<>> ELSE <<scan>>
    BY DEF CloudOut
  <2> HIDE DEF d
  <2>3. Counted(d)
    BY <1>1, <1>2, <1>4, <2>2 DEF Counted
  <2>4. c.width = 0 /\ c.parts = <<>>
    BY <1>6 DEF Counted
  <2>5. Adds(d, c, scan, q)
    BY <1>1, <1>3, <1>6, <2>2, <2>4 DEF Adds, Some, Count, Part
  <2> QED BY <2>1, <2>3, <2>5
<1>7. CASE q.ok /\ c.size # 0
  <2> DEFINE e == CloudOut(scan, q)
             d == Concatenate(c, e)
  <2>1. Extend(c, scan, q) = d
    BY <1>7 DEF Extend
  <2>2. /\ e.width = q.points /\ e.size = q.points * q.step
        /\ e.is_dense = q.is_dense /\ e.parts = IF q.points = 0 THEN <<>> ELSE <<scan>>
    BY DEF CloudOut
  <2> HIDE DEF e
  <2>3. /\ d.height = c.height /\ d.width = c.width + e.width /\ d.size = c.size + e.size
        /\ d.is_dense = (c.is_dense /\ e.is_dense) /\ d.parts = c.parts \o e.parts
    BY DEF Concatenate
  <2> HIDE DEF d
  <2>4. c.height = 1 /\ c.width > 0
    BY <1>7 DEF Counted
  <2>5. Counted(d)
    <3>1. d.width \in Nat /\ d.size \in Nat /\ d.width > 0 /\ d.size > 0
      BY <1>1, <1>2, <1>7, <2>2, <2>3, <2>4 DEF Counted
    <3>2. d.parts \in Seq(Scan)
      BY <1>3, <1>4, <2>2, <2>3 DEF Counted
    <3>3. d.is_dense \in BOOLEAN /\ d.height \in {0, 1} /\ d.height # 0
      BY <2>3, <2>4
    <3> QED BY <3>1, <3>2, <3>3 DEF Counted
  <2>6. d.width = c.width + Count(q) /\ d.parts = c.parts \o Part(scan, q)
    <3>1. Count(q) = e.width
      BY <1>1, <1>7, <2>2 DEF Some, Count
    <3>2. Part(scan, q) = e.parts
      BY <1>1, <1>7, <2>2 DEF Some, Part
    <3> QED BY <2>3, <3>1, <3>2
  <2>7. Adds(d, c, scan, q)
    BY <1>7, <2>2, <2>3, <2>4, <2>6 DEF Adds, Counted
  <2> QED BY <2>1, <2>5, <2>7
<1> QED BY <1>1, <1>5, <1>6, <1>7

(* The cloud published last is what the last four scans combine to.        *)
Published ==
  input = <<>> \/ (input \in [Scan -> Projection] /\ cloud = Combined(input))

LEMMA PublishedInv == Spec => []Published
<1>1. Init => Published
  BY DEF Init, Published
<1>2. Published /\ [Next]_vars => Published'
  <2> SUFFICES ASSUME Published, [Next]_vars PROVE Published'
    OBVIOUS
  <2>1. CASE UNCHANGED output
    BY <2>1 DEF Published, output
  <2>2. CASE FusedCallback
    BY <2>2 DEF FusedCallback, Published
  <2> QED BY <2>1, <2>2
        DEF Next, Transitions, OnConfigure, OnConfigureThrows, OnActivate, OnDeactivate,
            OnCleanup, OnShutdown, Unload, PowerCallback, SwitchPower, vars
<1> QED BY <1>1, <1>2, PTL DEF Spec

(* Every scan that projected is in the cloud, in order and once, its       *)
(* points are counted, and one that is not dense makes the cloud so.       *)
THEOREM MergeCorrect == Spec => []MergedAllThatProjected
<1>1. Published => MergedAllThatProjected
  <2> SUFFICES ASSUME input \in [Scan -> Projection], cloud = Combined(input)
               PROVE  MergedAllThatProjected
    BY DEF Published, MergedAllThatProjected
  <2> DEFINE q(s) == input[s]
             c1 == Extend(NoCloud, "front", q("front"))
             c2 == Extend(c1, "back", q("back"))
             c3 == Extend(c2, "left", q("left"))
  <2>1. \A s \in Scan : q(s) \in Outcomes
    BY ProjectionAssumption DEF Outcomes
  <2>2. Counted(NoCloud)
    BY DEF Counted, NoCloud
  <2>3. Counted(c1) /\ Adds(c1, NoCloud, "front", q("front"))
    BY <2>1, <2>2, ExtendCounts DEF Scan
  <2> HIDE DEF c1
  <2>4. Counted(c2) /\ Adds(c2, c1, "back", q("back"))
    BY <2>1, <2>3, ExtendCounts DEF Scan
  <2> HIDE DEF c2
  <2>5. Counted(c3) /\ Adds(c3, c2, "left", q("left"))
    BY <2>1, <2>4, ExtendCounts DEF Scan
  <2> HIDE DEF c3
  <2>6. Counted(cloud) /\ Adds(cloud, c3, "right", q("right"))
    <3>1. cloud = Extend(c3, "right", q("right"))
      BY DEF Combined, c1, c2, c3
    <3> QED BY <2>1, <2>5, <3>1, ExtendCounts DEF Scan
  <2>7. NoCloud.width = 0 /\ NoCloud.parts = <<>> /\ NoCloud.height = 0
    BY DEF NoCloud
  <2>8. \A s \in Scan : Count(q(s)) \in Nat /\ (Some(q(s)) => Count(q(s)) > 0)
    BY <2>1 DEF Count, Some, Outcomes
  <2> HIDE DEF q
  <2>9. cloud.parts = Part("front", q("front")) \o Part("back", q("back"))
                        \o Part("left", q("left")) \o Part("right", q("right"))
    <3>1. <<>> \o Part("front", q("front")) = Part("front", q("front"))
      BY DEF Part
    <3> QED BY <2>3, <2>4, <2>5, <2>6, <2>7, <3>1 DEF Adds
  <2>10. cloud.width = Count(q("front")) + Count(q("back")) + Count(q("left")) + Count(q("right"))
    BY <2>3, <2>4, <2>5, <2>6, <2>7, <2>8 DEF Adds, Scan
  <2>11. cloud.height = 0 <=> \A s \in Scan : ~q(s).ok
    BY <2>3, <2>4, <2>5, <2>6, <2>7 DEF Adds, Scan
  <2>12. ASSUME cloud.is_dense, cloud.width > 0, NEW s \in Scan, Some(q(s))
         PROVE  q(s).is_dense
    <3>1. c1.width \in Nat /\ c2.width \in Nat /\ c3.width \in Nat
      BY <2>3, <2>4, <2>5 DEF Counted
    <3>2. (c3.width > 0 => c3.is_dense) /\ (Some(q("right")) => q("right").is_dense)
      BY <2>6, <2>12 DEF Adds
    <3>3. /\ c2.width > 0 => c2.is_dense
          /\ Some(q("left")) => q("left").is_dense
      BY <2>5, <2>8, <3>1, <3>2 DEF Adds, Scan
    <3>4. /\ c1.width > 0 => c1.is_dense
          /\ Some(q("back")) => q("back").is_dense
      BY <2>4, <2>8, <3>1, <3>3 DEF Adds, Scan
    <3>5. Some(q("front")) => q("front").is_dense
      BY <2>3, <2>7, <2>8, <3>1, <3>4 DEF Adds, Scan
    <3> QED BY <2>12, <3>2, <3>3, <3>4, <3>5 DEF Scan
  <2> QED BY <2>9, <2>10, <2>11, <2>12 DEF MergedAllThatProjected, Some, Count, Part, q
<1> QED BY <1>1, PublishedInv, PTL

-----------------------------------------------------------------------------
(* The header *)

(* A cloud whose points have the layout step, in one row or in none.       *)
Described(c, step) ==
  /\ c.height \in {0, 1} /\ c.width \in Nat /\ c.row_step \in Nat
  /\ c.row_step = c.width * c.point_step
  /\ c.size = c.row_step * c.height
  /\ c.height = 1 => c.point_step = step

LEMMA ExtendDescribes ==
  ASSUME NEW c, NEW step \in Nat \ {0}, Described(c, step), NEW scan \in Scan,
         NEW q \in Outcomes, q.ok => q.step = step
  PROVE  Described(Extend(c, scan, q), step)
<1>1. q.points \in Nat /\ q.step \in Nat \ {0} /\ q.points * q.step \in Nat
  BY Products DEF Outcomes
<1>2. CASE ~q.ok
  BY <1>2 DEF Extend
<1>3. CASE q.ok /\ c.size = 0
  <2>1. Extend(c, scan, q) = CloudOut(scan, q)
    BY <1>3 DEF Extend
  <2> QED BY <1>1, <1>3, <2>1 DEF CloudOut, Described
<1>4. CASE q.ok /\ c.size # 0
  <2> DEFINE d == Concatenate(c, CloudOut(scan, q))
  <2>1. Extend(c, scan, q) = d
    BY <1>4 DEF Extend
  <2>2. /\ d.height = c.height /\ d.width = c.width + q.points
        /\ d.point_step = c.point_step
        /\ d.row_step = (c.width + q.points) * c.point_step
        /\ d.size = c.size + q.points * q.step
    BY DEF Concatenate, CloudOut
  <2> HIDE DEF d
  <2>3. c.height # 0
    <3>1. c.row_step \in Nat /\ c.size = c.row_step * c.height
      BY DEF Described
    <3> QED BY <1>4, <3>1
  <2>4. c.height = 1 /\ c.point_step = step /\ c.width \in Nat
    BY <2>3 DEF Described
  <2>5. c.width * step \in Nat /\ (c.width + q.points) * step = c.width * step + q.points * step
    BY <1>1, <2>4, Products
  <2>6. c.size = c.width * step
    BY <2>4, <2>5 DEF Described
  <2>7. (c.width + q.points) * step \in Nat
    BY <1>1, <2>4, <2>5
  <2>8. d.size = d.row_step * d.height
    BY <1>1, <1>4, <2>2, <2>4, <2>5, <2>6, <2>7
  <2> QED BY <1>1, <2>1, <2>2, <2>4, <2>7, <2>8 DEF Described
<1> QED BY <1>2, <1>3, <1>4 DEF Outcomes

(* With scanners of one layout the header of every merged cloud describes  *)
(* its data: row_step and data.size() follow from width and point_step.    *)
THEOREM HeaderCorrect == Spec => []HeaderMatchesData
<1>1. Published => HeaderMatchesData
  <2> SUFFICES ASSUME input \in [Scan -> Projection], cloud = Combined(input), Uniform(input)
               PROVE  /\ cloud.row_step = cloud.width * cloud.point_step
                      /\ cloud.size = cloud.row_step * cloud.height
    BY DEF Published, HeaderMatchesData
  <2> DEFINE q(s) == input[s]
  <2>1. \A s \in Scan : q(s) \in Outcomes
    BY ProjectionAssumption DEF Outcomes
  <2>2. PICK step \in Nat \ {0} : \A s \in Scan : q(s).ok => q(s).step = step
    <3>1. CASE \E s \in Scan : q(s).ok
      <4>1. PICK t \in Scan : q(t).ok
        BY <3>1
      <4>2. q(t).step \in Nat \ {0}
        BY <2>1 DEF Outcomes
      <4> QED BY <4>1, <4>2 DEF Uniform
    <3>2. CASE ~ \E s \in Scan : q(s).ok
      <4>1. 1 \in Nat \ {0}
        OBVIOUS
      <4> QED BY <3>2, <4>1
    <3> QED BY <3>1, <3>2
  <2> HIDE DEF q
  <2> DEFINE c1 == Extend(NoCloud, "front", q("front"))
             c2 == Extend(c1, "back", q("back"))
             c3 == Extend(c2, "left", q("left"))
  <2>3. Described(NoCloud, step)
    BY DEF Described, NoCloud
  <2>4. Described(c1, step)
    BY <2>1, <2>2, <2>3, ExtendDescribes DEF Scan
  <2> HIDE DEF c1
  <2>5. Described(c2, step)
    BY <2>1, <2>2, <2>4, ExtendDescribes DEF Scan
  <2> HIDE DEF c2
  <2>6. Described(c3, step)
    BY <2>1, <2>2, <2>5, ExtendDescribes DEF Scan
  <2> HIDE DEF c3
  <2>7. cloud = Extend(c3, "right", q("right"))
    BY DEF Combined, c1, c2, c3, q
  <2>8. Described(cloud, step)
    BY <2>1, <2>2, <2>6, <2>7, ExtendDescribes DEF Scan
  <2> QED BY <2>8 DEF Described
<1> QED BY <1>1, PublishedInv, PTL

-----------------------------------------------------------------------------
(* Power *)

PowerTyped == has_power \in BOOLEAN /\ power_queue \in Seq(BOOLEAN)

LEMMA PowerInv == Spec => []PowerTyped
<1>1. Init => PowerTyped
  BY DEF Init, PowerTyped
<1>2. PowerTyped /\ [Next]_vars => PowerTyped'
  <2> SUFFICES ASSUME PowerTyped, [Next]_vars PROVE PowerTyped'
    OBVIOUS
  <2>1. CASE UNCHANGED power
    BY <2>1 DEF PowerTyped, power
  <2>2. CASE PowerCallback
    BY <2>2, HeadTailProperties DEF PowerCallback, PowerTyped
  <2>3. ASSUME NEW on \in BOOLEAN, SwitchPower(on) PROVE PowerTyped'
    <3>1. Append(power_queue, on) \in Seq(BOOLEAN) /\ Append(power_queue, on) # <<>>
      BY AppendProperties DEF PowerTyped
    <3>2. Tail(Append(power_queue, on)) \in Seq(BOOLEAN)
      BY <3>1, HeadTailProperties
    <3> QED BY <2>3, <3>1, <3>2 DEF SwitchPower, PowerTyped
  <2>4. CASE OnConfigure \/ Unload
    <3>1. <<>> \in Seq(BOOLEAN)
      OBVIOUS
    <3> QED BY <2>4, <3>1 DEF OnConfigure, Unload, PowerTyped
  <2> QED BY <2>1, <2>2, <2>3, <2>4
        DEF Next, Transitions, OnConfigureThrows, OnActivate, OnDeactivate, OnCleanup,
            OnShutdown, FusedCallback, vars
<1> QED BY <1>1, <1>2, PTL DEF Spec

(* Handling a message does not change what the gate will come to.          *)
LEMMA HandlingKeepsLastWord ==
  ASSUME PowerTyped, PowerCallback
  PROVE  PowerToCome' = PowerToCome
<1>1. /\ power_queue # <<>> /\ has_power' = Head(power_queue)
      /\ power_queue' = Tail(power_queue)
  BY DEF PowerCallback
<1>2. /\ Len(Tail(power_queue)) = Len(power_queue) - 1
      /\ \A i \in 1..Len(Tail(power_queue)) : Tail(power_queue)[i] = power_queue[i + 1]
      /\ Tail(power_queue) \in Seq(BOOLEAN)
  BY <1>1, HeadTailProperties DEF PowerTyped
<1>3. Len(power_queue) \in Nat \ {0} /\ Head(power_queue) = power_queue[1]
  BY <1>1, HeadTailProperties, EmptySeq DEF PowerTyped
<1>4. CASE Len(power_queue) = 1
  BY <1>1, <1>2, <1>3, <1>4, EmptySeq DEF PowerToCome
<1>5. CASE Len(power_queue) > 1
  <2>1. Len(Tail(power_queue)) # 0
    BY <1>2, <1>3, <1>5
  <2>2. Tail(power_queue) # <<>>
    <3>1. Len(<<>>) = 0
      OBVIOUS
    <3> QED BY <2>1, <3>1
  <2> QED BY <1>1, <1>2, <1>3, <1>5, <2>2 DEF PowerToCome
<1>6. Len(power_queue) = 1 \/ Len(power_queue) > 1
  <2> DEFINE n == Len(power_queue)
  <2>1. n \in Nat \ {0}
    BY <1>3
  <2> HIDE DEF n
  <2>2. n = 1 \/ n > 1
    BY <2>1
  <2> QED BY <2>2 DEF n
<1> QED BY <1>4, <1>5, <1>6

(* What the gate comes to is the last message sent, until a configuration  *)
(* or the unloading of the component drops what was queued.                *)
THEOREM LastWordCorrect == Spec => LastWordOnPower
<1>1. PowerTyped /\ [Next]_vars =>
        (PowerToCome' # PowerToCome =>
           \/ \E on \in BOOLEAN : SwitchPower(on)
           \/ power_queue # <<>> /\ (OnConfigure \/ Unload))
  <2> SUFFICES ASSUME PowerTyped, [Next]_vars, ~ \E on \in BOOLEAN : SwitchPower(on),
                      power_queue = <<>> \/ ~(OnConfigure \/ Unload)
               PROVE  PowerToCome' = PowerToCome
    OBVIOUS
  <2>1. CASE UNCHANGED power
    BY <2>1 DEF power, PowerToCome
  <2>2. CASE PowerCallback
    BY <2>2, HandlingKeepsLastWord
  <2>3. CASE (OnConfigure \/ Unload) /\ power_queue = <<>>
    BY <2>3 DEF OnConfigure, Unload, PowerToCome
  <2> QED BY <2>1, <2>2, <2>3
        DEF Next, Transitions, OnConfigureThrows, OnActivate, OnDeactivate, OnCleanup,
            OnShutdown, FusedCallback, vars
<1> QED BY <1>1, PowerInv, PTL DEF Spec, LastWordOnPower
=============================================================================
