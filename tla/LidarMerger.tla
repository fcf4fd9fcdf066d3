----------------------------- MODULE LidarMerger -----------------------------
(***************************************************************************)
(* LidarMergerNode of mona_perception: the lifecycle of its resources, the *)
(* power gate, and the merging of four projected scans into one cloud.     *)
(*                                                                         *)
(* Subscriptions, the synchronizer they feed and the lifecycle services    *)
(* are all in the node's default group, so that every callback is one step *)
(* also under component_container_mt. The projection itself belongs to     *)
(* laser_geometry: here a scan either fails to project (no transform yet)  *)
(* or yields a number of points in some layout. A layout is its            *)
(* point_step: it depends on whether the scanner reports intensities.      *)
(***************************************************************************)
EXTENDS Integers, Sequences

CONSTANTS
  Projection,     \* outcomes of transformLaserScanToPointCloud
  PowerDepth      \* messages the power subscription keeps, 10 in the code

ASSUME ProjectionAssumption ==
  Projection \subseteq [ok : BOOLEAN, points : Nat, step : Nat \ {0}, is_dense : BOOLEAN]
ASSUME DepthAssumption == PowerDepth \in Nat \ {0}

Scan == {"front", "back", "left", "right"}
Lifecycle == {"UNCONFIGURED", "INACTIVE", "ACTIVE", "FINALIZED", "UNLOADED"}

VARIABLES
  lifecycle,
  publisher,      \* publisher_: null, created, or created and activated
  sync,           \* sync_ exists: scans reach fused_callback
  tf_buffer,      \* tf_buffer_ and tf_listener_ exist
  power_sub,      \* power_sub_ exists
  has_power,
  power_queue,    \* hardware/power/perception_pc, not yet delivered
  input,          \* what the scans of the last published cloud projected to
  cloud           \* the last cloud published, NoCloud before the first

resources == <<publisher, sync, tf_buffer, power_sub>>
power == <<has_power, power_queue>>
output == <<input, cloud>>
vars == <<lifecycle, resources, power, output>>

-----------------------------------------------------------------------------
(* The merged cloud *)

Cloud ==
  [height : {0, 1}, width : Nat, point_step : Nat, row_step : Nat, size : Nat,
   is_dense : BOOLEAN, parts : Seq(Scan)]

(* A default-constructed message: no fields, no points. size stands for    *)
(* data.size(), parts for what the bytes in data are, in their order.      *)
NoCloud ==
  [height |-> 0, width |-> 0, point_step |-> 0, row_step |-> 0, size |-> 0,
   is_dense |-> FALSE, parts |-> <<>>]

(* What laser_geometry makes of one scan. *)
CloudOut(scan, p) ==
  [height |-> 1, width |-> p.points, point_step |-> p.step,
   row_step |-> p.points * p.step, size |-> p.points * p.step,
   is_dense |-> p.is_dense, parts |-> IF p.points = 0 THEN <<>> ELSE <<scan>>]

(* Seeded fault: the row grows by the size of what is added.               *)
ConcatenateRowBySize(base, add) ==
  [base EXCEPT !.size = base.size + add.size, !.parts = base.parts \o add.parts,
               !.width = base.width + add.width, !.row_step = base.row_step + base.point_step,
               !.is_dense = base.is_dense /\ add.is_dense]

(* concatenate_pointclouds: point_step stays that of the base. *)
Concatenate(base, add) ==
  [height |-> base.height, width |-> base.width + add.width, point_step |-> base.point_step,
   row_step |-> (base.width + add.width) * base.point_step, size |-> base.size + add.size,
   is_dense |-> base.is_dense /\ add.is_dense, parts |-> base.parts \o add.parts]

(* Seeded fault: every scan but the first is appended, also to nothing.    *)
ExtendFirstOnly(base, scan, p) ==
  IF ~p.ok THEN base
  ELSE IF scan = "front" THEN CloudOut(scan, p)
  ELSE Concatenate(base, CloudOut(scan, p))

(* One turn of the loop over the scans: a failed projection is skipped, and *)
(* as long as there is no data the new cloud replaces the old.             *)
Extend(base, scan, p) ==
  IF ~p.ok THEN base
  ELSE IF base.size = 0 THEN CloudOut(scan, p)
  ELSE Concatenate(base, CloudOut(scan, p))

Combined(p) ==
  Extend(Extend(Extend(Extend(NoCloud, "front", p["front"]), "back", p["back"]),
                "left", p["left"]), "right", p["right"])

-----------------------------------------------------------------------------
TypeOK ==
  /\ lifecycle \in Lifecycle
  /\ publisher \in {"none", "inactive", "active"}
  /\ sync \in BOOLEAN
  /\ tf_buffer \in BOOLEAN
  /\ power_sub \in BOOLEAN
  /\ has_power \in BOOLEAN
  /\ power_queue \in Seq(BOOLEAN)
  /\ input \in [Scan -> Projection] \cup {<<>>}
  /\ cloud \in Cloud

(* The member initializer assumes power. *)
Init ==
  /\ lifecycle = "UNCONFIGURED"
  /\ publisher = "none" /\ sync = FALSE /\ tf_buffer = FALSE /\ power_sub = FALSE
  /\ has_power = TRUE /\ power_queue = <<>>
  /\ input = <<>> /\ cloud = NoCloud

-----------------------------------------------------------------------------
(* Lifecycle transitions *)

(* A new power subscription takes the place of one that a cleanup has left *)
(* behind; what that one had queued is gone.                               *)
OnConfigure ==
  /\ lifecycle = "UNCONFIGURED"
  /\ lifecycle' = "INACTIVE"
  /\ publisher' = "inactive"
  /\ sync' = TRUE /\ tf_buffer' = TRUE /\ power_sub' = TRUE
  /\ power_queue' = <<>>
  /\ UNCHANGED <<has_power, output>>

(* A parameter of another type throws while it is read; on_error resets    *)
(* the publisher and refuses to recover.                                   *)
OnConfigureThrows ==
  /\ lifecycle = "UNCONFIGURED"
  /\ lifecycle' = "FINALIZED"
  /\ publisher' = "none"
  /\ UNCHANGED <<sync, tf_buffer, power_sub, power, output>>

OnActivate ==
  /\ lifecycle = "INACTIVE"
  /\ lifecycle' = "ACTIVE"
  /\ publisher' = "active"
  /\ UNCHANGED <<sync, tf_buffer, power_sub, power, output>>

OnDeactivate ==
  /\ lifecycle = "ACTIVE"
  /\ lifecycle' = "INACTIVE"
  /\ publisher' = "inactive"
  /\ UNCHANGED <<sync, tf_buffer, power_sub, power, output>>

(* Seeded fault: the power subscription is released with the others.       *)
OnCleanupPowerToo ==
  /\ lifecycle = "INACTIVE"
  /\ lifecycle' = "UNCONFIGURED"
  /\ publisher' = "none"
  /\ sync' = FALSE /\ tf_buffer' = FALSE /\ power_sub' = FALSE
  /\ power_queue' = <<>>
  /\ UNCHANGED <<has_power, output>>

(* The power subscription is not released: the gate goes on following it.  *)
OnCleanup ==
  /\ lifecycle = "INACTIVE"
  /\ lifecycle' = "UNCONFIGURED"
  /\ publisher' = "none"
  /\ sync' = FALSE /\ tf_buffer' = FALSE
  /\ UNCHANGED <<power_sub, power, output>>

(* Seeded fault: the publisher is released, the state is left to the user. *)
OnShutdownStayingActive ==
  /\ lifecycle \in {"UNCONFIGURED", "INACTIVE", "ACTIVE"}
  /\ lifecycle' \in {lifecycle, "FINALIZED"}
  /\ publisher' = "none"
  /\ sync' = FALSE
  /\ UNCHANGED <<tf_buffer, power_sub, power, output>>

OnShutdown ==
  /\ lifecycle \in {"UNCONFIGURED", "INACTIVE", "ACTIVE"}
  /\ lifecycle' = "FINALIZED"
  /\ publisher' = "none"
  /\ sync' = FALSE
  /\ UNCHANGED <<tf_buffer, power_sub, power, output>>

(* The destructor, in whatever state the container unloads the component.  *)
Unload ==
  /\ lifecycle # "UNLOADED"
  /\ lifecycle' = "UNLOADED"
  /\ publisher' = "none"
  /\ sync' = FALSE /\ tf_buffer' = FALSE /\ power_sub' = FALSE
  /\ power_queue' = <<>>
  /\ UNCHANGED <<has_power, output>>

-----------------------------------------------------------------------------
(* Callbacks *)

PowerCallback ==
  /\ power_queue # <<>>
  /\ has_power' = Head(power_queue)
  /\ power_queue' = Tail(power_queue)
  /\ UNCHANGED <<lifecycle, resources, output>>

(* Published also when no scan projected. *)
FusedCallback ==
  /\ sync
  /\ lifecycle = "ACTIVE"
  /\ has_power
  /\ \E p \in [Scan -> Projection] :
       /\ input' = p
       /\ cloud' = Combined(p)
  /\ UNCHANGED <<lifecycle, resources, power>>

(* Whoever switches the perception computer tells so once. A full queue    *)
(* loses its oldest message; without a subscription nothing is heard.      *)
SwitchPower(on) ==
  /\ power_sub
  /\ power_queue' = LET q == Append(power_queue, on)
                    IN  IF Len(q) > PowerDepth THEN Tail(q) ELSE q
  /\ UNCHANGED <<lifecycle, resources, has_power, output>>

Transitions ==
  OnConfigure \/ OnConfigureThrows \/ OnActivate \/ OnDeactivate \/ OnCleanup
    \/ OnShutdown \/ Unload

Next ==
  \/ Transitions
  \/ PowerCallback
  \/ FusedCallback
  \/ \E on \in BOOLEAN : SwitchPower(on)

Spec == Init /\ [][Next]_vars

-----------------------------------------------------------------------------
(* Invariants *)

(* The pointers are reset in four places (on_cleanup, on_shutdown,         *)
(* on_error, the destructor), each leaving others alone; fused_callback    *)
(* tests the lifecycle state and then dereferences publisher and buffer:   *)
(* in an active node all of them are there, and the publisher is not mute. *)
ActiveIsEquipped ==
  /\ lifecycle = "ACTIVE" => publisher = "active" /\ sync /\ tf_buffer /\ power_sub
  /\ publisher = "active" => lifecycle = "ACTIVE"
  /\ sync => tf_buffer /\ publisher # "none"

Uniform(p) == \A s, t \in Scan : p[s].ok /\ p[t].ok => p[s].step = p[t].step

(* The header of a merged cloud describes its data, whichever scans failed *)
(* or were empty, as long as the scanners share one layout: otherwise      *)
(* concatenate_pointclouds computes the row from the first layout alone.   *)
HeaderMatchesData ==
  input # <<>> /\ Uniform(input) =>
    /\ cloud.row_step = cloud.width * cloud.point_step
    /\ cloud.size = cloud.row_step * cloud.height

(* Nothing is lost or invented in merging: the data are the non-empty      *)
(* scans that projected, in order, the width counts their points; dense is *)
(* what they all are; and the cloud is without fields, which no consumer   *)
(* can iterate, only if every single projection failed.                    *)
MergedAllThatProjected ==
  input # <<>> =>
    LET some(s) == input[s].ok /\ input[s].points > 0
        count(s) == IF some(s) THEN input[s].points ELSE 0
        part(s) == IF some(s) THEN <<s>> ELSE <<>>
    IN  /\ cloud.parts = part("front") \o part("back") \o part("left") \o part("right")
        /\ cloud.width = count("front") + count("back") + count("left") + count("right")
        /\ cloud.is_dense /\ cloud.width > 0 => \A s \in Scan : some(s) => input[s].is_dense
        /\ cloud.height = 0 <=> \A s \in Scan : ~input[s].ok

-----------------------------------------------------------------------------
(* Action property *)

(* What the gate will be once everything queued has been handled. *)
PowerToCome == IF power_queue = <<>> THEN has_power ELSE power_queue[Len(power_queue)]

(* The last word on power stands: through deactivation, cleanup, shutdown  *)
(* and a queue that overflows, only a new message changes what the gate    *)
(* comes to, and only a configuration (which replaces the subscription)    *)
(* or the unloading of the component drops one unheard.                    *)
LastWordOnPower ==
  [][PowerToCome' # PowerToCome =>
       \/ \E on \in BOOLEAN : SwitchPower(on)
       \/ power_queue # <<>> /\ (OnConfigure \/ Unload)]_vars
=============================================================================
