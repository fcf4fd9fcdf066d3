---------------------------- MODULE MCFdirTiming ----------------------------
(* Two components that differ in everything the code looks at: an          *)
(* AUXILIARY one behind a relay, whose waits differ so that discharge and  *)
(* boot cannot be mistaken for each other, and a FATAL one reset through   *)
(* its lifecycle service that needs no time to boot. They are what the     *)
(* manager loads from a policy with a third, disabled component.           *)
EXTENDS FdirTiming, Sequences

CONSTANTS cam, mux

Config == INSTANCE FdirConfig

Entry(enabled, name, tier, mechanism, topic, startup) ==
  [enabled |-> enabled, node_name |-> name, tier |-> tier, reset_mechanism |-> mechanism,
   reset_topic |-> topic, startup_time |-> startup]

Policy ==
  [key \in {"pallet_camera", "drive_inverters", "control_mux"} |->
     CASE key = "pallet_camera"   -> Entry(TRUE, cam, "AUXILIARY", "HARDWARE_RELAY", "power/cam", 2)
       [] key = "drive_inverters" -> Entry(FALSE, "mcu", "OTHER", "HARDWARE_RELAY", "", 15)
       [] key = "control_mux"     -> Entry(TRUE, mux, "FATAL", "LIFECYCLE_SERVICE", "", 0)]

Loaded ==
  Config!InitManagedNodes(<<"pallet_camera", "drive_inverters", "control_mux">>,
                          Policy).managed_nodes

MCNode == DOMAIN Loaded
MCTier == [n \in MCNode |-> Loaded[n].tier]
MCResetMechanism == [n \in MCNode |-> Loaded[n].reset_mechanism]
MCStartupTime == [n \in MCNode |-> Loaded[n].startup_time]

-----------------------------------------------------------------------------
(* Policies with up to three entries over two keys, with two node names:   *)
(* one of each kind of fault, both mechanisms, disabled or not.            *)
ShortLists(keys) == UNION {[1..k -> keys] : k \in 0..2}

Tracked == ShortLists({"k1", "k2"}) \cup {<<"k1", "k2", "k1">>}

SomeComponents ==
  {c \in [enabled : BOOLEAN, node_name : {"a", "b", ""}, tier : {"FATAL", "OTHER"},
          reset_mechanism : {"LIFECYCLE_SERVICE", "HARDWARE_RELAY", "OTHER"},
          reset_topic : {"t1", "t2", ""}, startup_time : {5}] :
     c.enabled \/ c.tier = "OTHER"}

Policies == [{"k1", "k2"} -> SomeComponents]

AllLoadedAsWritten ==
  \A tracked \in Tracked, components \in Policies :
    Config!LoadedAsWritten(tracked, components)

AllRelaysProvisioned ==
  \A tracked \in Tracked, components \in Policies :
    Config!RelayProvisioned(tracked, components)

(* The manager supervises the enabled entries of its policy, at every      *)
(* moment, and would do so for every other policy, or refuse it as a whole *)
(* (init_managed_nodes, against the declarative reading of LoadedAsWritten *)
(* in FdirConfig): no entry is lost or half validated because of another.  *)
SupervisesItsPolicy ==
  /\ DOMAIN managed_nodes = {Policy[k].node_name : k \in {"pallet_camera", "control_mux"}}
  /\ AllLoadedAsWritten

(* A component that is being cycled by relay is one whose publisher        *)
(* handle_recovery_fsm can dereference, whatever the policy, also if it    *)
(* names a node twice with different mechanisms.                           *)
CycledHasRelay ==
  /\ \A n \in Node :
       ResetMechanism[n] = "HARDWARE_RELAY" /\ managed_nodes[n].phase # "NOMINAL" =>
         Loaded[n].reset_topic # Config!EMPTY
  /\ AllRelaysProvisioned
=============================================================================
