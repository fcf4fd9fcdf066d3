----------------------------- MODULE FdirConfig -----------------------------
(***************************************************************************)
(* init_managed_nodes of FdirManagerNode: what the manager makes of the    *)
(* parameters of fdir_policy.yaml. The result supplies the constants Node, *)
(* Tier, ResetMechanism and StartupTime of FdirRecovery. Pure operators;   *)
(* all throws are alike, they end the constructor and with it the process. *)
(***************************************************************************)
EXTENDS Naturals, Sequences

EMPTY == ""     \* the default of node_name and reset_topic

Tiers == {"FATAL", "PRIMARY", "AUXILIARY"}
ResetMechanisms == {"LIFECYCLE_SERVICE", "HARDWARE_RELAY"}

(* The parameters under one prefix; OTHER is any string not recognised.    *)
Component(names, topics) ==
  [enabled : BOOLEAN, node_name : names \cup {EMPTY}, tier : Tiers \cup {"OTHER"},
   reset_mechanism : ResetMechanisms \cup {"OTHER"}, reset_topic : topics \cup {EMPTY},
   startup_time : Nat]

-----------------------------------------------------------------------------
(* The checks of the loop, in the order of the code. Only whether one of   *)
(* them fails matters.                                                     *)
Invalid(c) ==
  \/ c.node_name = EMPTY
  \/ c.tier \notin Tiers
  \/ c.reset_mechanism \notin ResetMechanisms
  \/ c.reset_mechanism = "HARDWARE_RELAY" /\ c.reset_topic = EMPTY

(* Assignment through operator[]: a later entry replaces an earlier one.   *)
Assign(map, key, value) ==
  [k \in DOMAIN map \cup {key} |-> IF k = key THEN value ELSE map[k]]

NothingLoaded == [halted |-> FALSE, managed_nodes |-> <<>>, relay_pubs |-> <<>>]

Halted == [halted |-> TRUE, managed_nodes |-> <<>>, relay_pubs |-> <<>>]

(* Seeded fault: a name that is managed already keeps its publisher.       *)
ProvisionFirstRelay(loaded, c) ==
  IF loaded.halted \/ ~c.enabled THEN loaded
  ELSE IF Invalid(c) THEN Halted
  ELSE [halted        |-> FALSE,
        managed_nodes |-> Assign(loaded.managed_nodes, c.node_name, c),
        relay_pubs    |-> IF c.node_name \in DOMAIN loaded.managed_nodes THEN loaded.relay_pubs
                          ELSE Assign(loaded.relay_pubs, c.node_name, c.reset_topic)]

(* Seeded fault: a component that is not enabled is validated all the same. *)
ProvisionDisabled(loaded, c) ==
  IF loaded.halted \/ Invalid(c) THEN Halted
  ELSE IF ~c.enabled THEN loaded
  ELSE [halted        |-> FALSE,
        managed_nodes |-> Assign(loaded.managed_nodes, c.node_name, c),
        relay_pubs    |-> Assign(loaded.relay_pubs, c.node_name, c.reset_topic)]

(* One turn of the second loop. The record starts as InitialNode of        *)
(* FdirRecovery; kept here is what it takes from the policy.               *)
Provision(loaded, c) ==
  IF loaded.halted \/ ~c.enabled THEN loaded
  ELSE IF Invalid(c) THEN Halted
  ELSE [halted        |-> FALSE,
        managed_nodes |-> Assign(loaded.managed_nodes, c.node_name, c),
        relay_pubs    |-> IF c.reset_mechanism = "HARDWARE_RELAY"
                          THEN Assign(loaded.relay_pubs, c.node_name, c.reset_topic)
                          ELSE loaded.relay_pubs]

(* The loop: what is loaded after the first i entries, for every i.        *)
LoadedAfter(tracked, components) ==
  LET after[i \in 0..Len(tracked)] ==
        IF i = 0 THEN NothingLoaded ELSE Provision(after[i - 1], components[tracked[i]])
  IN  after

Repeats(tracked) == \E i, j \in DOMAIN tracked : i # j /\ tracked[i] = tracked[j]

(* An empty list is refused by the code, a key listed twice by the second  *)
(* declare_parameter of the same name.                                     *)
InitManagedNodes(tracked, components) ==
  IF tracked = <<>> \/ Repeats(tracked) THEN Halted
  ELSE LoadedAfter(tracked, components)[Len(tracked)]

-----------------------------------------------------------------------------
Enabled(tracked, components) == {i \in DOMAIN tracked : components[tracked[i]].enabled}

(* The entry of the policy that a node name ends up with: the last one.    *)
LastFor(name, tracked, components) ==
  CHOOSE i \in Enabled(tracked, components) :
    /\ components[tracked[i]].node_name = name
    /\ \A j \in Enabled(tracked, components) :
         components[tracked[j]].node_name = name => j <= i

(* The manager refuses exactly the policies with no list, a repeated key   *)
(* or an enabled entry that is invalid, wherever it stands; any other      *)
(* policy is loaded whole: a node is supervised if and only if an enabled  *)
(* entry names it, and as its last such entry says.                        *)
LoadedAsWritten(tracked, components) ==
  LET loaded == InitManagedNodes(tracked, components)
      names  == {components[tracked[i]].node_name : i \in Enabled(tracked, components)}
  IN  /\ loaded.halted <=>
           \/ tracked = <<>>
           \/ Repeats(tracked)
           \/ \E i \in Enabled(tracked, components) : Invalid(components[tracked[i]])
      /\ ~loaded.halted =>
           loaded.managed_nodes =
             [n \in names |-> components[tracked[LastFor(n, tracked, components)]]]

(* Every node the recovery will cycle by relay has its publisher, on the   *)
(* topic of its own record: handle_recovery_fsm looks the publisher up     *)
(* with operator[] and would dereference the null pointer it inserts.      *)
RelayProvisioned(tracked, components) ==
  LET loaded == InitManagedNodes(tracked, components)
  IN  \A n \in DOMAIN loaded.managed_nodes :
        loaded.managed_nodes[n].reset_mechanism = "HARDWARE_RELAY" =>
          /\ n \in DOMAIN loaded.relay_pubs
          /\ loaded.relay_pubs[n] = loaded.managed_nodes[n].reset_topic
          /\ loaded.relay_pubs[n] # EMPTY
=============================================================================
