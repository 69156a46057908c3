------------------------------- MODULE MCPlan -------------------------------
(***************************************************************************)
(* Instances of ApplyPlan: two ports, a port-channel, two VLANs, two MST   *)
(* instances.                                                              *)
(***************************************************************************)
EXTENDS ApplyPlan, TLC

\* A port-channel in VLAN 10 with everything that can hang on it.
MCLoaded ==
  [EmptyPlan EXCEPT !.vlans = {10, 20}, !.lag = TRUE,
     !.sw = [x \in Targets |-> IF x = "po" THEN 10 ELSE 20],
     !.storm = {"po"}, !.acls = {"a"}, !.bound["po"] = "a",
     !.profiles = {"w"}, !.qos["po"] = "w", !.svis = {20}, !.vrrp = {20}]

\* The same port-channel stripped, ports routed and mirrored.
MCStripped ==
  [EmptyPlan EXCEPT !.vlans = {10}, !.lag = TRUE, !.sw["po"] = 10,
     !.routed = {"p2"}, !.monitor = "p1", !.sources = {"po", "p2"},
     !.statics = [v \in VlanNumbers |-> IF v = 10 THEN "po" ELSE Nobody],
     !.acls = {"a", "b"}, !.bound["p1"] = "b", !.qos["p1"] = "plain",
     !.services = "on"]

\* The port-channel is no source any more; then it goes.
MCThin == [MCStripped EXCEPT !.sources = {"p2"}, !.storm = {"po"}]
MCBare ==
  [MCThin EXCEPT !.lag = FALSE, !.sw["po"] = NoVlan, !.storm = {},
                 !.statics[10] = Nobody]

\* No port-channel; trees, and a static entry of VLAN 20.
MCTrees(a, b) ==
  [EmptyPlan EXCEPT !.vlans = {10, 20}, !.mst[1] = a, !.mst[2] = b,
     !.sw["p1"] = 10, !.sw["p2"] = 20, !.storm = {"p1"},
     !.statics = [v \in VlanNumbers |-> IF v = 20 THEN "p1" ELSE Nobody]]

\* VLAN 20 is gone under its static entry and its instance.
MCOrphans == [MCTrees({10}, {20}) EXCEPT !.vlans = {10}]

\* The session loses its destination; no switchport is left.
MCNoMonitor ==
  [EmptyPlan EXCEPT !.vlans = {10}, !.lag = TRUE, !.sources = {"po", "p2"},
     !.profiles = {"w"}, !.qos["p1"] = "w", !.acls = {"b"}]

MCPlanConfigs ==
  {EmptyPlan, MCLoaded, MCStripped, MCTrees({10}, {20}), MCTrees({20}, {}),
   MCTrees({10}, {}),   MCOrphans, MCNoMonitor, MCThin, MCBare}

MCOrphanConfigs == {MCTrees({}, {}), [MCTrees({}, {}) EXCEPT !.vlans = {10}]}
MCTargets == {"p1", "p2"}
MCNumbers == {10, 20}
=============================================================================
