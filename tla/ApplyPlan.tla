------------------------------ MODULE ApplyPlan ------------------------------
(***************************************************************************)
(* The order in which mgmtd applies a configuration.  A commit pushes the  *)
(* differences between the running configuration and the wanted one, one   *)
(* family after the other and one call at a time; at a start the whole     *)
(* running configuration is replayed.  syncd refuses a call whose          *)
(* reference is missing or whose object is still in use, a refusal ends    *)
(* the commit, and what was pushed before it stays.                        *)
(*                                                                         *)
(* Here a call of syncd is one step on its tables: what its handlers do    *)
(* inside a call is the subject of SyncdL2, SyncdFib, SyncdAcl and         *)
(* SyncdQos.  The module is about the references between families: VLANs   *)
(* under switchports, addresses, static MAC entries, MST instances and     *)
(* VRRP groups; port-channels under storm control, mirroring, ACLs and     *)
(* QoS; ACLs under bindings and WRED profiles under queues.                *)
(***************************************************************************)
EXTENDS Integers, Sequences, FiniteSets, SequencesExt, Functions

CONSTANTS
  PlanPorts,        \* front-panel ports
  PlanLag,          \* the port-channel
  PlanVlans,        \* the VLANs an operator can create
  PlanAcls,         \* access lists
  PlanProfiles,     \* WRED profiles
  Instances,        \* MST instances, as numbers
  PlanConfigs,      \* the configurations that are committed
  MaxPlanEvents,    \* bound on commits, restarts and faults together
  MaxPlanFaults     \* bound on calls that fail although they are accepted

VARIABLES
  planRunning,      \* the running configuration
  planWanted,       \* the one being applied
  calls,            \* the calls still to make
  planMode,         \* "idle", "commit" or "replay"
  replayDue,        \* the replay of the last start has not succeeded yet
  dev,              \* what syncd and orch hold
  planEvents, planFaults,
  halfway,          \* configurations applied in part since dev was last whole
  scars             \* parts that a commit is known to leave behind wrong

planVars == <<planRunning, planWanted, calls, planMode, replayDue, dev,
              planEvents, planFaults, halfway, scars>>

DefaultVlan == 1
NoVlan == 0
Nobody == "nobody"
VlanNumbers == PlanVlans \cup {DefaultVlan}
Targets == PlanPorts \cup {PlanLag}

\* A configuration.  Every switchport is an access port and every VLAN has at
\* most one static MAC entry; an MST instance without VLANs is not configured;
\* there is one mirror session, configured when it has a destination or a
\* source.
PlanConfig ==
  [vlans    : SUBSET PlanVlans,
   sw       : [Targets -> VlanNumbers \cup {NoVlan}],
   svis     : SUBSET VlanNumbers,
   routed   : SUBSET PlanPorts,
   lag      : BOOLEAN,
   statics  : [VlanNumbers -> Targets \cup {Nobody}],
   storm    : SUBSET Targets,
   monitor  : PlanPorts \cup {Nobody},
   sources  : SUBSET Targets,
   acls     : SUBSET PlanAcls,
   bound    : [Targets -> PlanAcls \cup {Nobody}],
   profiles : SUBSET PlanProfiles,
   qos      : [Targets -> PlanProfiles \cup {"plain", Nobody}],
   mst      : [Instances -> SUBSET VlanNumbers],
   vrrp     : SUBSET VlanNumbers,
   services : {"off", "on"}]

\* The port-channel's part of a configuration.
LagPart(c) == <<c.lag, c.sw[PlanLag], c.bound[PlanLag], c.qos[PlanLag],
                PlanLag \in c.storm>>

\* What validation lets through: every reference is checked within the
\* configuration, except those to VLANs, of which only the SVIs' are.
PlanValid(c) ==
  /\ c.svis \subseteq c.vlans \cup {DefaultVlan} /\ c.vrrp \subseteq c.svis
  /\ \A p \in c.routed : c.sw[p] = NoVlan /\ p # c.monitor
  /\ ~c.lag => /\ LagPart(c) = <<FALSE, NoVlan, Nobody, Nobody, FALSE>>
               /\ PlanLag \notin c.sources \cup Range(c.statics)
  /\ Range(c.bound) \subseteq c.acls \cup {Nobody}
  /\ Range(c.qos) \subseteq c.profiles \cup {"plain", Nobody}
  /\ c.monitor \notin c.sources
  /\ \A i, j \in Instances : i # j => c.mst[i] \cap c.mst[j] = {}

ASSUME PlanAssumption ==
  /\ PlanVlans \subseteq Nat \ {NoVlan, DefaultVlan} /\ Instances \subseteq Nat \ {0}
  /\ \A c \in PlanConfigs : c \in PlanConfig /\ PlanValid(c)
  /\ {MaxPlanEvents, MaxPlanFaults} \subseteq Nat

EmptyPlan ==
  [vlans |-> {}, sw |-> [x \in Targets |-> NoVlan], svis |-> {}, routed |-> {},
   lag |-> FALSE, statics |-> [v \in VlanNumbers |-> Nobody], storm |-> {},
   monitor |-> Nobody, sources |-> {}, acls |-> {},
   bound |-> [x \in Targets |-> Nobody], profiles |-> {},
   qos |-> [x \in Targets |-> Nobody], mst |-> [i \in Instances |-> {}],
   vrrp |-> {}, services |-> "off"]

-----------------------------------------------------------------------------
(* What syncd and orch hold                                                *)

\* The VLAN a port or the port-channel is a member of, given its program.
Bridges(c, x) ==
  IF x \in c.routed \/ (x = PlanLag /\ ~c.lag) THEN NoVlan
  ELSE IF c.sw[x] = NoVlan THEN DefaultVlan
  ELSE IF c.sw[x] \in c.vlans \cup {DefaultVlan} THEN c.sw[x] ELSE NoVlan

\* The instance a VLAN is mapped to in the ASIC; 0 is the common one.
Mapped(c, v) ==
  IF v \in c.vlans \cup {DefaultVlan} /\ \E i \in Instances : v \in c.mst[i]
  THEN CHOOSE i \in Instances : v \in c.mst[i] ELSE 0

\* What a configuration means, whatever came before it.  A static entry of an
\* undefined VLAN, a port-channel as a mirror source and a session without a
\* destination are not programmed.
Meaning(c) ==
  [vlans |-> c.vlans, sw |-> c.sw, svis |-> c.svis, routed |-> c.routed,
   lag |-> c.lag, member |-> [x \in Targets |-> Bridges(c, x)],
   statics |-> [v \in VlanNumbers |->
     IF v \in c.vlans \cup {DefaultVlan} THEN c.statics[v] ELSE Nobody],
   storm |-> c.storm,
   monitor |-> c.monitor,
   sources |-> IF c.monitor = Nobody THEN {} ELSE c.sources \ {PlanLag},
   acls |-> c.acls, bound |-> c.bound, profiles |-> c.profiles, qos |-> c.qos,
   trees |-> {i \in Instances : c.mst[i] # {}}, mst |-> c.mst,
   tree |-> [v \in VlanNumbers |-> Mapped(c, v)],
   pinned |-> {}, vrrp |-> c.vrrp, services |-> c.services]

Blank == Meaning(EmptyPlan)

PlanInit ==
  /\ planRunning = EmptyPlan /\ planWanted = EmptyPlan /\ calls = <<>>
  /\ planMode = "idle" /\ replayDue = FALSE /\ dev = Blank
  /\ planEvents = 0 /\ planFaults = 0
  /\ halfway = {} /\ scars = {}

-----------------------------------------------------------------------------
(* The calls                                                               *)

\* A call: its name, and the port, VLAN, list, profile or instance it is for.
\* The value it carries is that of the configuration being applied.
PlanCall(op, x) == [op |-> op, on |-> x]
CallsFor(op, S) == LET s == SetToSeq(S) IN [i \in DOMAIN s |-> PlanCall(op, s[i])]
CallIf(test, op) == IF test THEN << PlanCall(op, PlanLag) >> ELSE <<>>

Defined(v) == v \in dev.vlans \cup {DefaultVlan}
Stands(x) == x # PlanLag \/ dev.lag

\* What syncd checks before it does what a call asks, or the backend while it
\* does: the objects a call refers to are there, and the one it removes is not in
\* use.
VlanIsFree(v) == dev.member[PlanLag] # v
SwitchportFits(x) ==
  planWanted.sw[x] = NoVlan \/ (x \notin dev.routed /\ Stands(x))
AddressFits(p) == p \in planWanted.routed => dev.sw[p] = NoVlan
SviFits(v) == v \in planWanted.svis => Defined(v)
StaticFits(v) == Defined(v) /\ Stands(planWanted.statics[v])
DetachFits(x) == x # PlanLag /\ dev.monitor # Nobody
BindFits(x) == planWanted.bound[x] \in dev.acls /\ Stands(x)
UnbindFits(x) == dev.bound[x] # Nobody => Stands(x)
AclIsFree(a) == a \in dev.acls /\ \A x \in Targets : dev.bound[x] # a
QosFits(x) == planWanted.qos[x] \in dev.profiles \cup {"plain"} /\ Stands(x)
WredIsFree(w) == \A x \in Targets : dev.qos[x] # w

Accepted(call) ==
  LET x == call.on
  IN CASE call.op = "remove_vlan" -> VlanIsFree(x)
       [] call.op = "switchport" -> SwitchportFits(x)
       [] call.op = "address" -> AddressFits(x)
       [] call.op = "svi" -> SviFits(x)
       [] call.op = "add_static" -> StaticFits(x)
       [] call.op \in {"storm", "clear_qos"} -> Stands(x)
       [] call.op = "detach" -> DetachFits(x)
       [] call.op = "attach" -> dev.monitor # Nobody
       [] call.op = "bind" -> BindFits(x)
       [] call.op = "unbind" -> UnbindFits(x)
       [] call.op = "remove_acl" -> AclIsFree(x)
       [] call.op = "set_qos" -> QosFits(x)
       [] call.op = "remove_wred" -> WredIsFree(x)
       [] call.op = "stp_vlans" -> x \in dev.trees
       [] call.op = "remove_stp" -> x \notin dev.trees \cap dev.pinned
       [] call.op = "ensure_my_mac" -> Defined(x)
       [] OTHER -> TRUE

\* A VLAN's SVI and its ports' memberships go before the VLAN does.
Vacated(d, v) ==
  [d EXCEPT !.svis = @ \ {v},
            !.member = [x \in Targets |->
               IF x # PlanLag /\ @[x] = v THEN NoVlan ELSE @[x]]]

VlanEnsured(v) == [dev EXCEPT !.vlans = @ \cup {v}]

\* A VLAN takes its static entries with it, and its instance keeps a reference
\* to it.
VlanRemoved(v) ==
  IF v \notin dev.vlans THEN dev
  ELSE [Vacated(dev, v) EXCEPT
          !.vlans = @ \ {v}, !.statics[v] = Nobody, !.tree[v] = 0,
          !.pinned = IF dev.tree[v] = 0 THEN @ ELSE @ \cup {dev.tree[v]}]

Rebridged(d, x) == [d EXCEPT !.member[x] = Bridges(d, x)]

SwitchportSet(x) ==
  IF planWanted.sw[x] = dev.sw[x] /\ dev.sw[x] = NoVlan THEN dev
  ELSE Rebridged([dev EXCEPT !.sw[x] = planWanted.sw[x]], x)

AddressSet(p) ==
  Rebridged([dev EXCEPT !.routed = IF p \in planWanted.routed
                                   THEN @ \cup {p} ELSE @ \ {p}], p)

SviSet(v) ==
  [dev EXCEPT !.svis = IF v \in planWanted.svis THEN @ \cup {v} ELSE @ \ {v}]

LagCreated ==
  IF dev.lag THEN dev
  ELSE [dev EXCEPT !.lag = TRUE, !.member[PlanLag] = DefaultVlan]

\* A port-channel takes its switchport program and its policers with it, and
\* leaves its ACL binding and its QoS program in their tables.
LagRemoved ==
  [dev EXCEPT !.lag = FALSE, !.sw[PlanLag] = NoVlan, !.member[PlanLag] = NoVlan,
              !.storm = @ \ {PlanLag}]

StaticAdded(v) == [dev EXCEPT !.statics[v] = planWanted.statics[v]]
StaticRemoved(v) == [dev EXCEPT !.statics[v] = Nobody]

StormSet(x) ==
  [dev EXCEPT !.storm = IF x \in planWanted.storm THEN @ \cup {x} ELSE @ \ {x}]

MonitorSet == [dev EXCEPT !.monitor = planWanted.monitor]
MirrorRemoved == [dev EXCEPT !.monitor = Nobody, !.sources = {}]
SourceSet(x, on) ==
  [dev EXCEPT !.sources = IF on THEN @ \cup {x} ELSE @ \ {x}]

AclEnsured(a) == [dev EXCEPT !.acls = @ \cup {a}]
AclRemoved(a) == [dev EXCEPT !.acls = @ \ {a}]
BindingSet(x) == [dev EXCEPT !.bound[x] = planWanted.bound[x]]

WredEnsured(w) == [dev EXCEPT !.profiles = @ \cup {w}]
WredRemoved(w) == [dev EXCEPT !.profiles = @ \ {w}]
PortQosSet(x) == [dev EXCEPT !.qos[x] = planWanted.qos[x]]

MyMacEnsured(v) == [dev EXCEPT !.vrrp = @ \cup {v}]
MyMacRemoved(v) == [dev EXCEPT !.vrrp = @ \ {v}]
ServicesPushed == [dev EXCEPT !.services = planWanted.services]

TreeCreated(i) == [dev EXCEPT !.trees = @ \cup {i}]

\* The VLANs an instance loses go to the common instance, then those it has
\* now are mapped to it; a VLAN that is not defined is only recorded.
TreeVlansSet(i) ==
  LET new == planWanted.mst[i]
  IN [dev EXCEPT !.mst[i] = new,
        !.tree = [v \in VlanNumbers |->
          IF ~Defined(v) THEN @[v] ELSE IF v \in new THEN i
          ELSE IF v \in dev.mst[i] THEN 0 ELSE @[v]]]

\* When the instance is removed, an undefined VLAN is taken for the default one.
TreeFreed(i) ==
  LET freed == {IF Defined(v) THEN v ELSE DefaultVlan : v \in dev.mst[i]}
  IN [v \in VlanNumbers |-> IF v \in freed THEN 0 ELSE dev.tree[v]]

TreeRemoved(i) ==
  IF i \notin dev.trees THEN dev
  ELSE [dev EXCEPT !.trees = @ \ {i}, !.mst[i] = {}, !.tree = TreeFreed(i)]

\* What an accepted call leaves behind.
Applied(call) ==
  LET x == call.on
  IN CASE call.op = "ensure_vlan" -> VlanEnsured(x)
       [] call.op = "remove_vlan" -> VlanRemoved(x)
       [] call.op = "switchport" -> SwitchportSet(x)
       [] call.op = "address" -> AddressSet(x)
       [] call.op = "svi" -> SviSet(x)
       [] call.op = "create_lag" -> LagCreated
       [] call.op = "remove_lag" -> LagRemoved
       [] call.op = "add_static" -> StaticAdded(x)
       [] call.op = "remove_static" -> StaticRemoved(x)
       [] call.op = "storm" -> StormSet(x)
       [] call.op = "monitor" -> MonitorSet
       [] call.op = "remove_mirror" -> MirrorRemoved
       [] call.op \in {"attach", "detach"} -> SourceSet(x, call.op = "attach")
       [] call.op = "ensure_acl" -> AclEnsured(x)
       [] call.op = "remove_acl" -> AclRemoved(x)
       [] call.op \in {"bind", "unbind"} -> BindingSet(x)
       [] call.op = "ensure_wred" -> WredEnsured(x)
       [] call.op = "remove_wred" -> WredRemoved(x)
       [] call.op \in {"set_qos", "clear_qos"} -> PortQosSet(x)
       [] call.op = "ensure_my_mac" -> MyMacEnsured(x)
       [] call.op = "remove_my_mac" -> MyMacRemoved(x)
       [] call.op = "services" -> ServicesPushed
       [] call.op = "create_stp" -> TreeCreated(x)
       [] call.op = "stp_vlans" -> TreeVlansSet(x)
       [] call.op = "remove_stp" -> TreeRemoved(x)

\* What a refused call has done before it was refused.
Attempted(call) ==
  CASE call.op = "remove_vlan" -> Vacated(dev, call.on)
    [] call.op = "unbind" -> [dev EXCEPT !.bound[call.on] = Nobody]
    [] call.op = "remove_stp" -> [dev EXCEPT !.tree = TreeFreed(call.on)]
    [] OTHER -> dev

-----------------------------------------------------------------------------
(* The plan of a commit                                                    *)

\* Where two configurations differ.
Moved(S, f, g) == {x \in S : f[x] # g[x]}
Toggled(A, B) == (A \ B) \cup (B \ A)
ChangedSwitchports(old, new) == Moved(PlanPorts, old.sw, new.sw)
ChangedStatics(old, new) == Moved(VlanNumbers, old.statics, new.statics)
ChangedStorm(old, new) == Toggled(old.storm, new.storm)
ChangedMirror(old, new) ==
  <<old.monitor, old.sources>> # <<new.monitor, new.sources>>
ChangedBindings(old, new) == Moved(Targets, old.bound, new.bound)
ChangedPortQos(old, new) == Moved(Targets, old.qos, new.qos)
ChangedTrees(old, new) == {i \in Instances : new.mst[i] # old.mst[i]}

\* Mutant: a VLAN is removed before the switchports that left it are told.
VlanCallsRemoveFirst(old, new) ==
  CallsFor("remove_vlan", old.vlans \ new.vlans)
    \o CallsFor("switchport", ChangedSwitchports(old, new))
    \o CallsFor("ensure_vlan", new.vlans \ old.vlans)

\* VLANs before the switchports that use them, and removed after.
VlanCalls(old, new) ==
  CallsFor("ensure_vlan", new.vlans \ old.vlans)
    \o CallsFor("switchport", ChangedSwitchports(old, new))
    \o CallsFor("remove_vlan", old.vlans \ new.vlans)

AddressCalls(old, new) ==
  CallsFor("address", Toggled(old.routed, new.routed))
    \o CallsFor("svi", Toggled(old.svis, new.svis))

LagCallsOf(old, new) ==
  LET ensured == new.lag /\ LagPart(old) # LagPart(new)
  IN CallIf(ensured, "create_lag") \o CallIf(ensured, "switchport")
       \o CallIf(old.lag /\ ~new.lag, "remove_lag")

\* The mirror session.  Sources that are gone are detached, and those that are
\* there attached; a port-channel is skipped among the second only.
MirrorCalls(old, new) ==
  LET session(c) == c.monitor # Nobody \/ c.sources # {}
  IN IF ~ChangedMirror(old, new) THEN <<>>
     ELSE IF ~session(new) THEN CallIf(TRUE, "remove_mirror")
     ELSE IF new.monitor = Nobody THEN <<>>
     ELSE CallIf(TRUE, "monitor")
            \o CallsFor("detach", old.sources \ new.sources)
            \o CallsFor("attach", new.sources \ {PlanLag})

SwitchingCalls(old, new) ==
  LET differ == ChangedStatics(old, new)
      gone == {v \in differ : new.statics[v] = Nobody}
  IN CallsFor("remove_static", gone) \o CallsFor("add_static", differ \ gone)
       \o CallsFor("storm", ChangedStorm(old, new))
       \o MirrorCalls(old, new)

\* Mutant: an ACL goes before its bindings do.
AclCallsRemoveFirst(old, new) ==
  LET differ == ChangedBindings(old, new)
      gone == {x \in differ : new.bound[x] = Nobody}
  IN CallsFor("ensure_acl", new.acls \ old.acls)
       \o CallsFor("remove_acl", old.acls \ new.acls)
       \o CallsFor("unbind", gone) \o CallsFor("bind", differ \ gone)

\* Definitions before the bindings that use them, unbinding before removal.
AclCalls(old, new) ==
  LET differ == ChangedBindings(old, new)
      gone == {x \in differ : new.bound[x] = Nobody}
  IN CallsFor("ensure_acl", new.acls \ old.acls)
       \o CallsFor("unbind", gone) \o CallsFor("bind", differ \ gone)
       \o CallsFor("remove_acl", old.acls \ new.acls)

\* Profiles before the queues that use them, and removed last.
QosCalls(old, new) ==
  LET differ == ChangedPortQos(old, new)
      gone == {x \in differ : new.qos[x] = Nobody}
  IN CallsFor("ensure_wred", new.profiles \ old.profiles)
       \o CallsFor("set_qos", differ \ gone) \o CallsFor("clear_qos", gone)
       \o CallsFor("remove_wred", old.profiles \ new.profiles)

\* Instances in the order of their numbers, the removed ones last.
TreeCalls(old, new) ==
  LET changed == {i \in ChangedTrees(old, new) : new.mst[i] # {}}
      order == SetToSortSeq(changed, <)
  IN FlattenSeq([k \in DOMAIN order |->
        << PlanCall("create_stp", order[k]), PlanCall("stp_vlans", order[k]) >>])
       \o CallsFor("remove_stp",
                   {i \in Instances : new.mst[i] = {} /\ old.mst[i] # {}})

\* What is pushed whole to orch's engines.
ServiceCalls(old, new) == CallIf(old.services # new.services, "services")

VrrpCalls(old, new) ==
  CallsFor("ensure_my_mac", new.vrrp \ old.vrrp)
    \o CallsFor("remove_my_mac", old.vrrp \ new.vrrp)

CommitPlan(old, new) ==
  VlanCalls(old, new) \o AddressCalls(old, new) \o LagCallsOf(old, new)
    \o SwitchingCalls(old, new) \o AclCalls(old, new) \o QosCalls(old, new)
    \o TreeCalls(old, new) \o ServiceCalls(old, new) \o VrrpCalls(old, new)

\* The replay: the same families as differences from nothing, spanning tree
\* and services earlier.
ReplayPlan(c) ==
  CallsFor("ensure_vlan", c.vlans) \o CallsFor("address", c.routed)
    \o CallsFor("switchport", {p \in PlanPorts : c.sw[p] # NoVlan})
    \o CallsFor("svi", c.svis)
    \o LagCallsOf(EmptyPlan, c) \o TreeCalls(EmptyPlan, c)
    \o ServiceCalls(EmptyPlan, c) \o SwitchingCalls(EmptyPlan, c)
    \o AclCalls(EmptyPlan, c) \o QosCalls(EmptyPlan, c)
    \o VrrpCalls(EmptyPlan, c)

-----------------------------------------------------------------------------
(* What the order of the calls cannot do                                   *)

\* Commits that are refused whatever the state: a routed port turned into a
\* switchport, a VLAN taken from under the port-channel, the port-channel
\* removed with what hangs on it, a port-channel dropped as a mirror source, a
\* static entry of an undefined VLAN.
Unreachable(old, new) ==
  \/ \E p \in old.routed : new.sw[p] # NoVlan
  \/ old.lag /\ old.sw[PlanLag] \in old.vlans \ new.vlans
  \/ /\ old.lag /\ ~new.lag
     /\ \/ PlanLag \in old.storm \/ old.bound[PlanLag] # Nobody
        \/ old.qos[PlanLag] # Nobody
  \/ /\ PlanLag \in old.sources \ new.sources
     /\ new.monitor # Nobody
  \/ \E v \in VlanNumbers \ (new.vlans \cup {DefaultVlan}) :
       new.statics[v] \notin {Nobody, old.statics[v]}

\* Parts that an accepted commit leaves different from what the new
\* configuration means: a VLAN that moves to an instance with a lower number,
\* or whose instance is freed after it was removed; a VLAN that appears or
\* returns under a program that did not change; a mirror session that keeps
\* its sources and loses its destination.
Scars(old, new) ==
  LET appears == new.vlans \ old.vlans
      down(v) == \E i, j \in Instances :
        i < j /\ v \in old.mst[j] /\ v \in new.mst[i]
      unruly == \E i \in Instances : ~(old.mst[i] \subseteq new.vlans \cup {1})
  IN UNION {
       {"tree" : v \in {w \in VlanNumbers : down(w)}},
       IF unruly THEN {"tree"} ELSE {},
       {"tree" : v \in {w \in appears : \E i \in Instances :
                          w \in old.mst[i] \cap new.mst[i]}},
       {"bridge" : x \in {t \in Targets : new.sw[t] \in appears
                                          /\ old.sw[t] = new.sw[t]}},
       {"statics" : v \in {w \in appears :
                             old.statics[w] = new.statics[w]
                               /\ new.statics[w] # Nobody}},
       IF new.monitor = Nobody /\ new.sources # {} /\ old.monitor # Nobody
       THEN {"mirror"} ELSE {} }

-----------------------------------------------------------------------------
(* Actions                                                                 *)

PlanEvent == planEvents < MaxPlanEvents /\ planEvents' = planEvents + 1

CommitBegins ==
  /\ planMode = "idle" /\ PlanEvent
  /\ \E c \in PlanConfigs :
       /\ planWanted' = c
       /\ calls' = CommitPlan(planRunning, c)
       /\ scars' = scars \cup Scars(planRunning, c)
  /\ planMode' = "commit"
  /\ UNCHANGED <<planRunning, replayDue, dev, planFaults, halfway>>

CallAccepted ==
  /\ calls # <<>> /\ Accepted(Head(calls))
  /\ dev' = Applied(Head(calls))
  /\ calls' = Tail(calls)
  /\ UNCHANGED <<planRunning, planWanted, planMode, replayDue, planEvents,
                 planFaults, halfway, scars>>

\* A refused or failed call ends the commit, or this attempt of the replay.
Aborted ==
  /\ calls' = <<>> /\ planMode' = "idle" /\ planWanted' = planRunning
  /\ halfway' = IF planMode = "commit" THEN halfway \cup {planWanted}
                ELSE halfway
  /\ UNCHANGED <<planRunning, replayDue, scars>>

CallRefused ==
  /\ calls # <<>> /\ ~Accepted(Head(calls))
  /\ dev' = Attempted(Head(calls))
  /\ Aborted
  /\ UNCHANGED <<planEvents, planFaults>>

\* The daemon cannot be reached, or its answer is lost.
CallFails ==
  /\ calls # <<>> /\ planFaults < MaxPlanFaults /\ PlanEvent
  /\ planFaults' = planFaults + 1
  /\ dev' \in {dev} \cup (IF Accepted(Head(calls)) THEN {Applied(Head(calls))}
                          ELSE {})
  /\ Aborted

\* The commit is persisted.  What an earlier one left half applied is undone
\* by it only if it was the same.
CommitPersists ==
  /\ planMode = "commit" /\ calls = <<>>
  /\ planRunning' = planWanted /\ planMode' = "idle"
  /\ halfway' = halfway \ {planWanted}
  /\ UNCHANGED <<planWanted, calls, replayDue, dev, planEvents, planFaults,
                 scars>>

\* mgmtd starts, alone or with the whole box.
MgmtdStarts ==
  /\ PlanEvent
  /\ calls' = <<>> /\ planMode' = "idle" /\ planWanted' = planRunning
  /\ replayDue' = TRUE
  /\ \/ /\ dev' = Blank /\ halfway' = {} /\ scars' = {}
     \/ /\ halfway' = IF planMode = "commit" THEN halfway \cup {planWanted}
                      ELSE halfway
        /\ UNCHANGED <<dev, scars>>
  /\ UNCHANGED <<planRunning, planFaults>>

ReplayBegins ==
  /\ planMode = "idle" /\ replayDue
  /\ planMode' = "replay" /\ planWanted' = planRunning
  /\ calls' = ReplayPlan(planRunning)
  /\ UNCHANGED <<planRunning, replayDue, dev, planEvents, planFaults, halfway,
                 scars>>

ReplaySucceeds ==
  /\ planMode = "replay" /\ calls = <<>>
  /\ planMode' = "idle" /\ replayDue' = FALSE
  /\ UNCHANGED <<planRunning, planWanted, calls, dev, planEvents, planFaults,
                 halfway, scars>>

PlanDone ==
  /\ planMode = "idle" /\ ~replayDue /\ planEvents = MaxPlanEvents
  /\ UNCHANGED planVars

PlanNext ==
  \/ CommitBegins \/ CallAccepted \/ CallRefused \/ CallFails
  \/ CommitPersists \/ MgmtdStarts \/ ReplayBegins \/ ReplaySucceeds
  \/ PlanDone

PlanSpec == PlanInit /\ [][PlanNext]_planVars

-----------------------------------------------------------------------------
(* Properties                                                              *)

\* The plan is well formed: what is being applied is a configuration, nothing
\* is left to call when nothing is applied, and syncd's tables hold names of
\* their kinds (Engine::apply_and_persist, syncd's state.rs).
PlanTypeOK ==
  /\ {planRunning, planWanted} \cup halfway \subseteq PlanConfigs \cup {EmptyPlan}
  /\ planMode \in {"idle", "commit", "replay"} /\ replayDue \in BOOLEAN
  /\ planMode = "idle" => calls = <<>> /\ planWanted = planRunning
  /\ planEvents \in 0 .. MaxPlanEvents /\ planFaults \in 0 .. MaxPlanFaults
  /\ scars \subseteq {"tree", "bridge", "statics", "mirror"}
  /\ dev.member \in [Targets -> VlanNumbers \cup {NoVlan}]
  /\ dev.tree \in [VlanNumbers -> Instances \cup {0}]
  /\ dev.sources \subseteq PlanPorts

NamesUndefinedVlan(c) ==
  \E v \in VlanNumbers \ (c.vlans \cup {DefaultVlan}) : c.statics[v] # Nobody

\* Every call of a plan is accepted by syncd: what it names is there, what it
\* removes is free (apply_and_persist: "Definitions before the bindings that
\* reference them; unbinds before removals so a dropped ACL is free by the time it
\* goes").  That holds for a commit that asks for nothing the order cannot do, also
\* when the same commit was cut off half-way before (only the removal of a list may
\* not be repeated), and for the replay of a configuration whose static entries are
\* in VLANs it defines, onto a fresh syncd as well as onto one that holds it all.
CallsAreAccepted ==
  /\ calls # <<>> /\ scars = {}
  /\ \/ /\ planMode = "commit" /\ ~replayDue
        /\ ~Unreachable(planRunning, planWanted)
        /\ \/ halfway = {}
           \/ halfway = {planWanted} /\ Head(calls).op # "remove_acl"
     \/ /\ planMode = "replay"
        /\ halfway = {} /\ ~NamesUndefinedVlan(planRunning)
  => Accepted(Head(calls))

\* The fields of dev a scar may disturb.
Disturbed ==
  UNION { IF "tree" \in scars THEN {"tree", "mst", "trees", "pinned"} ELSE {},
          IF "bridge" \in scars THEN {"member"} ELSE {},
          IF "statics" \in scars THEN {"statics"} ELSE {},
          IF "mirror" \in scars THEN {"monitor", "sources"} ELSE {} }

\* At rest syncd and orch hold what the running configuration means and
\* nothing else, whatever commits, retries, restarts and replays led there; a
\* commit half applied and then abandoned is the exception, until the box
\* restarts (architecture.md: "a restart of either daemon — or the whole box —
\* converges the ASIC to the running config").
HeldAsConfigured ==
  planMode = "idle" /\ ~replayDue /\ halfway = {} =>
    LET meaning == Meaning(planRunning)
    IN \A part \in DOMAIN dev \ Disturbed : dev[part] = meaning[part]

-----------------------------------------------------------------------------
(* What a document of the code says, and the code does not do              *)

\* The replay onto a fresh syncd gets to its end (architecture.md: "At startup
\* mgmtd replays the persisted running config onto syncd (with retry), so a
\* restart of either daemon — or the whole box — converges the ASIC to the
\* running config").
ReplayGetsThrough ==
  planMode = "replay" /\ calls # <<>> /\ halfway = {} /\ scars = {}
  => Accepted(Head(calls))
=============================================================================
