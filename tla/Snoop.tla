------------------------------- MODULE Snoop -------------------------------
(***************************************************************************)
(* IGMP and MLD snooping in one VLAN: the snooping engine of hemlock-orch  *)
(* (snoop.rs), one instance per family, its two pusher tasks (main.rs) and *)
(* the L2MC tables of hemlock-syncd they write (service.rs).               *)
(*                                                                         *)
(* A family has one group.  Time is discrete; a unit ends when the engines *)
(* have ticked and every host that was asked has answered, while the       *)
(* pushers may lag behind by any number of units.  A host is a port that   *)
(* listens to the group.  Frames are reduced to the message parse() takes  *)
(* out of them, addresses to numbers (0 is the unspecified one).           *)
(***************************************************************************)
EXTENDS Integers, Sequences, FiniteSets

CONSTANTS
    Families, SnoopPorts,
    SnoopConfigs, SnoopStart,
    Routers,            \* <<family, port, source address>> of the routers
    QueryInterval, Robustness,
    Slack,              \* the 10 s that both hold times add
    MaxSnoopEvents,     \* joins, leaves, foreign queries, configuration pushes
    MaxSnoopFaults      \* lost reports and failed pushes

ASSUME SnoopAssumption ==
    /\ QueryInterval \in Nat \ {0} /\ Robustness \in Nat \ {0} /\ Slack \in Nat \ {0}
    /\ MaxSnoopEvents \in Nat /\ MaxSnoopFaults \in Nat
    /\ Routers \subseteq Families \X SnoopPorts \X Int
    /\ \A c \in SnoopConfigs \cup {SnoopStart} :
          /\ c.disabled \in BOOLEAN /\ c.vlanDisabled \in BOOLEAN /\ c.vlan \in BOOLEAN
          /\ c.fastLeave \in BOOLEAN /\ c.querier \in BOOLEAN
          /\ c.static \subseteq SnoopPorts

VARIABLES
    snoopConfig,        \* inner.config, the VLAN's entry included
    snoop,              \* the VlanState of each family
    groupQueue, scopeQueue,   \* the channels to the two pushers
    groupCall, scopeCall,     \* what each pusher is doing
    l2mcTable,          \* syncd's l2mc table: group -> recorded members
    l2mc,               \* the ASIC's entry and the members of its group
    scopeTable,         \* syncd's unknown_mcast table entry for the VLAN
    scopeObjects,       \* the ASIC's restriction groups: object -> ports
    scopeRef,           \* the one the VLAN's unknown multicast is bound to
    hosts,              \* <<family, port>> that listen
    asked,              \* hosts that heard a query and have not answered yet
    missed,             \* answers in a row that were lost
    lone,               \* families whose own querier was never suppressed
    snoopTicked, snoopEvents, snoopFaults

snoopVars == <<snoopConfig, snoop, groupQueue, scopeQueue, groupCall, scopeCall, l2mcTable,
               l2mc, scopeTable, scopeObjects, scopeRef, hosts, asked, missed, lone,
               snoopTicked, snoopEvents, snoopFaults>>

asicVars == <<groupCall, scopeCall, l2mcTable, l2mc, scopeTable, scopeObjects, scopeRef>>

\* Mutant: one lost answer is one too many.
MembershipHoldOnce == QueryInterval + Slack

MembershipHold == Robustness * QueryInterval + Slack
QuerierHold == 2 * QueryInterval + Slack
Absent == [there |-> FALSE, ports |-> {}]
Present(ports) == [there |-> TRUE, ports |-> ports]
NoObject == 0
NoScope == [object |-> NoObject, members |-> {}]
Idle == [pc |-> "idle"]

NewVlanState ==
    [there |-> FALSE,
     members |-> [p \in SnoopPorts |-> [age |-> MembershipHold, leaving |-> FALSE]],
     mrouters |-> [p \in SnoopPorts |-> QuerierHold],
     other |-> QuerierHold, lastQuery |-> QueryInterval,
     pushedGroup |-> Absent, pushedScope |-> Absent, restrict |-> FALSE]

Enabled(f) == ~snoopConfig[f].disabled /\ ~snoopConfig[f].vlanDisabled

\* The ports of the group: a member is a port whose report has not aged out.
MemberPorts(st) == {p \in SnoopPorts : st.members[p].age < MembershipHold}

\* mrouters(): the static ones and those heard within the hold time.
Mrouters(f, st) ==
    snoopConfig[f].static \cup {p \in SnoopPorts : st.mrouters[p] < QuerierHold}
-----------------------------------------------------------------------------
(* apply_message *)

Report(st, p) == [st EXCEPT !.there = TRUE, !.members[p] = [age |-> 0, leaving |-> FALSE]]

\* The member whose leave is pending drops at the next tick.
Leave(f, st, p) ==
    [st EXCEPT !.there = TRUE,
               !.members[p] = IF @.age = MembershipHold THEN @
                              ELSE IF snoopConfig[f].fastLeave
                              THEN [age |-> MembershipHold, leaving |-> FALSE]
                              ELSE [@ EXCEPT !.leaving = TRUE]]

Query(f, st, p, source) ==
    [st EXCEPT !.there = TRUE, !.mrouters[p] = 0,
               !.other = IF source < snoopConfig[f].address THEN 0 ELSE @]
-----------------------------------------------------------------------------
(* step() *)

\* Timers have already been advanced by the clock; a disabled VLAN sheds what
\* it learned.
Expire(f, st) ==
    IF ~Enabled(f)
    THEN [NewVlanState EXCEPT !.there = TRUE, !.lastQuery = st.lastQuery,
                              !.pushedGroup = st.pushedGroup,
                              !.pushedScope = st.pushedScope, !.restrict = st.restrict]
    ELSE [st EXCEPT !.there = TRUE]

\* Mutant: a group whose last member went keeps the mrouters.
WantedGroupKept(f, st) == Present(MemberPorts(st) \cup Mrouters(f, st))

\* The group's outputs, or nothing when it has no member.
WantedGroup(f, st) ==
    IF MemberPorts(st) = {} THEN Absent ELSE Present(MemberPorts(st) \cup Mrouters(f, st))

Restricts(f, st) == Enabled(f) /\ (Mrouters(f, st) # {} \/ snoopConfig[f].querier)

WantedScope(f, st) == Present(IF Restricts(f, st) THEN Mrouters(f, st) ELSE {})

QueryDue(f, st) ==
    /\ Enabled(f) /\ snoopConfig[f].querier
    /\ st.other = QuerierHold
    /\ st.lastQuery >= QueryInterval

\* One pass for family f from the state `before`.  A query that is sent reaches
\* every host, so all of them owe an answer.
SnoopStep(f, before, waiting) ==
    IF ~before.there /\ ~snoopConfig[f].vlan
    THEN /\ snoop' = [snoop EXCEPT ![f] = before]
         /\ asked' = waiting /\ lone' = lone \ {f}
         /\ UNCHANGED <<groupQueue, scopeQueue>>
    ELSE LET st == Expire(f, before)
             group == WantedGroup(f, st)
             scope == WantedScope(f, st)
             restrict == Restricts(f, st)
             due == QueryDue(f, st)
         IN  /\ snoop' = [snoop EXCEPT ![f] =
                    [st EXCEPT !.pushedGroup = group, !.pushedScope = scope,
                               !.restrict = restrict,
                               !.lastQuery = IF due THEN 0 ELSE @]]
             /\ groupQueue' = IF group = st.pushedGroup THEN groupQueue
                              ELSE [groupQueue EXCEPT ![f] = Append(@, group)]
             /\ scopeQueue' = IF <<scope, restrict>> = <<st.pushedScope, st.restrict>>
                              THEN scopeQueue
                              ELSE [scopeQueue EXCEPT ![f] = Append(@,
                                       [restrict |-> restrict, ports |-> scope.ports])]
             /\ asked' = waiting \cup {h \in hosts' : due /\ h[1] = f}
             /\ lone' = IF snoopConfig[f].querier /\ Enabled(f) /\ st.other = QuerierHold
                        THEN lone ELSE lone \ {f}
-----------------------------------------------------------------------------
(* The engines, the hosts and the routers. *)

SnoopInit ==
    /\ snoopConfig = [f \in Families |-> SnoopStart]
    /\ snoop = [f \in Families |-> NewVlanState]
    /\ groupQueue = [f \in Families |-> <<>>] /\ scopeQueue = [f \in Families |-> <<>>]
    /\ groupCall = [f \in Families |-> Idle] /\ scopeCall = [f \in Families |-> Idle]
    /\ l2mcTable = [f \in Families |-> Absent] /\ l2mc = [f \in Families |-> Absent]
    /\ scopeTable = NoScope /\ scopeObjects = <<>> /\ scopeRef = NoObject
    /\ hosts = {} /\ asked = {}
    /\ missed = [h \in Families \X SnoopPorts |-> 0]
    /\ lone = Families
    /\ snoopTicked = {} /\ snoopEvents = 0 /\ snoopFaults = 0

Event == snoopEvents < MaxSnoopEvents /\ snoopEvents' = snoopEvents + 1
Fault == snoopFaults < MaxSnoopFaults /\ snoopFaults' = snoopFaults + 1

\* The interval tick, or the wake-up after set_config.
SnoopEngineTick(f) ==
    /\ f \notin snoopTicked
    /\ snoopTicked' = snoopTicked \cup {f}
    /\ UNCHANGED hosts
    /\ SnoopStep(f, snoop[f], asked)
    /\ UNCHANGED <<snoopConfig, asicVars, missed, snoopEvents, snoopFaults>>

\* What a frame does when its VLAN is enabled; a disabled one drops it.
Heard(f, st) == IF Enabled(f) THEN st ELSE snoop[f]

HostJoin(h) ==
    /\ Event /\ h \notin hosts
    /\ hosts' = hosts \cup {h}
    /\ missed' = [missed EXCEPT ![h] = 0]
    /\ SnoopStep(h[1], Heard(h[1], Report(snoop[h[1]], h[2])), asked)
    /\ UNCHANGED <<snoopConfig, asicVars, snoopTicked, snoopFaults>>

HostLeave(h) ==
    /\ Event /\ h \in hosts
    /\ hosts' = hosts \ {h}
    /\ SnoopStep(h[1], Heard(h[1], Leave(h[1], snoop[h[1]], h[2])), asked \ {h})
    /\ UNCHANGED <<snoopConfig, asicVars, missed, snoopTicked, snoopFaults>>

\* A host that heard a query reports again.
HostAnswer(h) ==
    /\ h \in asked
    /\ UNCHANGED hosts
    /\ missed' = [missed EXCEPT ![h] = 0]
    /\ SnoopStep(h[1], Heard(h[1], Report(snoop[h[1]], h[2])), asked \ {h})
    /\ UNCHANGED <<snoopConfig, asicVars, snoopTicked, snoopEvents, snoopFaults>>

\* The answer is lost, fewer times in a row than the robustness variable says.
LoseAnswer(h) ==
    /\ Fault /\ h \in asked
    /\ missed[h] < Robustness - 1
    /\ missed' = [missed EXCEPT ![h] = @ + 1]
    /\ asked' = asked \ {h}
    /\ UNCHANGED <<snoopConfig, snoop, groupQueue, scopeQueue, asicVars, hosts, lone,
                   snoopTicked, snoopEvents>>

\* A router's general query: it reaches the engine and the hosts.
RouterQuery(r) ==
    LET f == r[1] IN
    /\ Event
    /\ UNCHANGED hosts
    /\ SnoopStep(f, Heard(f, Query(f, snoop[f], r[2], r[3])),
                 asked \cup {h \in hosts : h[1] = f})
    /\ UNCHANGED <<snoopConfig, asicVars, missed, snoopTicked, snoopFaults>>

\* set_config, whose wake-up makes the engine run later.
SetSnoopConfig(f, c) ==
    /\ Event /\ c # snoopConfig[f]
    /\ snoopConfig' = [snoopConfig EXCEPT ![f] = c]
    /\ snoopTicked' = snoopTicked \ {f}
    /\ UNCHANGED <<snoop, groupQueue, scopeQueue, asicVars, hosts, asked, missed, lone,
                   snoopFaults>>

Older(age, hold) == IF age < hold THEN age + 1 ELSE hold

\* A pending leave outlives no tick.
Aged(m) ==
    IF m.leaving THEN [age |-> MembershipHold, leaving |-> FALSE]
    ELSE [m EXCEPT !.age = Older(m.age, MembershipHold)]

\* Time passes.
SnoopTick ==
    /\ snoopTicked = Families /\ asked = {}
    /\ snoopTicked' = {}
    /\ snoop' = [f \in Families |->
           [snoop[f] EXCEPT
               !.members = [p \in SnoopPorts |-> Aged(@[p])],
               !.mrouters = [p \in SnoopPorts |-> Older(@[p], QuerierHold)],
               !.other = Older(@, QuerierHold),
               !.lastQuery = Older(@, QueryInterval)]]
    /\ UNCHANGED <<snoopConfig, groupQueue, scopeQueue, asicVars, hosts, asked, missed,
                   lone, snoopEvents, snoopFaults>>
-----------------------------------------------------------------------------
(* push_l2mc_groups and syncd's group RPCs. *)

engineVars == <<snoopConfig, snoop, hosts, asked, missed, lone, snoopTicked, snoopEvents>>

otherQueues == <<groupQueue, scopeQueue, scopeCall, scopeTable, scopeObjects, scopeRef>>

\* RemoveL2mcGroup: the record goes first, then the entry, the members and the group.
\* A call that fails is not retried; it may have come to nothing, or have taken out
\* the record and some of the members and left the entry.
RemoveGroup(f) ==
    /\ \/ /\ l2mcTable' = [l2mcTable EXCEPT ![f] = Absent]
          /\ l2mc' = [l2mc EXCEPT ![f] = IF l2mcTable[f].there THEN Absent ELSE @]
          /\ UNCHANGED snoopFaults
       \/ Fault /\ UNCHANGED <<l2mcTable, l2mc>>
       \/ /\ Fault /\ l2mcTable[f].there
          /\ l2mcTable' = [l2mcTable EXCEPT ![f] = Absent]
          /\ \E left \in SUBSET l2mc[f].ports : l2mc' = [l2mc EXCEPT ![f].ports = left]
    /\ UNCHANGED groupCall

\* EnsureL2mcGroup: a group that is recorded is left alone.  SetL2mcMembers follows.
EnsureGroup(f, ports) ==
    \/ /\ l2mcTable' = [l2mcTable EXCEPT ![f] = IF @.there THEN @ ELSE Present({})]
       /\ l2mc' = [l2mc EXCEPT ![f] = IF l2mcTable[f].there THEN @ ELSE Present({})]
       /\ groupCall' = [groupCall EXCEPT ![f] = [pc |-> "members", ports |-> ports]]
       /\ UNCHANGED snoopFaults
    \/ Fault /\ UNCHANGED <<l2mcTable, l2mc, groupCall>>

PushGroup(f) ==
    /\ groupCall[f] = Idle /\ groupQueue[f] # <<>>
    /\ groupQueue' = [groupQueue EXCEPT ![f] = Tail(@)]
    /\ LET update == Head(groupQueue[f])
       IN  \/ ~update.there /\ RemoveGroup(f)
           \/ update.there /\ EnsureGroup(f, update.ports)
    /\ UNCHANGED <<engineVars, scopeQueue, scopeCall, scopeTable, scopeObjects, scopeRef>>

\* The recorded members SetL2mcMembers removes and the members it adds.
Stale(f) == l2mcTable[f].ports \ groupCall[f].ports
Added(f) == groupCall[f].ports \ l2mcTable[f].ports

\* The ASIC refuses to remove a member that is gone and to add one that is there.
Reconcilable(f) == Stale(f) \subseteq l2mc[f].ports /\ Added(f) \cap l2mc[f].ports = {}

\* Mutant: members are added and never taken out.
ReconciledAdding(f) ==
    /\ l2mc' = [l2mc EXCEPT ![f].ports = @ \cup Added(f)]
    /\ l2mcTable' = [l2mcTable EXCEPT ![f].ports = @ \cup Added(f)]

\* reconcile_l2mc_members gets through, and the result is recorded.
Reconciled(f) ==
    /\ l2mc' = [l2mc EXCEPT ![f].ports = (@ \ Stale(f)) \cup Added(f)]
    /\ l2mcTable' = [l2mcTable EXCEPT ![f].ports = groupCall[f].ports]

\* It stops half-way: nothing is recorded of what it did.
StopsShort(f) ==
    /\ \/ \E gone \in SUBSET Stale(f) : l2mc' = [l2mc EXCEPT ![f].ports = @ \ gone]
       \/ /\ Stale(f) \subseteq l2mc[f].ports
          /\ \E new \in SUBSET Added(f) :
                l2mc' = [l2mc EXCEPT ![f].ports = (@ \ Stale(f)) \cup new]
    /\ UNCHANGED l2mcTable

\* SetL2mcMembers: the members become the ones named.  A call that fails is not
\* retried.
SetMembers(f) ==
    /\ groupCall[f] # Idle
    /\ groupCall' = [groupCall EXCEPT ![f] = Idle]
    /\ \/ Reconcilable(f) /\ Reconciled(f) /\ UNCHANGED snoopFaults
       \/ Reconcilable(f) /\ Fault /\ StopsShort(f)
       \/ ~Reconcilable(f) /\ StopsShort(f) /\ UNCHANGED snoopFaults
    /\ UNCHANGED <<engineVars, otherQueues>>
-----------------------------------------------------------------------------
(* push_unknown_mcast and SetVlanUnknownMcast.  The pushers of the two families
   call it for the same VLAN. *)

PushScope(f) ==
    /\ scopeCall[f] = Idle /\ scopeQueue[f] # <<>>
    /\ scopeQueue' = [scopeQueue EXCEPT ![f] = Tail(@)]
    /\ LET update == Head(scopeQueue[f])
       IN  \/ /\ scopeCall' = [scopeCall EXCEPT ![f] =
                    [pc |-> IF ~update.restrict THEN "flood"
                            ELSE IF scopeTable = NoScope THEN "create" ELSE "apply",
                     found |-> scopeTable, ports |-> update.ports]]
              /\ UNCHANGED snoopFaults
           \/ Fault /\ UNCHANGED scopeCall
    /\ UNCHANGED <<engineVars, groupQueue, groupCall, l2mcTable, l2mc, scopeTable,
                   scopeObjects, scopeRef>>

\* Back to flood-all: the VLAN is released first, then the group found in the
\* table goes; if somebody else removed it meanwhile the call fails there.
ScopeFlood(f) ==
    /\ scopeCall[f].pc = "flood"
    /\ scopeCall' = [scopeCall EXCEPT ![f] = Idle]
    /\ scopeRef' = NoObject
    /\ LET object == scopeCall[f].found.object
       IN  /\ scopeObjects' = [o \in DOMAIN scopeObjects \ {object} |-> scopeObjects[o]]
           /\ scopeTable' = IF object \in DOMAIN scopeObjects THEN NoScope ELSE scopeTable
    /\ UNCHANGED <<engineVars, groupQueue, scopeQueue, groupCall, l2mcTable, l2mc, snoopFaults>>

ScopeCreate(f) ==
    /\ scopeCall[f].pc = "create"
    /\ LET fresh == CHOOSE o \in 1..(Cardinality(DOMAIN scopeObjects) + 1) :
                        o \notin DOMAIN scopeObjects
           new == [object |-> fresh, members |-> {}]
       IN  /\ scopeObjects' = [o \in DOMAIN scopeObjects \cup {fresh} |->
                                  IF o = fresh THEN {} ELSE scopeObjects[o]]
           /\ scopeTable' = new
           /\ scopeCall' = [scopeCall EXCEPT ![f].pc = "apply", ![f].found = new]
    /\ UNCHANGED <<engineVars, groupQueue, scopeQueue, groupCall, l2mcTable, l2mc, scopeRef,
                   snoopFaults>>

\* reconcile_l2mc_members against the members found when the call began, then
\* the VLAN is bound and the table entry, if it is still there, takes the new
\* members.  A member or group somebody else removed makes the call fail.
ScopeApply(f) ==
    /\ scopeCall[f].pc = "apply"
    /\ scopeCall' = [scopeCall EXCEPT ![f] = Idle]
    /\ LET object == scopeCall[f].found.object
           wanted == scopeCall[f].ports
           stale == scopeCall[f].found.members \ wanted
       IN  IF object \in DOMAIN scopeObjects /\ stale \subseteq scopeObjects[object]
           THEN /\ scopeObjects' = [scopeObjects EXCEPT ![object] = (@ \ stale) \cup wanted]
                /\ scopeRef' = object
                /\ scopeTable' = IF scopeTable = NoScope THEN NoScope
                                 ELSE [scopeTable EXCEPT !.members = wanted]
           ELSE UNCHANGED <<scopeObjects, scopeRef, scopeTable>>
    /\ UNCHANGED <<engineVars, groupQueue, scopeQueue, groupCall, l2mcTable, l2mc, snoopFaults>>

Push(f) == PushGroup(f) \/ SetMembers(f) \/ PushScope(f) \/ ScopeFlood(f)
               \/ ScopeCreate(f) \/ ScopeApply(f)

SnoopNext ==
    \/ \E f \in Families : SnoopEngineTick(f) \/ Push(f)
    \/ \E h \in Families \X SnoopPorts : HostJoin(h) \/ HostLeave(h) \/ HostAnswer(h)
                                            \/ LoseAnswer(h)
    \/ \E r \in Routers : RouterQuery(r)
    \/ \E f \in Families, c \in SnoopConfigs : SetSnoopConfig(f, c)
    \/ SnoopTick

SnoopSpec == /\ SnoopInit /\ [][SnoopNext]_snoopVars
             /\ []<><<SnoopTick>>_snoopVars
             /\ \A f \in Families : WF_snoopVars(Push(f))
-----------------------------------------------------------------------------
(* Properties. *)

Drained(f) == /\ groupQueue[f] = <<>> /\ scopeQueue[f] = <<>>
              /\ groupCall[f] = Idle /\ scopeCall[f] = Idle

\* The shape of the state.
SnoopTypeOK ==
    /\ \A f \in Families :
          /\ MemberPorts(snoop[f]) \subseteq SnoopPorts
          /\ snoop[f].other \in 0..QuerierHold /\ snoop[f].lastQuery \in 0..QueryInterval
          /\ l2mc[f].ports \subseteq SnoopPorts
    /\ hosts \subseteq Families \X SnoopPorts /\ asked \subseteq hosts
    /\ scopeTable.members \subseteq SnoopPorts

\* Change detection loses nothing: when the pushers are idle and no call of
\* theirs failed, the ASIC holds exactly what the engine last computed
\* (snoop.rs:466 compares with what was pushed, not with what arrived).
GroupsReachAsic ==
    snoopFaults = 0 => \A f \in Families : Drained(f) => l2mc[f] = snoop[f].pushedGroup

\* A host that answers queries, missing fewer in a row than the robustness
\* variable, never stops being a member while the local querier runs: the
\* hold time (snoop.rs:278) outlasts what the lost answers leave open.
ListenerIsKept ==
    \A h \in hosts : h[1] \in lone => h[2] \in MemberPorts(snoop[h[1]])

\* Nothing the engines drop stays in hardware: once nobody listens for good,
\* the group leaves the ASIC, whatever was joined, left or aged out before
\* (snoop.rs:478).
SilentGroupIsRemoved ==
    \A f \in Families :
        (<>[](snoopFaults = 0 /\ hosts = {})) => <>[]~l2mc[f].there

\* Unknown multicast is never kept from a router: when the pushers have caught
\* up, the ports the VLAN's unknown multicast is restricted to include every
\* mrouter either engine knows (snoop.rs:14, "a quiet network keeps flooding
\* rather than blackholing").  It does not hold when both engines are on: each
\* pushes the scope of its own mrouters over the other's.
ScopeCoversMrouters ==
    (snoopFaults = 0 /\ \A f \in Families : Drained(f)) =>
        \A f \in Families :
            scopeRef # NoObject /\ snoop[f].restrict =>
                snoop[f].pushedScope.ports \subseteq scopeObjects[scopeRef]
=============================================================================
