---------------------------- MODULE SnoopProofs ----------------------------
(***************************************************************************)
(* Proofs about multicast snooping, for every set of families and ports,   *)
(* every configuration, query interval and robustness variable, and any    *)
(* number of events and failures.                                          *)
(***************************************************************************)
EXTENDS Snoop, TLAPS

Listeners == Families \X SnoopPorts

Groups == {Absent} \cup {Present(ports) : ports \in SUBSET SnoopPorts}

MemberStates == [age : Nat, leaving : BOOLEAN]

VlanStates ==
    [there : BOOLEAN, members : [SnoopPorts -> MemberStates], mrouters : [SnoopPorts -> Nat],
     other : Nat, lastQuery : 0..QueryInterval,
     pushedGroup : Groups, pushedScope : Groups, restrict : BOOLEAN]

EngineTyped ==
    /\ snoopConfig \in [Families -> SnoopConfigs \cup {SnoopStart}]
    /\ snoop \in [Families -> VlanStates]
    /\ hosts \subseteq Listeners /\ asked \subseteq Listeners
    /\ missed \in [Listeners -> Nat]
    /\ snoopFaults \in Nat

PusherTyped ==
    /\ groupQueue \in [Families -> Seq(Groups)]
    /\ groupCall \in [Families -> {Idle} \cup [pc : {"members"}, ports : SUBSET SnoopPorts]]
    /\ l2mcTable \in [Families -> Groups]

\* What syncd will have recorded when the pusher has done what it was sent.
LastGroup(f) ==
    IF groupQueue[f] # <<>> THEN groupQueue[f][Len(groupQueue[f])]
    ELSE IF groupCall[f] # Idle THEN Present(groupCall[f].ports)
    ELSE l2mcTable[f]

\* The inductive invariant for the pushed groups.
GroupsInv ==
    /\ EngineTyped /\ PusherTyped
    /\ \A f \in Families : groupCall[f] # Idle => l2mcTable[f].there
    /\ snoopFaults = 0 => \A f \in Families : LastGroup(f) = snoop[f].pushedGroup

\* While no call has failed, the ASIC holds what syncd has recorded.
AsicAgrees == snoopFaults = 0 => l2mc = l2mcTable

\* How old a report can be: every query the host heard since it has missed, and the
\* last one was sent lastQuery ago; a query just sent may still be answered.
Kept(age, leaving, lastQuery, lost, waits) ==
    /\ ~leaving /\ age <= Robustness * QueryInterval
    /\ lost <= Robustness - 1
    /\ \/ age <= lost * QueryInterval + lastQuery
       \/ /\ waits /\ lastQuery < QueryInterval
          /\ age <= lost * QueryInterval + QueryInterval + lastQuery

KeptBy(h) ==
    LET st == snoop[h[1]]
        m == st.members[h[2]]
    IN  Kept(m.age, m.leaving, st.lastQuery, missed[h], h \in asked)

\* The inductive invariant for the listeners.
ListenersInv ==
    /\ EngineTyped /\ lone \subseteq Families
    /\ \A f \in lone \cap snoopTicked : snoop[f].lastQuery < QueryInterval
    /\ \A h \in hosts : h[1] \in lone => KeptBy(h)

-----------------------------------------------------------------------------
(* What the messages and the pass over the timers do to the state of a VLAN. *)

LEMMA Holds ==
    /\ MembershipHold \in Nat /\ QuerierHold \in Nat /\ QueryInterval \in Nat
    /\ QueryInterval > 0 /\ Robustness \in Nat /\ Robustness > 0
    /\ Robustness * QueryInterval \in Nat
    /\ Slack \in Nat /\ Slack > 0
    /\ MembershipHold = Robustness * QueryInterval + Slack
  BY SnoopAssumption DEF MembershipHold, QuerierHold

LEMMA NewVlanTyped == NewVlanState \in VlanStates
  <1>1. [p \in SnoopPorts |-> [age |-> MembershipHold, leaving |-> FALSE]]
          \in [SnoopPorts -> MemberStates]
    BY Holds, Zenon DEF MemberStates
  <1>2. [p \in SnoopPorts |-> QuerierHold] \in [SnoopPorts -> Nat]
    BY Holds, Zenon
  <1>3. Absent \in Groups /\ QueryInterval \in 0..QueryInterval /\ QuerierHold \in Nat
    BY Holds DEF Groups
  <1> QED
    BY <1>1, <1>2, <1>3, Zenon DEF NewVlanState, VlanStates

LEMMA ReportFacts ==
    ASSUME NEW st \in VlanStates, NEW p \in SnoopPorts
    PROVE  LET q == Report(st, p)
           IN  /\ q \in VlanStates /\ q.pushedGroup = st.pushedGroup
               /\ q.lastQuery = st.lastQuery
               /\ q.members[p].age = 0 /\ ~q.members[p].leaving
               /\ \A x \in SnoopPorts : x # p => q.members[x] = st.members[x]
  <1> DEFINE fresh == [age |-> 0, leaving |-> FALSE]
             mem == [st.members EXCEPT ![p] = fresh]
  <1>1. st.members \in [SnoopPorts -> MemberStates] /\ fresh \in MemberStates
    BY Zenon DEF VlanStates, MemberStates
  <1>2. /\ mem \in [SnoopPorts -> MemberStates] /\ mem[p] = fresh
        /\ \A x \in SnoopPorts : x # p => mem[x] = st.members[x]
    BY <1>1, Zenon
  <1>3. Report(st, p) = [st EXCEPT !.there = TRUE, !.members = mem]
    BY Zenon DEF Report, VlanStates
  <1>4. fresh.age = 0 /\ ~fresh.leaving
    BY Zenon
  <1> HIDE DEF fresh, mem
  <1>5. LET q == [st EXCEPT !.there = TRUE, !.members = mem]
        IN  /\ q \in VlanStates /\ q.pushedGroup = st.pushedGroup
            /\ q.lastQuery = st.lastQuery /\ q.members = mem
    BY <1>2, Zenon DEF VlanStates
  <1> QED
    BY <1>2, <1>3, <1>4, <1>5, Zenon

LEMMA LeaveFacts ==
    ASSUME NEW f \in Families, NEW st \in VlanStates, NEW p \in SnoopPorts
    PROVE  LET q == Leave(f, st, p)
           IN  /\ q \in VlanStates /\ q.pushedGroup = st.pushedGroup
               /\ q.lastQuery = st.lastQuery
               /\ \A x \in SnoopPorts : x # p => q.members[x] = st.members[x]
  <1> DEFINE gone == LET m == st.members[p]
                     IN  IF m.age = MembershipHold THEN m
                         ELSE IF snoopConfig[f].fastLeave
                         THEN [age |-> MembershipHold, leaving |-> FALSE]
                         ELSE [m EXCEPT !.leaving = TRUE]
             mem == [st.members EXCEPT ![p] = gone]
  <1>1. st.members \in [SnoopPorts -> MemberStates]
    BY Zenon DEF VlanStates
  <1>2. gone \in MemberStates
    BY <1>1, Holds, Zenon DEF MemberStates
  <1>3. Leave(f, st, p) = [st EXCEPT !.there = TRUE, !.members = mem]
    BY Zenon DEF Leave, VlanStates
  <1> HIDE DEF gone
  <1>4. /\ mem \in [SnoopPorts -> MemberStates]
        /\ \A x \in SnoopPorts : x # p => mem[x] = st.members[x]
    BY <1>1, <1>2, Zenon
  <1> HIDE DEF mem
  <1>5. LET q == [st EXCEPT !.there = TRUE, !.members = mem]
        IN  /\ q \in VlanStates /\ q.pushedGroup = st.pushedGroup
            /\ q.lastQuery = st.lastQuery /\ q.members = mem
    BY <1>4, Zenon DEF VlanStates
  <1> QED
    BY <1>3, <1>4, <1>5, Zenon

LEMMA QueryFacts ==
    ASSUME NEW f \in Families, NEW st \in VlanStates, NEW p \in SnoopPorts, NEW source
    PROVE  LET q == Query(f, st, p, source)
           IN  /\ q \in VlanStates /\ q.pushedGroup = st.pushedGroup
               /\ q.lastQuery = st.lastQuery /\ q.members = st.members
  <1> DEFINE routers == [st.mrouters EXCEPT ![p] = 0]
             other == IF source < snoopConfig[f].address THEN 0 ELSE st.other
  <1>1. routers \in [SnoopPorts -> Nat] /\ other \in Nat
    BY Zenon DEF VlanStates
  <1>2. Query(f, st, p, source) = [st EXCEPT !.there = TRUE, !.mrouters = routers,
                                             !.other = other]
    BY Zenon DEF Query, VlanStates
  <1> HIDE DEF routers, other
  <1> QED
    BY <1>1, <1>2, Zenon DEF VlanStates

LEMMA ExpireFacts ==
    ASSUME NEW f \in Families, NEW st \in VlanStates
    PROVE  LET q == Expire(f, st)
           IN  /\ q \in VlanStates /\ q.pushedGroup = st.pushedGroup
               /\ q.lastQuery = st.lastQuery
               /\ Enabled(f) => q.members = st.members
  BY NewVlanTyped, Zenon DEF Expire, VlanStates

LEMMA WantedTyped ==
    ASSUME EngineTyped, NEW f \in Families, NEW st \in VlanStates
    PROVE  /\ WantedGroup(f, st) \in Groups /\ WantedScope(f, st) \in Groups
           /\ Restricts(f, st) \in BOOLEAN
  <1>1. snoopConfig[f].static \subseteq SnoopPorts /\ snoopConfig[f].querier \in BOOLEAN
    BY SnoopAssumption, Zenon DEF EngineTyped
  <1>2. Mrouters(f, st) \subseteq SnoopPorts /\ MemberPorts(st) \subseteq SnoopPorts
    BY <1>1, Zenon DEF Mrouters, MemberPorts
  <1>3. Absent \in Groups /\ \A ports \in SUBSET SnoopPorts : Present(ports) \in Groups
    BY Zenon DEF Groups
  <1>4. MemberPorts(st) \cup Mrouters(f, st) \in SUBSET SnoopPorts
          /\ Mrouters(f, st) \in SUBSET SnoopPorts /\ {} \in SUBSET SnoopPorts
    BY <1>2, Zenon
  <1>5. WantedGroup(f, st) \in Groups /\ WantedScope(f, st) \in Groups
    BY <1>3, <1>4, Zenon DEF WantedGroup, WantedScope
  <1>6. Restricts(f, st) \in BOOLEAN
    BY <1>1, Zenon DEF Restricts, Enabled
  <1> QED
    BY <1>5, <1>6, Zenon

\* One pass of step(): what it sends to the group pusher is what it remembers as
\* pushed, and while the local querier runs alone a due query reaches every host.
LEMMA StepFacts ==
    ASSUME EngineTyped, NEW f \in Families, NEW before \in VlanStates,
           NEW waiting, waiting \subseteq Listeners, hosts' \subseteq Listeners,
           SnoopStep(f, before, waiting)
    PROVE  /\ snoop' \in [Families -> VlanStates]
           /\ \A g \in Families : g # f => snoop'[g] = snoop[g]
           /\ asked' \subseteq Listeners /\ waiting \subseteq asked'
           /\ lone' \subseteq lone
           /\ \/ groupQueue' = groupQueue /\ snoop'[f].pushedGroup = before.pushedGroup
              \/ groupQueue' = [groupQueue EXCEPT ![f] = Append(@, snoop'[f].pushedGroup)]
           /\ f \in lone' =>
                 /\ Enabled(f) /\ snoop'[f].members = before.members
                 /\ \/ /\ before.lastQuery < QueryInterval
                       /\ snoop'[f].lastQuery = before.lastQuery
                    \/ /\ before.lastQuery = QueryInterval /\ snoop'[f].lastQuery = 0
                       /\ \A h \in hosts' : h[1] = f => h \in asked'
  <1>1. CASE ~before.there /\ ~snoopConfig[f].vlan
    BY <1>1, Zenon DEF SnoopStep, EngineTyped
  <1>2. CASE ~(~before.there /\ ~snoopConfig[f].vlan)
    <2> DEFINE st == Expire(f, before)
               group == WantedGroup(f, st)
               scope == WantedScope(f, st)
               restrict == Restricts(f, st)
               due == QueryDue(f, st)
               last == IF due THEN 0 ELSE st.lastQuery
               new == [st EXCEPT !.pushedGroup = group, !.pushedScope = scope,
                                 !.restrict = restrict, !.lastQuery = last]
    <2>1. /\ st \in VlanStates /\ st.pushedGroup = before.pushedGroup
          /\ st.lastQuery = before.lastQuery
          /\ Enabled(f) => st.members = before.members
      BY ExpireFacts, Zenon
    <2>2. group \in Groups /\ scope \in Groups /\ restrict \in BOOLEAN
      BY <2>1, WantedTyped, Zenon
    <2>3. /\ snoop' = [snoop EXCEPT ![f] =
                [st EXCEPT !.pushedGroup = group, !.pushedScope = scope,
                           !.restrict = restrict, !.lastQuery = IF due THEN 0 ELSE @]]
          /\ groupQueue' = IF group = st.pushedGroup THEN groupQueue
                           ELSE [groupQueue EXCEPT ![f] = Append(@, group)]
          /\ asked' = waiting \cup {h \in hosts' : due /\ h[1] = f}
          /\ lone' = IF snoopConfig[f].querier /\ Enabled(f) /\ st.other = QuerierHold
                     THEN lone ELSE lone \ {f}
      BY <1>2, Zenon DEF SnoopStep
    <2>4. due = (/\ Enabled(f) /\ snoopConfig[f].querier /\ st.other = QuerierHold
                 /\ st.lastQuery >= QueryInterval)
      BY Zenon DEF QueryDue
    <2> HIDE DEF st, group, scope, restrict, due
    <2>5. last \in 0..QueryInterval
      BY <2>1, Holds DEF VlanStates
    <2>6. snoop' = [snoop EXCEPT ![f] = new]
      BY <2>1, <2>3, Zenon DEF VlanStates
    <2> HIDE DEF last
    <2>7. /\ new \in VlanStates /\ new.pushedGroup = group
          /\ new.lastQuery = last /\ new.members = st.members
      BY <2>1, <2>2, <2>5, Zenon DEF VlanStates
    <2> HIDE DEF new
    <2>8. /\ snoop' \in [Families -> VlanStates] /\ snoop'[f] = new
          /\ \A g \in Families : g # f => snoop'[g] = snoop[g]
      BY <2>6, <2>7, Zenon DEF EngineTyped
    <2>9. asked' \subseteq Listeners /\ waiting \subseteq asked' /\ lone' \subseteq lone
      BY <2>3, Zenon
    <2>10. \/ groupQueue' = groupQueue /\ snoop'[f].pushedGroup = before.pushedGroup
           \/ groupQueue' = [groupQueue EXCEPT ![f] = Append(@, snoop'[f].pushedGroup)]
      BY <2>1, <2>3, <2>7, <2>8, Zenon
    <2>11. ASSUME f \in lone'
           PROVE  /\ Enabled(f) /\ snoop'[f].members = before.members
                  /\ \/ /\ before.lastQuery < QueryInterval
                        /\ snoop'[f].lastQuery = before.lastQuery
                     \/ /\ before.lastQuery = QueryInterval /\ snoop'[f].lastQuery = 0
                        /\ \A h \in hosts' : h[1] = f => h \in asked'
      <3>1. snoopConfig[f].querier /\ Enabled(f) /\ st.other = QuerierHold
        BY <2>3, <2>11, Zenon
      <3>2. before.lastQuery \in 0..QueryInterval
        BY Zenon DEF VlanStates
      <3>3. snoop'[f].members = before.members
        BY <2>1, <2>7, <2>8, <3>1, Zenon
      <3>4. CASE before.lastQuery < QueryInterval
        <4>1. ~due
          BY <2>1, <2>4, <3>2, <3>4, Holds
        <4>2. last = before.lastQuery
          BY <2>1, <4>1, Zenon DEF last
        <4> QED
          BY <2>7, <2>8, <3>1, <3>3, <3>4, <4>2, Zenon
      <3>5. CASE ~(before.lastQuery < QueryInterval)
        <4>1. before.lastQuery = QueryInterval
          BY <3>2, <3>5, Holds
        <4>2. due
          BY <2>1, <2>4, <3>1, <4>1, Holds
        <4>3. last = 0
          BY <4>2, Zenon DEF last
        <4>4. \A h \in hosts' : h[1] = f => h \in asked'
          BY <2>3, <4>2, Zenon
        <4> QED
          BY <2>7, <2>8, <3>1, <3>3, <4>1, <4>3, <4>4, Zenon
      <3> QED
        BY <3>4, <3>5, Zenon
    <2> QED
      BY <2>8, <2>9, <2>10, <2>11, Zenon
  <1> QED
    BY <1>1, <1>2, Zenon
-----------------------------------------------------------------------------
(* The pushed groups. *)

\* The channel to a pusher: what is sent is last, and what is last stays last when
\* the head is taken.
LEMMA ChannelFacts ==
    ASSUME NEW S, NEW q \in Seq(S)
    PROVE  /\ \A x \in S : /\ Append(q, x) \in Seq(S) /\ Append(q, x) # <<>>
                           /\ Append(q, x)[Len(Append(q, x))] = x
           /\ q # <<>> => /\ Tail(q) \in Seq(S) /\ Head(q) \in S
                          /\ Tail(q) = <<>> => Head(q) = q[Len(q)]
                          /\ Tail(q) # <<>> => Tail(q)[Len(Tail(q))] = q[Len(q)]
  OBVIOUS

\* A pass keeps the end of the queue equal to what the engine remembers.
LEMMA StepGroups ==
    ASSUME GroupsInv, NEW f \in Families, NEW before \in VlanStates,
           before.pushedGroup = snoop[f].pushedGroup,
           NEW waiting, waiting \subseteq Listeners, hosts' \subseteq Listeners,
           SnoopStep(f, before, waiting),
           UNCHANGED <<snoopConfig, groupCall, l2mcTable, snoopFaults>>,
           missed' \in [Listeners -> Nat]
    PROVE  GroupsInv'
  <1>1. EngineTyped /\ PusherTyped
    BY Zenon DEF GroupsInv
  <1>2. /\ snoop' \in [Families -> VlanStates]
        /\ \A g \in Families : g # f => snoop'[g] = snoop[g]
        /\ asked' \subseteq Listeners
        /\ \/ groupQueue' = groupQueue /\ snoop'[f].pushedGroup = before.pushedGroup
           \/ groupQueue' = [groupQueue EXCEPT ![f] = Append(@, snoop'[f].pushedGroup)]
    BY <1>1, StepFacts, Zenon
  <1>3. EngineTyped'
    BY <1>1, <1>2, Zenon DEF EngineTyped
  <1>4. snoop'[f].pushedGroup \in Groups /\ groupQueue[f] \in Seq(Groups)
    BY <1>1, <1>2, Zenon DEF VlanStates, PusherTyped
  <1>5. PusherTyped'
    <2>1. Append(groupQueue[f], snoop'[f].pushedGroup) \in Seq(Groups)
      BY <1>4, ChannelFacts, Zenon
    <2>2. groupQueue' \in [Families -> Seq(Groups)]
      BY <1>1, <1>2, <2>1, Zenon DEF PusherTyped
    <2> QED
      BY <1>1, <2>2, Zenon DEF PusherTyped
  <1>6. ASSUME snoopFaults' = 0, NEW g \in Families
        PROVE  LastGroup(g)' = snoop'[g].pushedGroup
    <2>1. LastGroup(g) = snoop[g].pushedGroup
      BY <1>6, Zenon DEF GroupsInv
    <2>2. CASE groupQueue' = groupQueue /\ snoop'[f].pushedGroup = before.pushedGroup
      BY <1>2, <2>1, <2>2, Zenon DEF LastGroup
    <2>3. CASE groupQueue' = [groupQueue EXCEPT ![f] = Append(@, snoop'[f].pushedGroup)]
      <3>1. CASE g = f
        <4>1. groupQueue'[f] = Append(groupQueue[f], snoop'[f].pushedGroup)
          BY <1>1, <2>3, Zenon DEF PusherTyped
        <4>2. groupQueue'[f] # <<>>
                /\ groupQueue'[f][Len(groupQueue'[f])] = snoop'[f].pushedGroup
          BY <1>4, <4>1, ChannelFacts
        <4> QED
          BY <2>1, <3>1, <4>2, Zenon DEF LastGroup
      <3>2. CASE g # f
        <4>1. groupQueue'[g] = groupQueue[g] /\ snoop'[g] = snoop[g]
          BY <1>1, <1>2, <2>3, <3>2, Zenon DEF PusherTyped
        <4> QED
          BY <2>1, <4>1, Zenon DEF LastGroup
      <3> QED
        BY <3>1, <3>2, Zenon
    <2> QED
      BY <1>2, <2>2, <2>3, Zenon
  <1> QED
    BY <1>3, <1>5, <1>6, Zenon DEF GroupsInv

LEMMA GroupsInit == SnoopInit => GroupsInv
  <1> SUFFICES ASSUME SnoopInit PROVE GroupsInv
    BY Zenon
  <1>1. EngineTyped
    <2>1. snoop \in [Families -> VlanStates]
      BY NewVlanTyped, Zenon DEF SnoopInit
    <2> QED
      BY <2>1, Zenon DEF SnoopInit, EngineTyped, Listeners
  <1>2. PusherTyped
    BY SMTT(60) DEF SnoopInit, PusherTyped, Groups
  <1>3. \A f \in Families : LastGroup(f) = snoop[f].pushedGroup /\ groupCall[f] = Idle
    BY Zenon DEF SnoopInit, LastGroup, NewVlanState
  <1> QED
    BY <1>1, <1>2, <1>3, Zenon DEF GroupsInv

\* The actions of the engine.
LEMMA EngineGroups ==
    ASSUME GroupsInv,
           \/ \E f \in Families : SnoopEngineTick(f)
           \/ \E h \in Listeners : HostJoin(h) \/ HostLeave(h) \/ HostAnswer(h)
           \/ \E r \in Routers : RouterQuery(r)
    PROVE  GroupsInv'
  <1>1. EngineTyped
    BY Zenon DEF GroupsInv
  <1>2. \A f \in Families : snoop[f] \in VlanStates
    BY <1>1, Zenon DEF EngineTyped
  <1>3. ASSUME NEW h \in Listeners
        PROVE  h[1] \in Families /\ h[2] \in SnoopPorts
    BY Zenon DEF Listeners
  <1>4. ASSUME NEW f \in Families, SnoopEngineTick(f) PROVE GroupsInv'
    <2>1. hosts' \subseteq Listeners /\ asked \subseteq Listeners /\ missed' \in [Listeners -> Nat]
      BY <1>1, <1>4, Zenon DEF EngineTyped, SnoopEngineTick
    <2> QED
      BY <1>2, <1>4, <2>1, StepGroups, Zenon DEF SnoopEngineTick, asicVars
  <1>5. ASSUME NEW h \in Listeners, HostJoin(h) PROVE GroupsInv'
    <2>1. hosts' \subseteq Listeners /\ asked \subseteq Listeners /\ missed' \in [Listeners -> Nat]
      BY <1>1, <1>5, Zenon DEF EngineTyped, HostJoin
    <2> DEFINE heard == Heard(h[1], Report(snoop[h[1]], h[2]))
    <2>2. heard \in VlanStates /\ heard.pushedGroup = snoop[h[1]].pushedGroup
      BY <1>2, <1>3, ReportFacts, Zenon DEF Heard
    <2>3. /\ SnoopStep(h[1], heard, asked)
          /\ UNCHANGED <<snoopConfig, groupCall, l2mcTable, snoopFaults>>
      BY <1>5, Zenon DEF HostJoin, asicVars
    <2> HIDE DEF heard
    <2> QED
      BY <1>3, <2>1, <2>2, <2>3, StepGroups, Zenon
  <1>6. ASSUME NEW h \in Listeners, HostLeave(h) PROVE GroupsInv'
    <2>1. hosts' \subseteq Listeners /\ asked \ {h} \subseteq Listeners
            /\ missed' \in [Listeners -> Nat]
      BY <1>1, <1>6, Zenon DEF EngineTyped, HostLeave
    <2> DEFINE heard == Heard(h[1], Leave(h[1], snoop[h[1]], h[2]))
    <2>2. heard \in VlanStates /\ heard.pushedGroup = snoop[h[1]].pushedGroup
      BY <1>2, <1>3, LeaveFacts, ZenonT(60) DEF Heard
    <2>3. /\ SnoopStep(h[1], heard, asked \ {h})
          /\ UNCHANGED <<snoopConfig, groupCall, l2mcTable, snoopFaults>>
      BY <1>6, Zenon DEF HostLeave, asicVars
    <2> HIDE DEF heard
    <2> QED
      BY <1>3, <2>1, <2>2, <2>3, StepGroups, Zenon
  <1>7. ASSUME NEW h \in Listeners, HostAnswer(h) PROVE GroupsInv'
    <2>1. hosts' \subseteq Listeners /\ asked \ {h} \subseteq Listeners
            /\ missed' \in [Listeners -> Nat]
      BY <1>1, <1>7, Zenon DEF EngineTyped, HostAnswer
    <2> DEFINE heard == Heard(h[1], Report(snoop[h[1]], h[2]))
    <2>2. heard \in VlanStates /\ heard.pushedGroup = snoop[h[1]].pushedGroup
      BY <1>2, <1>3, ReportFacts, Zenon DEF Heard
    <2>3. /\ SnoopStep(h[1], heard, asked \ {h})
          /\ UNCHANGED <<snoopConfig, groupCall, l2mcTable, snoopFaults>>
      BY <1>7, Zenon DEF HostAnswer, asicVars
    <2> HIDE DEF heard
    <2> QED
      BY <1>3, <2>1, <2>2, <2>3, StepGroups, Zenon
  <1>8. ASSUME NEW r \in Routers, RouterQuery(r) PROVE GroupsInv'
    <2>1. r[1] \in Families /\ r[2] \in SnoopPorts
      BY SnoopAssumption, Zenon
    <2> DEFINE heard == Heard(r[1], Query(r[1], snoop[r[1]], r[2], r[3]))
               waiting == asked \cup {h \in hosts : h[1] = r[1]}
    <2>2. hosts' \subseteq Listeners /\ waiting \subseteq Listeners /\ missed' \in [Listeners -> Nat]
      BY <1>1, <1>8, Zenon DEF EngineTyped, RouterQuery
    <2>3. heard \in VlanStates /\ heard.pushedGroup = snoop[r[1]].pushedGroup
      BY <1>2, <2>1, QueryFacts, SMTT(60) DEF Heard
    <2>4. /\ SnoopStep(r[1], heard, waiting)
          /\ UNCHANGED <<snoopConfig, groupCall, l2mcTable, snoopFaults>>
      BY <1>8, Zenon DEF RouterQuery, asicVars
    <2> HIDE DEF heard, waiting
    <2> QED
      BY <2>1, <2>2, <2>3, <2>4, StepGroups, Zenon
  <1> QED
    BY <1>4, <1>5, <1>6, <1>7, <1>8, Zenon

\* What the clock does to the state of a VLAN.
LEMMA TickFacts ==
    ASSUME EngineTyped, SnoopTick, NEW f \in Families
    PROVE  /\ snoop'[f] \in VlanStates /\ snoop'[f].pushedGroup = snoop[f].pushedGroup
           /\ snoop'[f].lastQuery = Older(snoop[f].lastQuery, QueryInterval)
           /\ \A p \in SnoopPorts : ~snoop[f].members[p].leaving =>
                 /\ snoop'[f].members[p].age = Older(snoop[f].members[p].age, MembershipHold)
                 /\ ~snoop'[f].members[p].leaving
  <1> DEFINE mem == [p \in SnoopPorts |-> Aged(snoop[f].members[p])]
             routers == [p \in SnoopPorts |-> Older(snoop[f].mrouters[p], QuerierHold)]
             other == Older(snoop[f].other, QuerierHold)
             last == Older(snoop[f].lastQuery, QueryInterval)
  <1>1. snoop[f] \in VlanStates
    BY Zenon DEF EngineTyped
  <1>2. ASSUME NEW p \in SnoopPorts
        PROVE  /\ Aged(snoop[f].members[p]) \in MemberStates
               /\ ~snoop[f].members[p].leaving =>
                     /\ Aged(snoop[f].members[p]).age
                          = Older(snoop[f].members[p].age, MembershipHold)
                     /\ ~Aged(snoop[f].members[p]).leaving
    <2>1. snoop[f].members[p] \in MemberStates
      BY <1>1, Zenon DEF VlanStates
    <2>2. Older(snoop[f].members[p].age, MembershipHold) \in Nat
      BY <2>1, Holds DEF Older, MemberStates
    <2> QED
      BY <2>1, <2>2, Holds, Zenon DEF MemberStates, Aged
  <1>3. mem \in [SnoopPorts -> MemberStates]
    BY <1>2, Zenon
  <1>4. routers \in [SnoopPorts -> Nat] /\ other \in Nat /\ last \in 0..QueryInterval
    BY <1>1, Holds, SMTT(60) DEF VlanStates, Older
  <1>5. snoop'[f] = [snoop[f] EXCEPT !.members = mem, !.mrouters = routers,
                                     !.other = other, !.lastQuery = last]
    BY Zenon DEF SnoopTick
  <1>6. \A p \in SnoopPorts : mem[p] = Aged(snoop[f].members[p])
    BY Zenon
  <1> HIDE DEF mem, routers, other, last
  <1>7. /\ snoop'[f] \in VlanStates /\ snoop'[f].pushedGroup = snoop[f].pushedGroup
        /\ snoop'[f].lastQuery = last /\ snoop'[f].members = mem
    BY <1>1, <1>3, <1>4, <1>5, ZenonT(60) DEF VlanStates
  <1> QED
    BY <1>2, <1>6, <1>7, Zenon DEF last

LEMMA TickTyped ==
    ASSUME EngineTyped, SnoopTick
    PROVE  EngineTyped'
  <1>1. snoop' = [f \in Families |-> snoop'[f]]
    BY Zenon DEF SnoopTick
  <1>2. \A f \in Families : snoop'[f] \in VlanStates
    BY TickFacts, Zenon
  <1>3. snoop' \in [Families -> VlanStates]
    BY <1>1, <1>2, Zenon
  <1> QED
    BY <1>3, Zenon DEF EngineTyped, SnoopTick

\* A group that is there is its ports; one that is not is Absent.
LEMMA GroupFacts ==
    ASSUME NEW group \in Groups
    PROVE  /\ \/ group = Absent /\ ~group.there
              \/ group = Present(group.ports) /\ group.there
                   /\ group.ports \in SUBSET SnoopPorts
           /\ \A ports \in SUBSET SnoopPorts :
                 group.there => [group EXCEPT !.ports = ports] = Present(ports)
  <1>1. CASE group = Absent
    <2>1. ~group.there
      BY <1>1, Zenon DEF Absent
    <2> QED
      BY <1>1, <2>1, Zenon
  <1>2. CASE group \in {Present(ports) : ports \in SUBSET SnoopPorts}
    <2>1. PICK own \in SUBSET SnoopPorts : group = Present(own)
      BY <1>2, Zenon
    <2>2. group = [there |-> TRUE, ports |-> own]
      BY <2>1, Zenon DEF Present
    <2>3. group.there /\ group.ports = own
      BY <2>2, Zenon
    <2>4. ASSUME NEW ports \in SUBSET SnoopPorts
          PROVE  [group EXCEPT !.ports = ports] = Present(ports)
      <3>1. \A b : [[there |-> b, ports |-> own] EXCEPT !.ports = ports]
                     = [there |-> b, ports |-> ports]
        OBVIOUS
      <3> QED
        BY <2>2, <3>1, Zenon DEF Present
    <2>5. group = Present(group.ports) /\ group.there /\ group.ports \in SUBSET SnoopPorts
      BY <2>1, <2>3, Zenon
    <2> QED
      BY <2>4, <2>5, Zenon
  <1> QED
    BY <1>1, <1>2, Zenon DEF Groups

\* push_l2mc_groups takes an update from its channel.
LEMMA PushGroups ==
    ASSUME GroupsInv, NEW f \in Families, PushGroup(f)
    PROVE  GroupsInv'
  <1>1. EngineTyped /\ PusherTyped /\ EngineTyped'
    <2>1. EngineTyped /\ PusherTyped
      BY Zenon DEF GroupsInv
    <2>2. UNCHANGED engineVars /\ (UNCHANGED snoopFaults \/ Fault)
      BY Zenon DEF PushGroup, RemoveGroup, EnsureGroup
    <2>3. snoopFaults' \in Nat
      BY <2>1, <2>2 DEF EngineTyped, Fault
    <2> QED
      BY <2>1, <2>2, <2>3, Zenon DEF EngineTyped, engineVars
  <1> DEFINE q == groupQueue[f]
             update == Head(q)
             call == [pc |-> "members", ports |-> update.ports]
  <1>2. q \in Seq(Groups) /\ q # <<>> /\ groupCall[f] = Idle
    BY <1>1, Zenon DEF PusherTyped, PushGroup
  <1>3. /\ update \in Groups /\ Tail(q) \in Seq(Groups)
        /\ Tail(q) = <<>> => update = q[Len(q)]
        /\ Tail(q) # <<>> => Tail(q)[Len(Tail(q))] = q[Len(q)]
    BY <1>2, ChannelFacts, Zenon
  <1>4. \/ update = Absent /\ ~update.there
        \/ update = Present(update.ports) /\ update.there /\ update.ports \in SUBSET SnoopPorts
    BY <1>3, GroupFacts, Zenon
  <1>5. \A g \in Families : groupQueue'[g] = IF g = f THEN Tail(q) ELSE groupQueue[g]
    BY <1>1, Zenon DEF PushGroup, PusherTyped
  <1>6. groupQueue' \in [Families -> Seq(Groups)]
    BY <1>1, <1>3, Zenon DEF PushGroup, PusherTyped
  <1>7. snoopFaults \in Nat /\ UNCHANGED snoop
    BY <1>1, Zenon DEF EngineTyped, PushGroup, engineVars
  <1>8. ASSUME snoopFaults = 0, NEW g \in Families
        PROVE  LastGroup(g) = snoop[g].pushedGroup
    BY <1>8, Zenon DEF GroupsInv
  <1>9. ASSUME snoopFaults = 0 PROVE q[Len(q)] = snoop[f].pushedGroup
    BY <1>2, <1>8, <1>9, Zenon DEF LastGroup
  <1> HIDE DEF q, update
  <1>10. CASE /\ ~update.there
              /\ l2mcTable' = [l2mcTable EXCEPT ![f] = Absent]
              /\ UNCHANGED <<groupCall, snoopFaults>>
    <2>1. PusherTyped'
      BY <1>1, <1>6, <1>10, Zenon DEF PusherTyped, Groups
    <2>2. \A g \in Families : l2mcTable'[g] = IF g = f THEN Absent ELSE l2mcTable[g]
      BY <1>1, <1>10, Zenon DEF PusherTyped
    <2>3. ASSUME snoopFaults' = 0, NEW g \in Families
          PROVE  LastGroup(g)' = snoop'[g].pushedGroup
      <3>1. CASE g = f
        BY <1>2, <1>3, <1>4, <1>5, <1>7, <1>9, <1>10, <2>2, <2>3, <3>1, Zenon DEF LastGroup
      <3>2. CASE g # f
        BY <1>5, <1>7, <1>8, <1>10, <2>2, <2>3, <3>2, Zenon DEF LastGroup
      <3> QED
        BY <3>1, <3>2, Zenon
    <2>4. \A g \in Families : groupCall'[g] # Idle => l2mcTable'[g].there
      BY <1>2, <1>10, <2>2, Zenon DEF GroupsInv
    <2> QED
      BY <1>1, <2>1, <2>3, <2>4, Zenon DEF GroupsInv
  <1>11. CASE /\ update.there
              /\ l2mcTable' = [l2mcTable EXCEPT ![f] = IF @.there THEN @ ELSE Present({})]
              /\ groupCall' = [groupCall EXCEPT ![f] = call]
              /\ UNCHANGED snoopFaults
    <2>1. Present({}) \in Groups /\ Present({}).there
      BY Zenon DEF Groups, Present
    <2>2. /\ call \in [pc : {"members"}, ports : SUBSET SnoopPorts] /\ call # Idle
          /\ call.ports = update.ports
      BY <1>4, <1>11, Zenon DEF Idle
    <2>3. /\ \A g \in Families : groupCall'[g] = IF g = f THEN call ELSE groupCall[g]
          /\ \A g \in Families : g # f => l2mcTable'[g] = l2mcTable[g]
          /\ l2mcTable'[f].there
      BY <1>1, <1>11, <2>1, Zenon DEF PusherTyped
    <2>4. PusherTyped'
      BY <1>1, <1>6, <1>11, <2>1, <2>2, Zenon DEF PusherTyped
    <2> HIDE DEF call
    <2>5. ASSUME snoopFaults' = 0, NEW g \in Families
          PROVE  LastGroup(g)' = snoop'[g].pushedGroup
      <3>1. CASE g = f
        <4>1. q[Len(q)] = snoop'[f].pushedGroup
          BY <1>7, <1>9, <1>11, <2>5, Zenon
        <4>2. Present(groupCall'[f].ports) = update /\ groupCall'[f] # Idle
          BY <1>4, <1>11, <2>2, <2>3, Zenon
        <4>3. groupQueue'[f] = Tail(q)
          BY <1>5, Zenon
        <4>4. CASE Tail(q) = <<>>
          BY <1>3, <3>1, <4>1, <4>2, <4>3, <4>4, Zenon DEF LastGroup
        <4>5. CASE Tail(q) # <<>>
          BY <1>3, <3>1, <4>1, <4>3, <4>5, Zenon DEF LastGroup
        <4> QED
          BY <4>4, <4>5, Zenon
      <3>2. CASE g # f
        BY <1>5, <1>7, <1>8, <1>11, <2>3, <2>5, <3>2, SMTT(60) DEF LastGroup
      <3> QED
        BY <3>1, <3>2, Zenon
    <2>6. \A g \in Families : groupCall'[g] # Idle => l2mcTable'[g].there
      BY <2>3, Zenon DEF GroupsInv
    <2> QED
      BY <1>1, <2>4, <2>5, <2>6, Zenon DEF GroupsInv
  <1>12. CASE Fault /\ UNCHANGED <<l2mcTable, groupCall>>
    <2>1. PusherTyped' /\ snoopFaults' # 0
      BY <1>1, <1>6, <1>7, <1>12 DEF PusherTyped, Fault
    <2> QED
      BY <1>1, <1>12, <2>1, Zenon DEF GroupsInv
  <1>13. CASE Fault /\ l2mcTable' = [l2mcTable EXCEPT ![f] = Absent] /\ UNCHANGED groupCall
    <2>1. PusherTyped'
      BY <1>1, <1>6, <1>13, Zenon DEF PusherTyped, Groups
    <2>2. snoopFaults' # 0
      BY <1>7, <1>13 DEF Fault
    <2>3. \A g \in Families : groupCall'[g] # Idle => l2mcTable'[g].there
      BY <1>1, <1>2, <1>13, Zenon DEF GroupsInv, PusherTyped
    <2> QED
      BY <1>1, <2>1, <2>2, <2>3, Zenon DEF GroupsInv
  <1>14. \/ ~update.there /\ RemoveGroup(f)
         \/ update.there /\ EnsureGroup(f, update.ports)
    BY Zenon DEF PushGroup, q, update
  <1>15. CASE ~update.there /\ RemoveGroup(f)
    BY <1>10, <1>12, <1>13, <1>15, Zenon DEF RemoveGroup
  <1>16. CASE update.there /\ EnsureGroup(f, update.ports)
    BY <1>11, <1>12, <1>16, Zenon DEF EnsureGroup
  <1> QED
    BY <1>14, <1>15, <1>16, Zenon

\* SetL2mcMembers.
LEMMA SetMembersGroups ==
    ASSUME GroupsInv, AsicAgrees, NEW f \in Families, SetMembers(f)
    PROVE  GroupsInv'
  <1>1. EngineTyped /\ PusherTyped /\ EngineTyped'
    <2>1. EngineTyped /\ PusherTyped
      BY Zenon DEF GroupsInv
    <2>2. UNCHANGED engineVars /\ (UNCHANGED snoopFaults \/ Fault)
      BY Zenon DEF SetMembers
    <2>3. snoopFaults' \in Nat
      BY <2>1, <2>2 DEF EngineTyped, Fault
    <2> QED
      BY <2>1, <2>2, <2>3, Zenon DEF EngineTyped, engineVars
  <1>2. /\ groupCall[f] # Idle /\ groupCall' = [groupCall EXCEPT ![f] = Idle]
        /\ UNCHANGED <<snoop, groupQueue>>
    BY Zenon DEF SetMembers, engineVars, otherQueues
  <1>3. groupCall[f].ports \in SUBSET SnoopPorts
    BY <1>1, <1>2, Zenon DEF PusherTyped
  <1>4. \A g \in Families : groupCall'[g] = IF g = f THEN Idle ELSE groupCall[g]
    BY <1>1, <1>2, Zenon DEF PusherTyped
  <1>5. groupCall' \in [Families -> {Idle} \cup [pc : {"members"}, ports : SUBSET SnoopPorts]]
    BY <1>1, <1>2, Zenon DEF PusherTyped
  <1>6. CASE /\ l2mcTable' = [l2mcTable EXCEPT ![f].ports = groupCall[f].ports]
             /\ UNCHANGED snoopFaults
    <2> DEFINE entry == Present(groupCall[f].ports)
    <2>1. l2mcTable[f].there /\ l2mcTable[f] \in Groups
      BY <1>1, <1>2, Zenon DEF PusherTyped, GroupsInv
    <2>2. [l2mcTable[f] EXCEPT !.ports = groupCall[f].ports] = entry
      BY <1>3, <2>1, GroupFacts, Zenon
    <2>3. l2mcTable' = [l2mcTable EXCEPT ![f] = entry]
      BY <1>1, <1>6, <2>2, Zenon DEF PusherTyped
    <2>4. entry \in Groups /\ entry.there
      BY <1>3, Zenon DEF Groups, Present
    <2> HIDE DEF entry
    <2>5. \A g \in Families : l2mcTable'[g] = IF g = f THEN entry ELSE l2mcTable[g]
      BY <1>1, <2>3, Zenon DEF PusherTyped
    <2>6. PusherTyped'
      BY <1>1, <1>2, <1>5, <2>3, <2>4, Zenon DEF PusherTyped
    <2>7. \A g \in Families : groupCall'[g] # Idle => l2mcTable'[g].there
      BY <1>4, <2>5, Zenon DEF GroupsInv
    <2>8. ASSUME snoopFaults' = 0, NEW g \in Families
          PROVE  LastGroup(g)' = snoop'[g].pushedGroup
      <3>1. LastGroup(g) = snoop[g].pushedGroup
        BY <1>6, <2>8, Zenon DEF GroupsInv
      <3>2. LastGroup(g)' = LastGroup(g)
        BY <1>2, <1>4, <2>5, SMTT(60) DEF LastGroup, entry
      <3> QED
        BY <1>2, <3>1, <3>2, Zenon
    <2> QED
      BY <1>1, <2>6, <2>7, <2>8, Zenon DEF GroupsInv
  <1>7. CASE Fault /\ UNCHANGED l2mcTable
    <2>1. PusherTyped' /\ snoopFaults' # 0
      BY <1>1, <1>2, <1>5, <1>7, SMTT(60) DEF PusherTyped, EngineTyped, Fault
    <2> QED
      BY <1>1, <1>4, <1>7, <2>1, Zenon DEF GroupsInv
  <1>8. CASE UNCHANGED <<l2mcTable, snoopFaults>> /\ ~Reconcilable(f)
    <2>1. PusherTyped'
      BY <1>1, <1>2, <1>5, <1>8, Zenon DEF PusherTyped
    <2>2. \A g \in Families : groupCall'[g] # Idle => l2mcTable'[g].there
      BY <1>4, <1>8, Zenon DEF GroupsInv
    <2>3. snoopFaults' # 0
      BY <1>8, Zenon DEF AsicAgrees, Reconcilable, Stale, Added
    <2> QED
      BY <1>1, <2>1, <2>2, <2>3, Zenon DEF GroupsInv
  <1> QED
    BY <1>6, <1>7, <1>8, Zenon DEF SetMembers, Reconciled, StopsShort

LEMMA GroupsStep == GroupsInv /\ AsicAgrees /\ [SnoopNext]_snoopVars => GroupsInv'
  <1> SUFFICES ASSUME GroupsInv, AsicAgrees, [SnoopNext]_snoopVars PROVE GroupsInv'
    BY Zenon
  <1>1. EngineTyped /\ PusherTyped
    BY Zenon DEF GroupsInv
  <1>2. ASSUME UNCHANGED <<groupQueue, groupCall, l2mcTable>>, EngineTyped',
               \/ snoopFaults' # 0
               \/ /\ UNCHANGED snoopFaults
                  /\ \A f \in Families : snoop'[f].pushedGroup = snoop[f].pushedGroup
        PROVE  GroupsInv'
    BY <1>1, <1>2, Zenon DEF GroupsInv, PusherTyped, LastGroup
  <1>3. ASSUME NEW f \in Families, SnoopEngineTick(f) PROVE GroupsInv'
    BY <1>3, EngineGroups, Zenon
  <1>4. ASSUME NEW f \in Families, Push(f) PROVE GroupsInv'
    <2>1. CASE PushGroup(f)
      BY <2>1, PushGroups, Zenon
    <2>2. CASE SetMembers(f)
      BY <2>2, SetMembersGroups, Zenon
    <2>3. CASE PushScope(f)
      <3>1. UNCHANGED <<groupQueue, groupCall, l2mcTable, snoop>> /\ (UNCHANGED snoopFaults \/ Fault)
        BY <2>3, Zenon DEF PushScope, engineVars
      <3>2. snoopFaults' \in Nat /\ (UNCHANGED snoopFaults \/ snoopFaults' # 0)
        BY <1>1, <3>1, SMTT(60) DEF EngineTyped, Fault
      <3>3. EngineTyped'
        BY <1>1, <2>3, <3>2, Zenon DEF EngineTyped, PushScope, engineVars
      <3> QED
        BY <1>2, <3>1, <3>2, <3>3, Zenon
    <2>4. CASE ScopeFlood(f) \/ ScopeCreate(f) \/ ScopeApply(f)
      <3>1. UNCHANGED <<engineVars, groupQueue, groupCall, l2mcTable, snoopFaults>>
        BY <2>4, Zenon DEF ScopeFlood, ScopeCreate, ScopeApply
      <3>2. EngineTyped' /\ UNCHANGED snoop
        BY <1>1, <3>1, Zenon DEF EngineTyped, engineVars
      <3> QED
        BY <1>2, <3>1, <3>2, Zenon
    <2> QED
      BY <1>4, <2>1, <2>2, <2>3, <2>4, Zenon DEF Push
  <1>5. ASSUME NEW h \in Listeners, HostJoin(h) \/ HostLeave(h) \/ HostAnswer(h) PROVE GroupsInv'
    BY <1>5, EngineGroups, Zenon
  <1>6. ASSUME NEW h \in Listeners, LoseAnswer(h) PROVE GroupsInv'
    <2>1. EngineTyped' /\ snoopFaults' # 0
      BY <1>1, <1>6 DEF EngineTyped, LoseAnswer, Fault
    <2> QED
      BY <1>2, <1>6, <2>1, Zenon DEF LoseAnswer, asicVars
  <1>7. ASSUME NEW r \in Routers, RouterQuery(r) PROVE GroupsInv'
    BY <1>7, EngineGroups, Zenon
  <1>8. ASSUME NEW f \in Families, NEW c \in SnoopConfigs, SetSnoopConfig(f, c) PROVE GroupsInv'
    <2>1. EngineTyped'
      BY <1>1, <1>8, Zenon DEF EngineTyped, SetSnoopConfig
    <2> QED
      BY <1>2, <1>8, <2>1, Zenon DEF SetSnoopConfig, asicVars
  <1>9. ASSUME SnoopTick PROVE GroupsInv'
    <2>1. \A f \in Families : snoop'[f].pushedGroup = snoop[f].pushedGroup
      BY <1>1, <1>9, TickFacts, Zenon
    <2>2. EngineTyped'
      BY <1>1, <1>9, TickTyped, Zenon
    <2> QED
      BY <1>2, <1>9, <2>1, <2>2, Zenon DEF SnoopTick, asicVars
  <1>10. ASSUME UNCHANGED snoopVars PROVE GroupsInv'
    <2>1. EngineTyped'
      BY <1>1, <1>10, Zenon DEF EngineTyped, snoopVars
    <2> QED
      BY <1>2, <1>10, <2>1, Zenon DEF snoopVars
  <1> QED
    BY <1>3, <1>4, <1>5, <1>6, <1>7, <1>8, <1>9, <1>10, Zenon DEF SnoopNext, Listeners

\* Without a failure, every call does to the ASIC what it records.
LEMMA AsicStep == GroupsInv /\ AsicAgrees /\ [SnoopNext]_snoopVars => AsicAgrees'
  <1> SUFFICES ASSUME GroupsInv, AsicAgrees, [SnoopNext]_snoopVars PROVE AsicAgrees'
    BY Zenon
  <1>1. PusherTyped /\ snoopFaults \in Nat
    BY Zenon DEF GroupsInv, EngineTyped
  <1>2. Fault => snoopFaults' # 0
    BY <1>1 DEF Fault
  <1>3. ASSUME UNCHANGED <<l2mcTable, l2mc>>, UNCHANGED snoopFaults \/ Fault PROVE AsicAgrees'
    BY <1>2, <1>3, Zenon DEF AsicAgrees
  <1>4. ASSUME NEW f \in Families, PushGroup(f) PROVE AsicAgrees'
    <2>1. l2mcTable[f] \in Groups
      BY <1>1, Zenon DEF PusherTyped
    <2>2. ~l2mcTable[f].there => l2mcTable[f] = Absent
      BY <2>1, GroupFacts, Zenon
    <2>3. CASE RemoveGroup(f)
      <3>1. [l2mcTable EXCEPT ![f] = Absent]
            = [l2mcTable EXCEPT ![f] = IF l2mcTable[f].there THEN Absent ELSE @]
        BY <1>1, <2>2, Zenon DEF PusherTyped
      <3> QED
        BY <1>2, <2>3, <3>1 DEF RemoveGroup, AsicAgrees
    <2>4. ASSUME NEW ports, EnsureGroup(f, ports) PROVE AsicAgrees'
      <3> DEFINE there == l2mcTable[f].there
                 opened(t) == [t EXCEPT ![f] = IF there THEN @ ELSE Present({})]
      <3>1. \/ /\ l2mcTable' = opened(l2mcTable) /\ l2mc' = opened(l2mc)
               /\ UNCHANGED snoopFaults
            \/ Fault
        BY <2>4, Zenon DEF EnsureGroup
      <3> HIDE DEF opened
      <3> QED
        BY <1>2, <3>1, Zenon DEF AsicAgrees
    <2> QED
      BY <1>4, <2>3, <2>4, Zenon DEF PushGroup
  <1>5. ASSUME NEW f \in Families, SetMembers(f) PROVE AsicAgrees'
    <2>1. CASE l2mc = l2mcTable
      <3>1. (l2mcTable[f].ports \ Stale(f)) \cup Added(f) = groupCall[f].ports
        BY Zenon DEF Stale, Added
      <3>2. Reconciled(f) => l2mc' = l2mcTable'
        BY <2>1, <3>1, Zenon DEF Reconciled
      <3>3. Reconcilable(f)
        BY <2>1, Zenon DEF Reconcilable, Stale, Added
      <3> QED
        BY <1>2, <1>5, <3>2, <3>3, Zenon DEF SetMembers, AsicAgrees
    <2>2. CASE snoopFaults # 0
      BY <1>2, <1>5, <2>2, Zenon DEF SetMembers, AsicAgrees
    <2> QED
      BY <2>1, <2>2, Zenon DEF AsicAgrees
  <1>6. ASSUME NEW f \in Families, PushScope(f) \/ ScopeFlood(f) \/ ScopeCreate(f) \/ ScopeApply(f)
        PROVE  AsicAgrees'
    <2>1. UNCHANGED <<l2mcTable, l2mc>> /\ (UNCHANGED snoopFaults \/ Fault)
      BY <1>6, Zenon DEF PushScope, ScopeFlood, ScopeCreate, ScopeApply
    <2> QED
      BY <1>3, <2>1, Zenon
  <1>7. ASSUME NEW f \in Families, SnoopEngineTick(f) PROVE AsicAgrees'
    BY <1>3, <1>7, Zenon DEF SnoopEngineTick, asicVars
  <1>8. ASSUME NEW h \in Listeners, HostJoin(h) \/ HostLeave(h) \/ HostAnswer(h) \/ LoseAnswer(h)
        PROVE  AsicAgrees'
    BY <1>3, <1>8, Zenon DEF HostJoin, HostLeave, HostAnswer, LoseAnswer, asicVars
  <1>9. ASSUME NEW r \in Routers, RouterQuery(r) PROVE AsicAgrees'
    BY <1>3, <1>9, Zenon DEF RouterQuery, asicVars
  <1>10. ASSUME NEW f \in Families, NEW c \in SnoopConfigs, SetSnoopConfig(f, c) PROVE AsicAgrees'
    BY <1>3, <1>10, Zenon DEF SetSnoopConfig, asicVars
  <1>11. ASSUME SnoopTick \/ UNCHANGED snoopVars PROVE AsicAgrees'
    BY <1>3, <1>11, Zenon DEF SnoopTick, asicVars, snoopVars
  <1> QED
    BY <1>4, <1>5, <1>6, <1>7, <1>8, <1>9, <1>10, <1>11, Zenon DEF SnoopNext, Push, Listeners

\* When the group pusher is idle and no call failed, the ASIC holds the groups the
\* engines last computed, whatever was joined, left, aged out or reconfigured
\* (snoop.rs, step; orch's push_l2mc_groups).
THEOREM GroupsAlwaysReachAsic == SnoopSpec => []GroupsReachAsic
  <1>1. GroupsInv /\ AsicAgrees => GroupsReachAsic
    BY Zenon DEF GroupsInv, AsicAgrees, GroupsReachAsic, Drained, LastGroup
  <1>2. SnoopInit => AsicAgrees
    BY Zenon DEF SnoopInit, AsicAgrees
  <1>3. SnoopInit /\ [][SnoopNext]_snoopVars => [](GroupsInv /\ AsicAgrees)
    BY <1>2, GroupsInit, GroupsStep, AsicStep, PTL
  <1> QED
    BY <1>1, <1>3, PTL DEF SnoopSpec
-----------------------------------------------------------------------------
(* The listeners. *)

\* The answers a host may owe fit into the hold time.
LEMMA Owed ==
    ASSUME NEW m \in Nat, m <= Robustness - 1
    PROVE  /\ m * QueryInterval \in Nat
           /\ m * QueryInterval + QueryInterval <= Robustness * QueryInterval
           /\ (m + 1) * QueryInterval = m * QueryInterval + QueryInterval
  <1>1. m \in Nat /\ QueryInterval \in Nat /\ Robustness \in Nat
    BY Holds, Zenon
  <1>2. \A x \in Nat, y \in Nat : x * y \in Nat
    OBVIOUS
  <1>3. \A x \in Nat, y \in Nat : (x + 1) * y = x * y + y
    OBVIOUS
  <1>4. PICK k \in Nat : Robustness = (m + 1) + k
    <2>1. Robustness - (m + 1) \in Nat /\ Robustness = (m + 1) + (Robustness - (m + 1))
      BY <1>1
    <2> QED
      BY <2>1, Zenon
  <1>5. \A x \in Nat, y \in Nat, z \in Nat : (x + y) * z = x * z + y * z
    OBVIOUS
  <1>6. Robustness * QueryInterval = (m + 1) * QueryInterval + k * QueryInterval
    BY <1>1, <1>4, <1>5
  <1>7. k * QueryInterval \in Nat /\ m * QueryInterval \in Nat /\ (m + 1) * QueryInterval \in Nat
    BY <1>1, <1>2, SMTT(60)
  <1> QED
    BY <1>1, <1>3, <1>6, <1>7

\* A pass in which the hosts that remain have either just reported or are as before.
LEMMA StepListeners ==
    ASSUME ListenersInv, NEW f \in Families, NEW before \in VlanStates,
           before.lastQuery = snoop[f].lastQuery,
           NEW waiting, waiting \subseteq Listeners, hosts' \subseteq Listeners,
           SnoopStep(f, before, waiting),
           UNCHANGED <<snoopConfig, snoopFaults>>, missed' \in [Listeners -> Nat],
           snoopTicked' \subseteq snoopTicked \cup {f},
           \A h \in hosts' :
              /\ \/ Enabled(f) /\ h[1] = f /\ missed'[h] = 0
                      /\ before.members[h[2]].age = 0 /\ ~before.members[h[2]].leaving
                 \/ /\ h \in hosts /\ missed'[h] = missed[h] /\ (h \in asked => h \in waiting)
                    /\ h[1] = f => before.members[h[2]] = snoop[f].members[h[2]]
                 \/ ~Enabled(f) /\ h[1] = f
    PROVE  ListenersInv'
  <1>1. EngineTyped
    BY Zenon DEF ListenersInv
  <1>2. /\ snoop' \in [Families -> VlanStates]
        /\ \A g \in Families : g # f => snoop'[g] = snoop[g]
        /\ asked' \subseteq Listeners /\ waiting \subseteq asked'
        /\ lone' \subseteq lone
        /\ f \in lone' =>
              /\ Enabled(f) /\ snoop'[f].members = before.members
              /\ \/ /\ before.lastQuery < QueryInterval
                    /\ snoop'[f].lastQuery = before.lastQuery
                 \/ /\ before.lastQuery = QueryInterval /\ snoop'[f].lastQuery = 0
                    /\ \A h \in hosts' : h[1] = f => h \in asked'
    BY <1>1, StepFacts, ZenonT(60)
  <1>3. EngineTyped'
    BY <1>1, <1>2, Zenon DEF EngineTyped
  <1>4. ASSUME NEW g \in lone' \cap snoopTicked' PROVE snoop'[g].lastQuery < QueryInterval
    <2>1. CASE g = f
      BY <1>2, <1>4, <2>1, Holds, Zenon
    <2>2. CASE g # f
      <3>1. g \in lone \cap snoopTicked /\ snoop[g].lastQuery < QueryInterval
        BY <1>2, <1>4, <2>2, Zenon DEF ListenersInv
      <3>2. g \in Families
        BY <3>1, Zenon DEF ListenersInv
      <3> QED
        BY <1>2, <2>2, <3>1, <3>2, Zenon
    <2> QED
      BY <2>1, <2>2, Zenon
  <1>5. ASSUME NEW h \in hosts', h[1] \in lone' PROVE KeptBy(h)'
    <2> DEFINE p == h[2]
               last == snoop[h[1]].lastQuery
    <2>1. h[1] \in Families /\ p \in SnoopPorts /\ h[1] \in lone
      BY <1>2, <1>5, Zenon DEF Listeners
    <2>2. missed'[h] \in Nat /\ 0 * QueryInterval = 0 /\ 0 <= Robustness - 1
      BY Holds, SMTT(60)
    <2>3. CASE h[1] # f
      <3>1. h \in hosts /\ missed'[h] = missed[h] /\ (h \in asked => h \in asked')
        BY <1>2, <1>5, <2>3, Zenon
      <3>2. snoop'[h[1]] = snoop[h[1]]
        BY <1>2, <2>1, <2>3, Zenon
      <3>3. KeptBy(h)
        BY <2>1, <3>1, Zenon DEF ListenersInv
      <3> QED
        BY <3>1, <3>2, <3>3, Zenon DEF KeptBy, Kept
    <2>4. CASE h[1] = f
      <3>1. Enabled(f) /\ snoop'[f].members[p] = before.members[p]
        BY <1>2, <1>5, <2>4, Zenon
      <3>2. /\ last \in Nat /\ last = before.lastQuery
            /\ snoop'[f].lastQuery \in Nat /\ before.members[p].age \in Nat
        BY <1>1, <1>2, <2>1, <2>4, SMTT(60) DEF EngineTyped, VlanStates, MemberStates
      <3>3. CASE missed'[h] = 0 /\ before.members[p].age = 0 /\ ~before.members[p].leaving
        <4>1. snoop'[f].members[p].age = 0 /\ ~snoop'[f].members[p].leaving
          BY <3>1, <3>3, Zenon
        <4>2. Kept(0, snoop'[f].members[p].leaving, snoop'[f].lastQuery, 0, h \in asked')
          BY <2>2, <3>2, <4>1, Holds, SMTT(60) DEF Kept
        <4> QED
          BY <2>4, <3>3, <4>1, <4>2, Zenon DEF KeptBy
      <3>4. CASE /\ h \in hosts /\ missed'[h] = missed[h] /\ (h \in asked => h \in waiting)
                 /\ before.members[p] = snoop[f].members[p]
        <4>1. Kept(before.members[p].age, before.members[p].leaving, before.lastQuery,
                   missed'[h], h \in asked)
          BY <2>1, <2>4, <3>2, <3>4, Zenon DEF ListenersInv, KeptBy
        <4>2. missed'[h] * QueryInterval \in Nat
          BY <2>2, Holds, SMTT(60)
        <4>3. Kept(before.members[p].age, before.members[p].leaving, snoop'[f].lastQuery,
                   missed'[h], h \in asked')
          <5> DEFINE owed == missed'[h] * QueryInterval
          <5>1. h \in asked => h \in asked'
            BY <1>2, <3>4, Zenon
          <5>2. CASE before.lastQuery < QueryInterval /\ snoop'[f].lastQuery = before.lastQuery
            BY <4>1, <5>1, <5>2, Zenon DEF Kept
          <5>3. CASE /\ before.lastQuery = QueryInterval /\ snoop'[f].lastQuery = 0
                     /\ h \in asked'
            <6>1. before.members[p].age <= owed + QueryInterval
              BY <4>1, <5>3, Holds, SMTT(60) DEF Kept
            <6> HIDE DEF owed
            <6>2. before.members[p].age <= owed + QueryInterval + 0 /\ 0 < QueryInterval
              BY <4>2, <6>1, Holds, SMTT(60) DEF owed
            <6> QED
              BY <4>1, <5>3, <6>2, Zenon DEF Kept, owed
          <5> QED
            BY <1>2, <1>5, <2>4, <5>2, <5>3, Zenon
        <4> QED
          BY <2>4, <3>1, <4>3, Zenon DEF KeptBy
      <3> QED
        BY <1>5, <2>4, <3>1, <3>3, <3>4, Zenon
    <2> QED
      BY <2>3, <2>4, Zenon
  <1>6. lone' \subseteq Families
    BY <1>2, Zenon DEF ListenersInv
  <1>7. /\ EngineTyped' /\ lone' \subseteq Families
        /\ \A g \in lone' \cap snoopTicked' : snoop'[g].lastQuery < QueryInterval
        /\ \A h \in hosts' : h[1] \in lone' => KeptBy(h)'
    BY <1>3, <1>4, <1>5, <1>6, Zenon
  <1> QED
    BY <1>7, Zenon DEF ListenersInv

LEMMA ListenersInit == SnoopInit => ListenersInv
  BY GroupsInit, Zenon DEF SnoopInit, ListenersInv, GroupsInv

\* The actions of the engine.
LEMMA EngineListeners ==
    ASSUME ListenersInv,
           \/ \E f \in Families : SnoopEngineTick(f)
           \/ \E h \in Listeners : HostJoin(h) \/ HostLeave(h) \/ HostAnswer(h)
           \/ \E r \in Routers : RouterQuery(r)
    PROVE  ListenersInv'
  <1>1. EngineTyped
    BY Zenon DEF ListenersInv
  <1>2. \A f \in Families : snoop[f] \in VlanStates
    BY <1>1, Zenon DEF EngineTyped
  <1>3. ASSUME NEW h \in Listeners
        PROVE  /\ h[1] \in Families /\ h[2] \in SnoopPorts /\ h = <<h[1], h[2]>>
               /\ \A k \in Listeners : k # h /\ k[1] = h[1] => k[2] # h[2]
    BY SMTT(60) DEF Listeners
  <1>4. ASSUME NEW f \in Families, SnoopEngineTick(f) PROVE ListenersInv'
    <2>1. hosts' \subseteq Listeners /\ asked \subseteq Listeners /\ missed' \in [Listeners -> Nat]
      BY <1>1, <1>4, Zenon DEF EngineTyped, SnoopEngineTick
    <2>2. /\ SnoopStep(f, snoop[f], asked) /\ hosts' = hosts /\ missed' = missed
          /\ UNCHANGED <<snoopConfig, snoopFaults>> /\ snoopTicked' \subseteq snoopTicked \cup {f}
      BY <1>4, Zenon DEF SnoopEngineTick
    <2> QED
      BY <1>2, <2>1, <2>2, StepListeners, Zenon
  <1>5. ASSUME NEW h \in Listeners, NEW waiting \in SUBSET Listeners,
               SnoopStep(h[1], Heard(h[1], Report(snoop[h[1]], h[2])), waiting),
               hosts' \subseteq hosts \cup {h}, missed' = [missed EXCEPT ![h] = 0],
               asked \ {h} \subseteq waiting,
               UNCHANGED <<snoopConfig, snoopFaults, snoopTicked>>
        PROVE  ListenersInv'
    <2> DEFINE heard == Heard(h[1], Report(snoop[h[1]], h[2]))
    <2>1. hosts' \subseteq Listeners /\ missed' \in [Listeners -> Nat]
      BY <1>1, <1>5, Zenon DEF EngineTyped
    <2>2. heard \in VlanStates /\ heard.lastQuery = snoop[h[1]].lastQuery
      BY <1>2, <1>3, ReportFacts, Zenon DEF Heard
    <2>3. ASSUME Enabled(h[1])
          PROVE  /\ heard.members[h[2]].age = 0 /\ ~heard.members[h[2]].leaving
                 /\ \A x \in SnoopPorts : x # h[2] => heard.members[x] = snoop[h[1]].members[x]
      BY <1>2, <1>3, <2>3, ReportFacts, ZenonT(60) DEF Heard
    <2> HIDE DEF heard
    <2>4. ASSUME NEW k \in hosts'
          PROVE  \/ Enabled(h[1]) /\ k[1] = h[1] /\ missed'[k] = 0
                      /\ heard.members[k[2]].age = 0 /\ ~heard.members[k[2]].leaving
                 \/ /\ k \in hosts /\ missed'[k] = missed[k] /\ (k \in asked => k \in waiting)
                    /\ k[1] = h[1] => heard.members[k[2]] = snoop[h[1]].members[k[2]]
                 \/ ~Enabled(h[1]) /\ k[1] = h[1]
      <3>1. CASE k = h
        <4>1. missed'[k] = 0
          BY <1>1, <1>5, <3>1, Zenon DEF EngineTyped
        <4> QED
          BY <2>3, <3>1, <4>1, Zenon
      <3>2. CASE k # h
        <4>1. k \in Listeners /\ k \in hosts /\ (k \in asked => k \in waiting)
          BY <1>5, <2>1, <3>2, Zenon
        <4>2. missed'[k] = missed[k]
          BY <1>1, <1>5, <3>2, <4>1, Zenon DEF EngineTyped
        <4>3. k[2] \in SnoopPorts /\ (k[1] = h[1] => k[2] # h[2])
          BY <1>3, <3>2, <4>1, Zenon
        <4> QED
          BY <2>3, <4>1, <4>2, <4>3, Zenon
      <3> QED
        BY <3>1, <3>2, Zenon
    <2>5. SnoopStep(h[1], heard, waiting)
      BY <1>5, Zenon DEF heard
    <2> QED
      BY <1>3, <1>5, <2>1, <2>2, <2>4, <2>5, StepListeners, SMTT(60)
  <1>6. ASSUME NEW h \in Listeners, HostJoin(h) PROVE ListenersInv'
    <2>1. asked \in SUBSET Listeners
      BY <1>1, Zenon DEF EngineTyped
    <2> QED
      BY <1>5, <1>6, <2>1, Zenon DEF HostJoin
  <1>7. ASSUME NEW h \in Listeners, HostAnswer(h) PROVE ListenersInv'
    <2>1. asked \ {h} \in SUBSET Listeners
      BY <1>1, Zenon DEF EngineTyped
    <2> QED
      BY <1>5, <1>7, <2>1, Zenon DEF HostAnswer
  <1>8. ASSUME NEW h \in Listeners, HostLeave(h) PROVE ListenersInv'
    <2> DEFINE heard == Heard(h[1], Leave(h[1], snoop[h[1]], h[2]))
    <2>1. /\ hosts' = hosts \ {h} /\ missed' = missed /\ UNCHANGED <<snoopConfig, snoopFaults>>
          /\ snoopTicked' = snoopTicked /\ SnoopStep(h[1], heard, asked \ {h})
      BY <1>8, Zenon DEF HostLeave
    <2>2. /\ hosts' \subseteq Listeners /\ missed' \in [Listeners -> Nat]
          /\ asked \ {h} \subseteq Listeners
      BY <1>1, <2>1, Zenon DEF EngineTyped
    <2>3. /\ heard \in VlanStates /\ heard.lastQuery = snoop[h[1]].lastQuery
          /\ \A x \in SnoopPorts : x # h[2] => heard.members[x] = snoop[h[1]].members[x]
      BY <1>2, <1>3, LeaveFacts, ZenonT(60) DEF Heard
    <2> HIDE DEF heard
    <2>4. ASSUME NEW k \in hosts'
          PROVE  /\ k \in hosts /\ missed'[k] = missed[k]
                 /\ k \in asked => k \in asked \ {h}
                 /\ k[1] = h[1] => heard.members[k[2]] = snoop[h[1]].members[k[2]]
      <3>1. k \in Listeners /\ k # h
        BY <2>1, <2>2, Zenon
      <3>2. k[2] \in SnoopPorts /\ (k[1] = h[1] => k[2] # h[2])
        BY <1>3, <3>1, Zenon
      <3> QED
        BY <2>1, <2>3, <3>1, <3>2, Zenon
    <2> QED
      BY <1>3, <2>1, <2>2, <2>3, <2>4, StepListeners, SMTT(60)
  <1>9. ASSUME NEW r \in Routers, RouterQuery(r) PROVE ListenersInv'
    <2>1. r[1] \in Families /\ r[2] \in SnoopPorts
      BY SnoopAssumption, Zenon
    <2> DEFINE heard == Heard(r[1], Query(r[1], snoop[r[1]], r[2], r[3]))
               waiting == asked \cup {h \in hosts : h[1] = r[1]}
    <2>2. /\ hosts' = hosts /\ missed' = missed /\ UNCHANGED <<snoopConfig, snoopFaults>>
          /\ snoopTicked' = snoopTicked /\ SnoopStep(r[1], heard, waiting)
      BY <1>9, Zenon DEF RouterQuery
    <2>3. hosts' \subseteq Listeners /\ waiting \subseteq Listeners /\ missed' \in [Listeners -> Nat]
      BY <1>1, <2>2, Zenon DEF EngineTyped
    <2>4. /\ heard \in VlanStates /\ heard.lastQuery = snoop[r[1]].lastQuery
          /\ heard.members = snoop[r[1]].members
      BY <1>2, <2>1, QueryFacts, SMTT(60) DEF Heard
    <2>5. asked \subseteq waiting
      BY Zenon
    <2> HIDE DEF heard, waiting
    <2>6. \A k \in hosts' : /\ k \in hosts /\ missed'[k] = missed[k]
                            /\ k \in asked => k \in waiting
                            /\ k[1] = r[1] => heard.members[k[2]] = snoop[r[1]].members[k[2]]
      BY <2>2, <2>4, <2>5, Zenon
    <2> QED
      BY <2>1, <2>2, <2>3, <2>4, <2>6, StepListeners, SMTT(60)
  <1> QED
    BY <1>4, <1>6, <1>7, <1>8, <1>9, Zenon

\* A lost answer is one more that is owed.
LEMMA LoseListeners ==
    ASSUME ListenersInv, NEW h \in Listeners, LoseAnswer(h)
    PROVE  ListenersInv'
  <1>1. EngineTyped
    BY Zenon DEF ListenersInv
  <1>2. EngineTyped'
    BY <1>1, SMTT(60) DEF EngineTyped, LoseAnswer, Fault
  <1>3. /\ missed[h] \in Nat /\ missed[h] + 1 <= Robustness - 1
        /\ missed' = [missed EXCEPT ![h] = @ + 1]
        /\ UNCHANGED <<snoop, hosts, lone, snoopTicked>> /\ asked' = asked \ {h}
    BY <1>1, Holds DEF EngineTyped, LoseAnswer
  <1>4. ASSUME NEW k \in hosts, k[1] \in lone PROVE KeptBy(k)'
    <2>1. KeptBy(k)
      BY <1>4, Zenon DEF ListenersInv
    <2>2. CASE k # h
      <3>1. missed'[k] = missed[k] /\ (k \in asked' <=> k \in asked)
        BY <1>1, <1>3, <1>4, <2>2, Zenon DEF EngineTyped
      <3> QED
        BY <1>3, <2>1, <3>1, Zenon DEF KeptBy, Kept
    <2>3. CASE k = h
      <3> DEFINE st == snoop[h[1]]
                 age == st.members[h[2]].age
                 last == st.lastQuery
                 owed == missed[h] * QueryInterval
      <3>1. h[1] \in Families /\ h[2] \in SnoopPorts
        BY Zenon DEF Listeners
      <3>2. age \in Nat /\ last \in Nat
        BY <1>1, <3>1, SMTT(60) DEF EngineTyped, VlanStates, MemberStates
      <3>3. missed'[h] = missed[h] + 1
        BY <1>1, <1>3, Zenon DEF EngineTyped
      <3>4. owed \in Nat /\ (missed[h] + 1) * QueryInterval = owed + QueryInterval
        BY <1>3, Owed, Holds, SMTT(60)
      <3>5. /\ age <= owed + last \/ age <= owed + QueryInterval + last
            /\ ~st.members[h[2]].leaving /\ age <= Robustness * QueryInterval
        BY <2>1, <2>3, Zenon DEF KeptBy, Kept
      <3>6. age <= owed + QueryInterval + last
        <4> HIDE DEF age, last, owed
        <4> QED
          BY <3>2, <3>4, <3>5, Holds, SMTT(60)
      <3>7. Kept(age, st.members[h[2]].leaving, last, missed[h] + 1, h \in asked')
        BY <1>3, <3>4, <3>5, <3>6, Zenon DEF Kept
      <3> QED
        BY <1>3, <2>3, <3>3, <3>7, Zenon DEF KeptBy
    <2> QED
      BY <2>2, <2>3, Zenon
  <1>5. /\ lone' \subseteq Families
        /\ \A g \in lone' \cap snoopTicked' : snoop'[g].lastQuery < QueryInterval
        /\ \A k \in hosts' : k[1] \in lone' => KeptBy(k)'
    BY <1>3, <1>4, Zenon DEF ListenersInv
  <1> QED
    BY <1>2, <1>5, Zenon DEF ListenersInv

\* When time passes every answer has come or is counted as lost, and the querier's
\* last query is less than an interval old.
LEMMA TickListeners ==
    ASSUME ListenersInv, SnoopTick
    PROVE  ListenersInv'
  <1>1. EngineTyped
    BY Zenon DEF ListenersInv
  <1>2. EngineTyped'
    BY <1>1, TickTyped, Zenon
  <1>3. /\ snoopTicked = Families /\ asked = {} /\ snoopTicked' = {}
        /\ UNCHANGED <<hosts, lone, missed, asked>>
    BY Zenon DEF SnoopTick
  <1>4. ASSUME NEW h \in hosts, h[1] \in lone PROVE KeptBy(h)'
    <2> DEFINE f == h[1]
               p == h[2]
               age == snoop[f].members[p].age
               last == snoop[f].lastQuery
               owed == missed[h] * QueryInterval
               room == Robustness * QueryInterval
    <2>1. f \in Families /\ p \in SnoopPorts /\ missed[h] \in Nat
      BY <1>1, <1>4, Zenon DEF EngineTyped, Listeners
    <2>2. age \in Nat /\ last \in Nat
      BY <1>1, <2>1, SMTT(60) DEF EngineTyped, VlanStates, MemberStates
    <2>3. last < QueryInterval
      BY <1>3, <1>4, <2>1, Zenon DEF ListenersInv
    <2>4. /\ age <= owed + last /\ age <= room
          /\ ~snoop[f].members[p].leaving /\ missed[h] <= Robustness - 1
      BY <1>3, <1>4, Zenon DEF ListenersInv, KeptBy, Kept
    <2>5. owed \in Nat /\ owed + QueryInterval <= room
      BY <2>1, <2>4, Owed, Zenon
    <2>6. /\ snoop'[f].lastQuery = Older(last, QueryInterval)
          /\ snoop'[f].members[p].age = Older(age, MembershipHold)
          /\ ~snoop'[f].members[p].leaving
      BY <1>1, <2>1, <2>4, TickFacts, Zenon
    <2>7. Older(last, QueryInterval) = last + 1
      BY <2>2, <2>3, Holds, Zenon DEF Older
    <2>8. /\ room \in Nat /\ MembershipHold = room + Slack /\ QueryInterval \in Nat
          /\ Slack \in Nat /\ Slack > 0
      BY Holds, ZenonT(60)
    <2>9. Older(age, MembershipHold) = age + 1
      BY <2>2, <2>4, <2>8, SMTT(60) DEF Older
    <2>10. age + 1 <= room /\ age + 1 <= owed + (last + 1)
      <3> HIDE DEF age, last, owed, room
      <3> QED
        BY <2>2, <2>3, <2>4, <2>5, <2>8, SMTT(60)
    <2>11. Kept(age + 1, snoop'[f].members[p].leaving, last + 1, missed[h], h \in asked)
      BY <2>4, <2>6, <2>10, Zenon DEF Kept
    <2> QED
      BY <1>3, <2>6, <2>7, <2>9, <2>11, Zenon DEF KeptBy
  <1>5. /\ lone' \subseteq Families
        /\ \A g \in lone' \cap snoopTicked' : snoop'[g].lastQuery < QueryInterval
        /\ \A k \in hosts' : k[1] \in lone' => KeptBy(k)'
    BY <1>3, <1>4, Zenon DEF ListenersInv
  <1> QED
    BY <1>2, <1>5, Zenon DEF ListenersInv

LEMMA ListenersStep == ListenersInv /\ [SnoopNext]_snoopVars => ListenersInv'
  <1> SUFFICES ASSUME ListenersInv, [SnoopNext]_snoopVars PROVE ListenersInv'
    BY Zenon
  <1>1. EngineTyped
    BY Zenon DEF ListenersInv
  <1>2. ASSUME UNCHANGED <<snoop, hosts, asked, missed, lone>>,
               snoopTicked' \subseteq snoopTicked, EngineTyped'
        PROVE  ListenersInv'
    BY <1>2, Zenon DEF ListenersInv, KeptBy
  <1>3. ASSUME NEW f \in Families, SnoopEngineTick(f) PROVE ListenersInv'
    BY <1>3, EngineListeners, Zenon
  <1>4. ASSUME NEW f \in Families, Push(f) PROVE ListenersInv'
    <2>1. UNCHANGED engineVars /\ (UNCHANGED snoopFaults \/ Fault)
      BY <1>4, Zenon DEF Push, PushGroup, RemoveGroup, EnsureGroup, SetMembers, PushScope,
                         ScopeFlood, ScopeCreate, ScopeApply
    <2>2. EngineTyped'
      BY <1>1, <2>1 DEF EngineTyped, engineVars, Fault
    <2> QED
      BY <1>2, <2>1, <2>2, Zenon DEF engineVars
  <1>5. ASSUME NEW h \in Listeners, HostJoin(h) \/ HostLeave(h) \/ HostAnswer(h)
        PROVE  ListenersInv'
    BY <1>5, EngineListeners, Zenon
  <1>6. ASSUME NEW h \in Listeners, LoseAnswer(h) PROVE ListenersInv'
    BY <1>6, LoseListeners, Zenon
  <1>7. ASSUME NEW r \in Routers, RouterQuery(r) PROVE ListenersInv'
    BY <1>7, EngineListeners, Zenon
  <1>8. ASSUME NEW f \in Families, NEW c \in SnoopConfigs, SetSnoopConfig(f, c)
        PROVE  ListenersInv'
    <2>1. EngineTyped'
      BY <1>1, <1>8, Zenon DEF EngineTyped, SetSnoopConfig
    <2> QED
      BY <1>2, <1>8, <2>1, Zenon DEF SetSnoopConfig
  <1>9. ASSUME SnoopTick PROVE ListenersInv'
    BY <1>9, TickListeners, Zenon
  <1>10. ASSUME UNCHANGED snoopVars PROVE ListenersInv'
    <2>1. EngineTyped'
      BY <1>1, <1>10, Zenon DEF EngineTyped, snoopVars
    <2> QED
      BY <1>2, <1>10, <2>1, Zenon DEF snoopVars
  <1> QED
    BY <1>3, <1>4, <1>5, <1>6, <1>7, <1>8, <1>9, <1>10, Zenon DEF SnoopNext, Listeners

\* A listener whose answers are lost fewer times in a row than the robustness variable
\* stays a member for as long as the local querier runs, for every query interval and
\* robustness variable (snoop.rs, membership_hold against query_interval).
THEOREM ListenerIsAlwaysKept == SnoopSpec => []ListenerIsKept
  <1>1. ListenersInv => ListenerIsKept
    <2> SUFFICES ASSUME ListenersInv, NEW h \in hosts, h[1] \in lone
                 PROVE  h[2] \in MemberPorts(snoop[h[1]])
      BY Zenon DEF ListenerIsKept
    <2>1. h[1] \in Families /\ h[2] \in SnoopPorts
      BY Zenon DEF ListenersInv, EngineTyped, Listeners
    <2>2. snoop[h[1]].members[h[2]].age \in Nat
      BY <2>1, Zenon DEF ListenersInv, EngineTyped, VlanStates, MemberStates
    <2>3. snoop[h[1]].members[h[2]].age <= Robustness * QueryInterval
      BY Zenon DEF ListenersInv, KeptBy, Kept
    <2> QED
      BY <2>1, <2>2, <2>3, Holds, SMTT(60) DEF MemberPorts
  <1>2. SnoopInit /\ [][SnoopNext]_snoopVars => []ListenersInv
    BY ListenersInit, ListenersStep, PTL
  <1> QED
    BY <1>1, <1>2, PTL DEF SnoopSpec
=============================================================================
