------------------------------ MODULE SyncdQos ------------------------------
(* hemlock-syncd's QoS engine (qos.rs): the global maps, the per-port programs,
   the scheduler profiles shared by value and the WRED profiles shared by name.
   Every handler runs in a task of its own and locks the world only for single
   reads and writes; between them it awaits the SAI actor.  Two lanes of calls are
   modelled: the management daemon's, one at a time, and the orchestrator's
   SetLagMembers, which ends in refresh_lag_qos().  A call is a plan of steps, and
   each step is one lock section or one SAI call.  *)
EXTENDS Integers, FiniteSets, Sequences, SequencesExt, TLC

CONSTANTS QosPorts,        \* front-panel ports
          QosLag,          \* a Port-Channel
          UcQueues,        \* egress queues of a port
          PortPrograms,    \* whole-port programs that are pushed
          MapPrograms,     \* sets of global map tables that are pushed
          WredNames, WredSpecs,
          EcnSpecs,        \* the specs that mark with ECN
          WredSupported, EcnSupported,   \* capabilities.wred, capabilities.ecn
          QosStarts,       \* profiles, members of the Port-Channel and programs at the start
          MaxQosEvents, MaxQosFaults

VARIABLES qosPrograms,   \* world.programs
          qosMaps,       \* world.maps
          mapObjects,    \* world.map_objects
          schedulers,    \* world.schedulers: object and reference count of a spec
          wredProfiles,  \* world.wred_profiles
          applied,       \* world.applied
          qosMembers,    \* members of the Port-Channel, or NoChannel
          qosHw,         \* SAI objects
          qosPort,       \* what the ASIC has for each port
          qosCall,       \* the call of each lane
          qosEvents, qosFaults,
          qosOutdated,   \* ports whose program changed and that no handler will visit
          qosDamaged,    \* ports a handler left half-way, or two handlers visited at once
          qosTrouble     \* what has happened that the reference counts do not survive

qosWorld == <<qosPrograms, qosMaps, mapObjects, schedulers, wredProfiles, applied>>
qosGhosts == <<qosOutdated, qosDamaged, qosTrouble>>
qosVars == <<qosWorld, qosMembers, qosHw, qosPort, qosCall, qosEvents, qosFaults, qosGhosts>>

\* --- values ---------------------------------------------------------------

QosLanes == {"mgmtd", "gates"}
QosTargets == QosPorts \cup {QosLag}
Queues == 0..(UcQueues - 1)
NoObject == <<>>
NoPort == "no port"
NoWred == "no wred"
NoChannel == {"absent"}
NoQosProgram == [trust |-> "none"]
NoTableEntries == {}
DefaultScheduler == "default"

MapTypes == <<"dscp_to_tc", "dot1p_to_tc", "tc_to_dscp", "tc_to_dot1p">>
MapKinds == Range(MapTypes)

\* The classification map a trust mode reads.
TrustMap == [untrusted |-> {}, dscp |-> {"dscp_to_tc"}, cos |-> {"dot1p_to_tc"}]

\* PortQosProgram::default() and the platform's state of a port.
DefaultProgram ==
    [trust |-> "untrusted", tc |-> 0, shape |-> 0,
     sched |-> [q \in Queues |-> DefaultScheduler], wred |-> [q \in Queues |-> NoWred]]
NothingApplied ==
    [maps |-> {}, tc |-> 0, shape |-> 0,
     sched |-> DefaultProgram.sched, wred |-> DefaultProgram.wred]
PortDefaults ==
    [maps |-> [k \in MapKinds |-> NoObject], tc |-> 0, shape |-> 0,
     sched |-> [q \in Queues |-> NoObject], wred |-> [q \in Queues |-> NoObject]]

NoScheduler == [oid |-> NoObject, refs |-> 0]
NoProfile == [spec |-> "none", oid |-> NoObject, refs |-> 0]
NoQosCall == [plan |-> <<>>, port |-> NoPort, new |-> NoObject, mine |-> NoObject]

\* --- reading the world ----------------------------------------------------

ChannelMembers == IF qosMembers = NoChannel THEN {} ELSE qosMembers

\* A port's own program, else its Port-Channel's, else the default.
ResolvedQos(port) ==
    IF qosPrograms[port] # NoQosProgram THEN qosPrograms[port]
    ELSE IF port \in ChannelMembers /\ qosPrograms[QosLag] # NoQosProgram
    THEN qosPrograms[QosLag]
    ELSE DefaultProgram

\* The map its trust mode reads, and the rewrite maps, where they have an object.
DesiredMaps(trust) ==
    {k \in TrustMap[trust] \cup {"tc_to_dscp", "tc_to_dot1p"} : mapObjects[k] # NoObject}

HasQosTargets(target) == target \in QosPorts \/ qosMembers # NoChannel
QosPhysicalTargets(target) ==
    SetToSeq(IF target = QosLag THEN ChannelMembers ELSE {target})

\* --- plans ----------------------------------------------------------------

Visit(port) == [do |-> "visit", port |-> port]
Visits(ports) == [i \in DOMAIN ports |-> Visit(ports[i])]

\* A map that is wanted and was withdrawn meanwhile is passed over.
MapSteps(want, have, objects) ==
    LET changed == SelectSeq(MapTypes, LAMBDA k : /\ (k \in want) # (k \in have)
                                                  /\ k \in want => objects[k] # NoObject)
    IN  [i \in DOMAIN changed |->
            [do |-> "bind map", kind |-> changed[i],
             oid |-> IF changed[i] \in want THEN objects[changed[i]] ELSE NoObject]]

\* The new profile is acquired and bound before the old one is released.  A queue
\* that holds nothing and wants nothing is bound to nothing again.
SchedulerSteps(q, want, have) ==
    IF want = have /\ want # DefaultScheduler THEN <<>>
    ELSE (IF want = DefaultScheduler THEN <<>> ELSE <<[do |-> "acquire scheduler", spec |-> want]>>)
         \o <<[do |-> "bind scheduler", queue |-> q, spec |-> want]>>
         \o (IF have = DefaultScheduler THEN <<>>
             ELSE <<[do |-> "release scheduler", spec |-> have]>>)

WredSteps(q, want, have) ==
    IF want = have THEN <<>>
    ELSE (IF want = NoWred THEN <<>> ELSE <<[do |-> "read wred", name |-> want]>>)
         \o <<[do |-> "bind wred", queue |-> q, name |-> want]>>
         \o (IF have = NoWred THEN <<>> ELSE <<[do |-> "release wred", name |-> have]>>)

\* apply_port_qos(): the program it resolved to, the maps it wants and the objects
\* they had are compared with what the port is recorded to have.
PortPlan(port, desired, want, objects) ==
    LET have == applied[port]
        kept == {k \in want : k \in have.maps \/ objects[k] # NoObject}
    IN  MapSteps(want, have.maps, objects)
        \o (IF desired.tc = have.tc THEN <<>> ELSE <<[do |-> "set tc", tc |-> desired.tc]>>)
        \o (IF desired.shape = have.shape THEN <<>>
            ELSE <<[do |-> "set shaper", shape |-> desired.shape]>>)
        \o FlattenSeq([i \in 1..UcQueues |->
                SchedulerSteps(i - 1, desired.sched[i - 1], have.sched[i - 1])
                \o WredSteps(i - 1, desired.wred[i - 1], have.wred[i - 1])])
        \o <<[do |-> "record",
              result |-> [maps |-> kept, tc |-> desired.tc, shape |-> desired.shape,
                          sched |-> desired.sched, wred |-> desired.wred]]>>

\* --- calls ----------------------------------------------------------------

QosIdle(l) == qosCall[l].plan = <<>>
QosAtRest == \A l \in QosLanes : QosIdle(l)

BeginQos(l, plan) ==
    /\ QosIdle(l) /\ qosEvents < MaxQosEvents
    /\ qosEvents' = qosEvents + 1
    /\ qosCall' = [qosCall EXCEPT ![l].plan = plan]
    /\ UNCHANGED <<qosHw, qosPort, qosFaults>>

Outdate(ports) == qosOutdated' = qosOutdated \cup ports

\* The ports are found under the lock of the Port-Channels; the program is written
\* under that of the QoS tables.
ProgramPlan(target, program) ==
    <<[do |-> "write program", target |-> target, program |-> program,
       ports |-> Range(QosPhysicalTargets(target))]>> \o Visits(QosPhysicalTargets(target))

SetPortQos(target, program) ==
    /\ \A q \in Queues : program.wred[q] # NoWred => wredProfiles[program.wred[q]] # NoProfile
    /\ HasQosTargets(target)
    /\ BeginQos("mgmtd", ProgramPlan(target, program))
    /\ UNCHANGED <<qosWorld, qosMembers, qosGhosts>>

\* A Port-Channel that is gone refuses the call, and its program stays.
ClearPortQos(target) ==
    /\ qosPrograms[target] # NoQosProgram
    /\ HasQosTargets(target)
    /\ BeginQos("mgmtd", ProgramPlan(target, NoQosProgram))
    /\ UNCHANGED <<qosWorld, qosMembers, qosGhosts>>

\* Objects first; then the tables; then every port; the removals last.
MapObjectSteps(wanted) ==
    FlattenSeq([i \in DOMAIN MapTypes |->
        LET k == MapTypes[i] oid == mapObjects[k] IN
        IF oid # NoObject /\ wanted[k] = NoTableEntries THEN <<[do |-> "unpublish map", kind |-> k]>>
        ELSE IF oid # NoObject /\ wanted[k] # qosMaps[k]
        THEN <<[do |-> "rewrite map", oid |-> oid, entries |-> wanted[k]]>>
        ELSE IF oid = NoObject /\ wanted[k] # NoTableEntries
        THEN <<[do |-> "create map", kind |-> k, entries |-> wanted[k]]>>
        ELSE <<>>])

\* Mutant: the objects are removed before the ports let go of them.
MapPlanRemovesFirst(wanted) ==
    LET gone == SelectSeq(MapTypes, LAMBDA k : mapObjects[k] # NoObject /\ wanted[k] = NoTableEntries)
    IN  MapObjectSteps(wanted) \o <<[do |-> "write maps", maps |-> wanted]>>
        \o [i \in DOMAIN gone |-> [do |-> "remove", oid |-> mapObjects[gone[i]]]]
        \o Visits(SetToSeq(QosPorts))

MapPlan(wanted) ==
    LET gone == SelectSeq(MapTypes, LAMBDA k : mapObjects[k] # NoObject /\ wanted[k] = NoTableEntries)
    IN  MapObjectSteps(wanted) \o <<[do |-> "write maps", maps |-> wanted]>>
        \o Visits(SetToSeq(QosPorts))
        \o [i \in DOMAIN gone |-> [do |-> "remove", oid |-> mapObjects[gone[i]]]]

SetQosMaps(wanted) ==
    /\ wanted # qosMaps
    /\ BeginQos("mgmtd", MapPlan(wanted))
    /\ UNCHANGED <<qosWorld, qosMembers, qosGhosts>>

Unsupported(spec) == ~WredSupported \/ (spec \in EcnSpecs /\ ~EcnSupported)

\* The new spec is recorded; a live object is then updated in place, unless the
\* spec marks with ECN and the platform does not.
EnsureWred(name, spec) ==
    LET old == wredProfiles[name]
        live == old.spec # spec /\ old.oid # NoObject
        refused == live /\ spec \in EcnSpecs /\ ~EcnSupported
    IN  /\ BeginQos("mgmtd", IF live /\ ~refused
                             THEN <<[do |-> "set wred", oid |-> old.oid, spec |-> spec]>> ELSE <<>>)
        /\ wredProfiles' = [wredProfiles EXCEPT ![name].spec = spec]
        /\ qosTrouble' = IF refused THEN qosTrouble \cup {"failed"} ELSE qosTrouble
        /\ UNCHANGED <<qosPrograms, qosMaps, mapObjects, schedulers, applied, qosMembers,
                       qosOutdated, qosDamaged>>

\* Refused while a queue is counted.
RemoveWred(name) ==
    /\ wredProfiles[name] # NoProfile /\ wredProfiles[name].refs = 0
    /\ BeginQos("mgmtd", IF wredProfiles[name].oid = NoObject THEN <<>>
                         ELSE <<[do |-> "remove", oid |-> wredProfiles[name].oid]>>)
    /\ wredProfiles' = [wredProfiles EXCEPT ![name] = NoProfile]
    /\ UNCHANGED <<qosPrograms, qosMaps, mapObjects, schedulers, applied, qosMembers, qosGhosts>>

CreateQosLag ==
    /\ qosMembers = NoChannel
    /\ BeginQos("mgmtd", <<>>)
    /\ qosMembers' = {}
    /\ UNCHANGED <<qosWorld, qosGhosts>>

\* remove_lag() forgets the Port-Channel after its SAI calls.
RemoveQosLag ==
    /\ qosMembers # NoChannel
    /\ BeginQos("mgmtd", <<[do |-> "forget channel"]>>)
    /\ UNCHANGED <<qosWorld, qosMembers, qosGhosts>>

\* set_lag_members() reads the members, makes its SAI calls, and writes the new
\* members; a SAI call that fails leaves the tables as they were.
SetQosMembers(members) ==
    /\ qosMembers # NoChannel
    /\ BeginQos("gates", <<[do |-> "write members", members |-> members,
                            leaving |-> qosMembers \ members]>>)
    /\ UNCHANGED <<qosWorld, qosMembers, qosGhosts>>

QosRpc ==
    \/ \E t \in QosTargets : \/ \E p \in PortPrograms : SetPortQos(t, p)
                             \/ ClearPortQos(t)
    \/ \E m \in MapPrograms : SetQosMaps(m)
    \/ \E n \in WredNames : \/ \E s \in WredSpecs : EnsureWred(n, s)
                            \/ RemoveWred(n)
    \/ CreateQosLag
    \/ RemoveQosLag
    \/ \E members \in SUBSET QosPorts : SetQosMembers(members)

\* --- lock sections --------------------------------------------------------

QosStep(l) == Head(qosCall[l].plan)
QosNextIs(l, what) == ~QosIdle(l) /\ QosStep(l).do = what
QosRest(l) == Tail(qosCall[l].plan)

\* The call of lane l goes on with the given plan; at its end nothing is kept.
Continue(l, call, plan) ==
    qosCall' = [qosCall EXCEPT ![l] = IF plan = <<>> THEN NoQosCall ELSE [call EXCEPT !.plan = plan]]
Proceed(l) == Continue(l, qosCall[l], QosRest(l))

\* An object id no table, object or call remembers.
FreshOid(kind, key) ==
    LET known == DOMAIN qosHw
                 \cup {schedulers[s].oid : s \in DOMAIN schedulers}
                 \cup {wredProfiles[n].oid : n \in WredNames}
                 \cup UNION {{qosCall[l].new, qosCall[l].mine} : l \in QosLanes}
        used == {n \in 1..(Cardinality(known) + 1) : <<kind, key, n>> \in known}
    IN  <<kind, key, CHOOSE n \in 1..(Cardinality(known) + 1) :
                        n \notin used /\ \A m \in 1..(n - 1) : m \in used>>

\* An error leaves the handler: nothing of the port in hand is recorded, and the
\* ports that follow are not visited.
Abandon(l) ==
    LET call == qosCall[l]
        ahead == {call.plan[i].port : i \in {j \in DOMAIN call.plan : call.plan[j].do = "visit"}}
    IN  /\ qosCall' = [qosCall EXCEPT ![l] = NoQosCall]
        /\ Outdate(ahead)
        /\ qosDamaged' = qosDamaged \cup ({call.port} \ {NoPort})
        /\ qosTrouble' = qosTrouble \cup {"failed"}

LockOnly == UNCHANGED <<qosMembers, qosHw, qosPort, qosEvents, qosFaults>>
NoTrouble == UNCHANGED qosGhosts

\* A port that joined the Port-Channel after the ports were found is not visited.
WriteProgram(l) ==
    LET step == QosStep(l)
    IN  /\ QosNextIs(l, "write program")
        /\ qosPrograms' = [qosPrograms EXCEPT ![step.target] = step.program]
        /\ Outdate(Range(QosPhysicalTargets(step.target)) \ step.ports)
        /\ Proceed(l)
        /\ LockOnly
        /\ UNCHANGED <<qosMaps, mapObjects, schedulers, wredProfiles, applied, qosDamaged, qosTrouble>>

LagLock == UNCHANGED <<qosWorld, qosHw, qosPort, qosEvents, qosFaults, qosDamaged, qosTrouble>>

\* No program is refreshed on the former members.
ForgetChannel(l) ==
    /\ QosNextIs(l, "forget channel")
    /\ qosMembers' = NoChannel
    /\ Outdate({p \in ChannelMembers : /\ qosPrograms[QosLag] # NoQosProgram
                                        /\ qosPrograms[p] = NoQosProgram})
    /\ Proceed(l)
    /\ LagLock

\* A Port-Channel that is gone by now stays gone.  The access lists are refreshed
\* next (awaits), and then the programs.  (programmed is history.)
WriteQosMembers(l) ==
    LET step == QosStep(l)
    IN  /\ QosNextIs(l, "write members")
        /\ qosMembers' = IF qosMembers = NoChannel THEN NoChannel ELSE step.members
        /\ Continue(l, qosCall[l], <<[do |-> "refresh", leaving |-> step.leaving,
                                      members |-> step.members,
                                      programmed |-> qosPrograms[QosLag] # NoQosProgram]>>)
        /\ LagLock /\ UNCHANGED qosOutdated

\* Mutant: the ports that left keep the program of the Port-Channel.
RefreshMembersOnly(l) ==
    LET step == QosStep(l)
        programmed == qosPrograms[QosLag] # NoQosProgram
    IN  /\ QosNextIs(l, "refresh")
        /\ Continue(l, qosCall[l], IF programmed THEN Visits(SetToSeq(step.members)) ELSE <<>>)
        /\ Outdate(IF step.programmed /\ ~programmed THEN step.leaving ELSE {})
        /\ LockOnly /\ UNCHANGED <<qosWorld, qosDamaged, qosTrouble>>

\* refresh_lag_qos(): the ports that left, then the members, if the Port-Channel
\* has a program now.  One that was cleared meanwhile is cleared on its members.
RefreshLagQos(l) ==
    LET step == QosStep(l)
        programmed == qosPrograms[QosLag] # NoQosProgram
    IN  /\ QosNextIs(l, "refresh")
        /\ Continue(l, qosCall[l],
                    IF programmed THEN Visits(SetToSeq(step.leaving) \o SetToSeq(step.members))
                    ELSE <<>>)
        /\ Outdate(IF step.programmed /\ ~programmed THEN step.leaving ELSE {})
        /\ LockOnly /\ UNCHANGED <<qosWorld, qosDamaged, qosTrouble>>

\* apply_port_qos() reads the world four times: the program the port resolves to,
VisitPort(l) ==
    LET p == QosStep(l).port
        met == \E o \in QosLanes \ {l} : qosCall[o].port = p
    IN  /\ QosNextIs(l, "visit")
        /\ qosCall' = [qosCall EXCEPT ![l].port = p,
                ![l].plan = <<[do |-> "want maps", desired |-> ResolvedQos(p)]>> \o QosRest(l)]
        /\ qosOutdated' = qosOutdated \ {p}
        /\ qosDamaged' = IF met THEN qosDamaged \cup {p} ELSE qosDamaged
        /\ qosTrouble' = IF met THEN qosTrouble \cup {"met"} ELSE qosTrouble
        /\ LockOnly /\ UNCHANGED qosWorld

Reads == LockOnly /\ NoTrouble /\ UNCHANGED qosWorld

\* the maps the program wants,
WantMaps(l) ==
    LET desired == QosStep(l).desired
    IN  /\ QosNextIs(l, "want maps")
        /\ Continue(l, qosCall[l], <<[do |-> "copy maps", desired |-> desired,
                                      want |-> DesiredMaps(desired.trust)]>> \o QosRest(l))
        /\ Reads

\* the objects of the maps,
CopyMaps(l) ==
    LET step == QosStep(l)
    IN  /\ QosNextIs(l, "copy maps")
        /\ Continue(l, qosCall[l], <<[do |-> "compare", desired |-> step.desired, want |-> step.want,
                                      objects |-> mapObjects]>> \o QosRest(l))
        /\ Reads

\* and what the port has.
ComparePort(l) ==
    LET step == QosStep(l)
    IN  /\ QosNextIs(l, "compare")
        /\ Continue(l, qosCall[l],
                    PortPlan(qosCall[l].port, step.desired, step.want, step.objects) \o QosRest(l))
        /\ Reads

\* Mutant: a profile that is already published is used without being counted.
CountedNot(entry) == entry

Counted(entry) == [entry EXCEPT !.refs = @ + 1]

\* acquire_scheduler(): a published profile is counted, else one is created.
AcquireScheduler(l) ==
    LET spec == QosStep(l).spec
        known == schedulers[spec] # NoScheduler
    IN  /\ QosNextIs(l, "acquire scheduler")
        /\ schedulers' = IF known THEN [schedulers EXCEPT ![spec] = Counted(@)] ELSE schedulers
        /\ Continue(l, [qosCall[l] EXCEPT !.new = schedulers[spec].oid],
                    IF known THEN QosRest(l)
                    ELSE <<[do |-> "create scheduler", spec |-> spec],
                           [do |-> "publish scheduler", spec |-> spec]>> \o QosRest(l))
        /\ LockOnly /\ NoTrouble /\ UNCHANGED <<qosPrograms, qosMaps, mapObjects, wredProfiles, applied>>

\* Another handler may have published the same shape meanwhile: ours is freed.
PublishScheduler(l) ==
    LET spec == QosStep(l).spec
        mine == qosCall[l].mine
        known == schedulers[spec] # NoScheduler
    IN  /\ QosNextIs(l, "publish scheduler")
        /\ schedulers' = [schedulers EXCEPT
                ![spec] = IF known THEN Counted(@) ELSE [oid |-> mine, refs |-> 1]]
        /\ Continue(l, [qosCall[l] EXCEPT !.new = schedulers'[spec].oid, !.mine = NoObject],
                    (IF known THEN <<[do |-> "discard", oid |-> mine]>> ELSE <<>>) \o QosRest(l))
        /\ LockOnly /\ NoTrouble /\ UNCHANGED <<qosPrograms, qosMaps, mapObjects, wredProfiles, applied>>

\* Mutant: the entry stays when the last reference goes.
DroppedKept(entry) == [entry EXCEPT !.refs = @ - 1]

Dropped(entry) == IF entry.refs > 1 THEN [entry EXCEPT !.refs = @ - 1] ELSE NoScheduler

\* release_scheduler(): at the last reference the entry goes, then the object.
ReleaseScheduler(l) ==
    LET spec == QosStep(l).spec
        entry == schedulers[spec]
    IN  /\ QosNextIs(l, "release scheduler")
        /\ schedulers' = IF entry = NoScheduler THEN schedulers
                         ELSE [schedulers EXCEPT ![spec] = Dropped(@)]
        /\ Continue(l, qosCall[l],
                    (IF entry.refs = 1 THEN <<[do |-> "remove", oid |-> entry.oid]>> ELSE <<>>)
                    \o QosRest(l))
        /\ LockOnly /\ NoTrouble /\ UNCHANGED <<qosPrograms, qosMaps, mapObjects, wredProfiles, applied>>

WredOnly == UNCHANGED <<qosPrograms, qosMaps, mapObjects, schedulers, applied>>

\* acquire_wred() first reads the profile ...
ReadWred(l) ==
    LET name == QosStep(l).name
        profile == wredProfiles[name]
        acquire == IF profile.oid # NoObject THEN <<[do |-> "count wred", name |-> name]>>
                   ELSE <<[do |-> "create wred", name |-> name, spec |-> profile.spec],
                          [do |-> "publish wred", name |-> name, spec |-> profile.spec]>>
    IN  /\ QosNextIs(l, "read wred")
        /\ IF profile = NoProfile \/ (profile.oid = NoObject /\ Unsupported(profile.spec))
           THEN Abandon(l)
           ELSE /\ Continue(l, [qosCall[l] EXCEPT !.new = profile.oid], acquire \o QosRest(l))
                /\ NoTrouble
        /\ LockOnly /\ UNCHANGED qosWorld

\* ... and counts the reference under a second lock.
CountWred(l) ==
    LET name == QosStep(l).name
        profile == wredProfiles[name]
    IN  /\ QosNextIs(l, "count wred")
        /\ wredProfiles' = IF profile = NoProfile THEN wredProfiles
                           ELSE [wredProfiles EXCEPT ![name] = Counted(@)]
        /\ Proceed(l)
        /\ qosTrouble' = IF profile.oid = qosCall[l].new THEN qosTrouble
                         ELSE qosTrouble \cup {"uncounted"}
        /\ LockOnly /\ WredOnly /\ UNCHANGED <<qosOutdated, qosDamaged>>

\* The object was created from the spec that was read.
PublishWred(l) ==
    LET name == QosStep(l).name
        profile == wredProfiles[name]
        mine == qosCall[l].mine
    IN  /\ QosNextIs(l, "publish wred")
        /\ \/ /\ profile = NoProfile
              /\ Abandon(l)
              /\ UNCHANGED wredProfiles
           \/ /\ profile # NoProfile /\ profile.oid # NoObject
              /\ Continue(l, [qosCall[l] EXCEPT !.new = profile.oid, !.mine = NoObject],
                          <<[do |-> "discard", oid |-> mine], [do |-> "count wred", name |-> name]>>
                          \o QosRest(l))
              /\ NoTrouble /\ UNCHANGED wredProfiles
           \/ /\ profile # NoProfile /\ profile.oid = NoObject
              /\ wredProfiles' = [wredProfiles EXCEPT ![name].oid = mine, ![name].refs = @ + 1]
              /\ Continue(l, [qosCall[l] EXCEPT !.new = mine, !.mine = NoObject], QosRest(l))
              /\ qosTrouble' = IF profile.spec = QosStep(l).spec THEN qosTrouble
                               ELSE qosTrouble \cup {"outdated"}
              /\ UNCHANGED <<qosOutdated, qosDamaged>>
        /\ LockOnly /\ WredOnly

Released(profile) ==
    IF profile.refs > 1 THEN [profile EXCEPT !.refs = @ - 1]
    ELSE [profile EXCEPT !.refs = 0, !.oid = NoObject]

ReleaseWred(l) ==
    LET name == QosStep(l).name
        profile == wredProfiles[name]
        last == profile.refs <= 1
    IN  /\ QosNextIs(l, "release wred")
        /\ wredProfiles' = IF profile = NoProfile THEN wredProfiles
                           ELSE [wredProfiles EXCEPT ![name] = Released(@)]
        /\ Continue(l, qosCall[l],
                    (IF last /\ profile.oid # NoObject THEN <<[do |-> "remove", oid |-> profile.oid]>>
                     ELSE <<>>) \o QosRest(l))
        /\ LockOnly /\ WredOnly /\ NoTrouble

\* The published object goes now, so that the visits unbind it.
UnpublishMap(l) ==
    /\ QosNextIs(l, "unpublish map")
    /\ mapObjects' = [mapObjects EXCEPT ![QosStep(l).kind] = NoObject]
    /\ Proceed(l)
    /\ LockOnly /\ NoTrouble
    /\ UNCHANGED <<qosPrograms, qosMaps, schedulers, wredProfiles, applied>>

WriteMaps(l) ==
    /\ QosNextIs(l, "write maps")
    /\ qosMaps' = QosStep(l).maps
    /\ Proceed(l)
    /\ LockOnly /\ NoTrouble
    /\ UNCHANGED <<qosPrograms, mapObjects, schedulers, wredProfiles, applied>>

\* The end of apply_port_qos().
RecordPort(l) ==
    /\ QosNextIs(l, "record")
    /\ applied' = [applied EXCEPT ![qosCall[l].port] = QosStep(l).result]
    /\ Continue(l, NoQosCall, QosRest(l))
    /\ LockOnly /\ NoTrouble
    /\ UNCHANGED <<qosPrograms, qosMaps, mapObjects, schedulers, wredProfiles>>

\* --- SAI calls ------------------------------------------------------------

SaiOnly == NoTrouble /\ UNCHANGED <<qosMembers, qosEvents, qosFaults>>
Exists(oid) == oid = NoObject \/ oid \in DOMAIN qosHw
PlusObject(oid, value) == [o \in DOMAIN qosHw \cup {oid} |-> IF o = oid THEN value ELSE qosHw[o]]
MinusObject(oid) == [o \in DOMAIN qosHw \ {oid} |-> qosHw[o]]
Bound(oid) ==
    \E p \in QosPorts : \/ \E k \in MapKinds : qosPort[p].maps[k] = oid
                        \/ \E q \in Queues : oid \in {qosPort[p].sched[q], qosPort[p].wred[q]}

\* The object a bind step names.
ToBind(l) ==
    LET step == QosStep(l)
    IN  CASE step.do = "bind map" -> step.oid
          [] step.do = "bind scheduler" ->
                IF step.spec = DefaultScheduler THEN NoObject ELSE qosCall[l].new
          [] step.do = "bind wred" -> IF step.name = NoWred THEN NoObject ELSE qosCall[l].new

\* The backend refuses to bind, to rewrite or to remove an object that does not
\* exist, and to remove one that is bound.
QosAccepts(l) ==
    LET step == QosStep(l)
    IN  CASE step.do \in {"bind map", "bind scheduler", "bind wred"} -> Exists(ToBind(l))
          [] step.do \in {"rewrite map", "set wred"} -> Exists(step.oid)
          [] step.do = "remove" -> Exists(step.oid) /\ ~Bound(step.oid)
          [] OTHER -> TRUE

SaiBindQos(l) ==
    LET step == QosStep(l)
        p == qosCall[l].port
    IN  /\ \/ /\ QosNextIs(l, "bind map")
              /\ qosPort' = [qosPort EXCEPT ![p].maps[step.kind] = ToBind(l)]
           \/ /\ QosNextIs(l, "bind scheduler")
              /\ qosPort' = [qosPort EXCEPT ![p].sched[step.queue] = ToBind(l)]
           \/ /\ QosNextIs(l, "bind wred")
              /\ qosPort' = [qosPort EXCEPT ![p].wred[step.queue] = ToBind(l)]
           \/ /\ QosNextIs(l, "set tc")
              /\ qosPort' = [qosPort EXCEPT ![p].tc = step.tc]
           \/ /\ QosNextIs(l, "set shaper")
              /\ qosPort' = [qosPort EXCEPT ![p].shape = step.shape]
        /\ QosAccepts(l)
        /\ Proceed(l)
        /\ SaiOnly /\ UNCHANGED <<qosWorld, qosHw>>

SaiCreateScheduler(l) ==
    LET oid == FreshOid("scheduler", QosStep(l).spec)
    IN  /\ QosNextIs(l, "create scheduler")
        /\ qosHw' = PlusObject(oid, QosStep(l).spec)
        /\ Continue(l, [qosCall[l] EXCEPT !.mine = oid], QosRest(l))
        /\ SaiOnly /\ UNCHANGED <<qosWorld, qosPort>>

SaiCreateWred(l) ==
    LET oid == FreshOid("wred", QosStep(l).name)
    IN  /\ QosNextIs(l, "create wred")
        /\ qosHw' = PlusObject(oid, QosStep(l).spec)
        /\ Continue(l, [qosCall[l] EXCEPT !.mine = oid], QosRest(l))
        /\ SaiOnly /\ UNCHANGED <<qosWorld, qosPort>>

\* The map is created and published.
SaiCreateMap(l) ==
    LET step == QosStep(l)
        oid == FreshOid("map", step.kind)
    IN  /\ QosNextIs(l, "create map")
        /\ qosHw' = PlusObject(oid, step.entries)
        /\ mapObjects' = [mapObjects EXCEPT ![step.kind] = oid]
        /\ Proceed(l)
        /\ SaiOnly /\ UNCHANGED <<qosPrograms, qosMaps, schedulers, wredProfiles, applied, qosPort>>

SaiRewrite(l) ==
    LET step == QosStep(l)
    IN  /\ \/ QosNextIs(l, "rewrite map") /\ QosAccepts(l) /\ qosHw' = PlusObject(step.oid, step.entries)
           \/ QosNextIs(l, "set wred") /\ QosAccepts(l) /\ qosHw' = PlusObject(step.oid, step.spec)
        /\ Proceed(l)
        /\ SaiOnly /\ UNCHANGED <<qosWorld, qosPort>>

SaiRemoveQos(l) ==
    /\ QosNextIs(l, "remove") /\ QosAccepts(l)
    /\ qosHw' = MinusObject(QosStep(l).oid)
    /\ Proceed(l)
    /\ SaiOnly /\ UNCHANGED <<qosWorld, qosPort>>

\* The loser of a race frees its object and ignores the answer.
SaiDiscard(l) ==
    /\ QosNextIs(l, "discard")
    /\ qosHw' = MinusObject(QosStep(l).oid)
    /\ Proceed(l)
    /\ SaiOnly /\ UNCHANGED <<qosWorld, qosPort>>

QosSaiCall(l) ==
    ~QosIdle(l) /\ QosStep(l).do \in
        {"bind map", "bind scheduler", "bind wred", "set tc", "set shaper", "create scheduler",
         "create wred", "create map", "rewrite map", "set wred", "remove"}

QosRefused(l) ==
    /\ QosSaiCall(l) /\ ~QosAccepts(l)
    /\ Abandon(l)
    /\ UNCHANGED <<qosWorld, qosMembers, qosHw, qosPort, qosEvents, qosFaults>>

\* The ASIC fails a call that is in order.
QosFault(l) ==
    /\ QosSaiCall(l) /\ QosAccepts(l)
    /\ qosFaults < MaxQosFaults /\ qosEvents < MaxQosEvents
    /\ qosFaults' = qosFaults + 1 /\ qosEvents' = qosEvents + 1
    /\ Abandon(l)
    /\ UNCHANGED <<qosWorld, qosMembers, qosHw, qosPort>>

\* Profiles, members and programs; what the programs say has been applied.
QosInit ==
    /\ \E start \in QosStarts :
        /\ qosMembers = start.members /\ qosPrograms = start.programs
        /\ LET users(queues, name) == {x \in QosPorts \X Queues : ResolvedQos(x[1])[queues][x[2]] = name}
               oid(kind, queues, name) ==
                    IF name \in {DefaultScheduler, NoWred} \/ users(queues, name) = {} THEN NoObject
                    ELSE <<kind, name, 1>>
           IN  /\ schedulers = [s \in {p.sched[q] : p \in PortPrograms, q \in Queues} |->
                                    [oid |-> oid("scheduler", "sched", s),
                                     refs |-> Cardinality(users("sched", s))]]
               /\ wredProfiles = [n \in WredNames |-> [spec |-> start.wreds[n],
                                                       oid |-> oid("wred", "wred", n),
                                                       refs |-> Cardinality(users("wred", n))]]
               /\ qosPort = [p \in QosPorts |->
                    [PortDefaults EXCEPT
                        !.tc = ResolvedQos(p).tc, !.shape = ResolvedQos(p).shape,
                        !.sched = [q \in Queues |-> oid("scheduler", "sched", ResolvedQos(p).sched[q])],
                        !.wred = [q \in Queues |-> oid("wred", "wred", ResolvedQos(p).wred[q])]]]
               /\ qosHw = [o \in ( {schedulers[s].oid : s \in DOMAIN schedulers}
                                   \cup {wredProfiles[n].oid : n \in WredNames} ) \ {NoObject} |->
                            IF o[1] = "wred" THEN start.wreds[o[2]] ELSE o[2]]
    /\ applied = [p \in QosPorts |->
                    [NothingApplied EXCEPT
                        !.tc = ResolvedQos(p).tc, !.shape = ResolvedQos(p).shape,
                        !.sched = ResolvedQos(p).sched, !.wred = ResolvedQos(p).wred]]
    /\ qosMaps = [k \in MapKinds |-> NoTableEntries]
    /\ mapObjects = [k \in MapKinds |-> NoObject]
    /\ qosCall = [l \in QosLanes |-> NoQosCall]
    /\ qosEvents = 0 /\ qosFaults = 0
    /\ qosOutdated = {} /\ qosDamaged = {} /\ qosTrouble = {}

ApplyPortQos(l) ==
    \/ WriteProgram(l) \/ ForgetChannel(l) \/ WriteQosMembers(l) \/ RefreshLagQos(l)
    \/ VisitPort(l) \/ WantMaps(l) \/ CopyMaps(l) \/ ComparePort(l) \/ RecordPort(l)
    \/ AcquireScheduler(l) \/ PublishScheduler(l) \/ ReleaseScheduler(l)
    \/ ReadWred(l) \/ CountWred(l) \/ PublishWred(l) \/ ReleaseWred(l)
    \/ UnpublishMap(l) \/ WriteMaps(l)
    \/ SaiBindQos(l) \/ SaiCreateScheduler(l) \/ SaiCreateWred(l) \/ SaiCreateMap(l)
    \/ SaiRewrite(l) \/ SaiRemoveQos(l) \/ SaiDiscard(l)
    \/ QosRefused(l) \/ QosFault(l)

\* Every handler has returned and nobody calls.
QosDone == QosAtRest /\ UNCHANGED qosVars

QosNext == QosRpc \/ (\E l \in QosLanes : ApplyPortQos(l)) \/ QosDone
QosSpec == QosInit /\ [][QosNext]_qosVars

\* --- properties -----------------------------------------------------------

\* Object ids, counts and records have their shapes, and a call in hand has work.
QosTypeOK ==
    /\ \A s \in DOMAIN schedulers : /\ schedulers[s].refs \in Nat
                                    /\ (schedulers[s].oid = NoObject) = (schedulers[s].refs = 0)
    /\ \A n \in WredNames : wredProfiles[n].refs \in Nat
    /\ applied \in [QosPorts -> [maps : SUBSET MapKinds, tc : 0..7, shape : Nat,
                                 sched : [Queues -> DOMAIN schedulers \cup {DefaultScheduler}],
                                 wred : [Queues -> WredNames \cup {NoWred}]]]
    /\ qosOutdated \cup qosDamaged \subseteq QosPorts

\* apply_port_qos() against the programs: between calls the ASIC has, on every port,
\* the program the port resolves to and the maps it must have, whichever handlers
\* wrote them and however their lock sections interleaved.  Set aside are the ports
\* the code does leave behind: those a visit failed on or that two handlers visited
\* at once, those a failing call did not reach, the former members of a Port-Channel
\* that was removed, the ports that joined one while its program was written, after
\* that call had found its ports, and those that left one whose program was cleared
\* before refresh_lag_qos() looked for it.
QosInForce ==
    QosAtRest => \A p \in QosPorts \ (qosOutdated \cup qosDamaged) :
        LET want == ResolvedQos(p)
            port == qosPort[p]
        IN  /\ port.tc = want.tc /\ port.shape = want.shape
            /\ \A q \in Queues :
                /\ IF want.sched[q] = DefaultScheduler THEN port.sched[q] = NoObject
                   ELSE port.sched[q] # NoObject /\ qosHw[port.sched[q]] = want.sched[q]
                /\ IF want.wred[q] = NoWred THEN port.wred[q] = NoObject
                   ELSE port.wred[q] # NoObject /\ port.wred[q][2] = want.wred[q]
            /\ \A k \in MapKinds : port.maps[k] = IF k \in DesiredMaps(want.trust)
                                                   THEN mapObjects[k] ELSE NoObject

\* "Deduplicated and refcounted": between calls each scheduler and WRED profile is
\* counted once for every queue that is recorded to have it, is the only object of
\* its value, carries that value, and nothing else is left in the ASIC.
SharedIsCounted ==
    LET users(f(_, _)) == Cardinality({x \in QosPorts \X Queues : f(x[1], x[2])})
    IN  (QosAtRest /\ qosTrouble = {}) =>
            /\ \A s \in DOMAIN schedulers :
                    schedulers[s].refs = users(LAMBDA p, q : applied[p].sched[q] = s)
            /\ \A n \in WredNames :
                    /\ wredProfiles[n].refs = users(LAMBDA p, q : applied[p].wred[q] = n)
                    /\ wredProfiles[n].oid = NoObject <=> wredProfiles[n].refs = 0
                    /\ wredProfiles[n].oid # NoObject => qosHw[wredProfiles[n].oid] = wredProfiles[n].spec
            /\ \A k \in MapKinds : mapObjects[k] # NoObject => qosHw[mapObjects[k]] = qosMaps[k]
            /\ DOMAIN qosHw = ( {schedulers[s].oid : s \in DOMAIN schedulers}
                                \cup {wredProfiles[n].oid : n \in WredNames}
                                \cup {mapObjects[k] : k \in MapKinds} ) \ {NoObject}

\* As long as no call failed, no two handlers met on a port and no WRED reference was
\* taken on a profile that changed its object meanwhile, whatever the handlers share
\* nothing is bound after it was freed and nothing is freed while it is bound, even
\* where a WRED object was created from a spec that is outdated.  (Only the in-place update of a WRED profile
\* may find its object gone: the last queue can leave it meanwhile.)
NothingIsRefused ==
    qosTrouble \subseteq {"outdated"} => \A l \in QosLanes :
        (QosSaiCall(l) /\ QosStep(l).do # "set wred") => QosAccepts(l)

\* "the object is freed when the last queue unbinds": a scheduler a queue is still
\* bound to is not forgotten.  It does not hold once apply_port_qos() has failed
\* half-way: the next visit releases the old profile a second time.
FreedOnLastUnbind ==
    QosAtRest => \A p \in QosPorts, q \in Queues :
        qosPort[p].sched[q] # NoObject =>
            \E s \in DOMAIN schedulers : schedulers[s].oid = qosPort[p].sched[q]
=============================================================================
