------------------------------ MODULE SyncdAcl ------------------------------
(***************************************************************************)
(* The ACL half of hemlock-syncd's security.rs: user access lists and      *)
(* their bindings (mgmtd's calls), 802.1X enforcement and snooping         *)
(* redirects (two pusher tasks of hemlock-orch), Port-Channel membership   *)
(* (the gate pusher), and apply_port_stage(), which materialises all of    *)
(* them in one hardware table per (physical port, stage).                  *)
(*                                                                         *)
(* The handlers share state behind a lock they hold only for a snapshot or *)
(* an update, and run concurrently; the actor thread serialises single SAI *)
(* calls.  So the handler of each caller ("lane") is a sequence of steps,  *)
(* one per lock section, SAI call or table write.  What a slot's SAI calls *)
(* are follows from its snapshot, except for the object ids they return;   *)
(* Work computes them.                                                     *)
(*                                                                         *)
(* Lists and bindings are changed by mgmtd's lane alone, one call after    *)
(* the other, so a section that only reads them is joined to the next one  *)
(* of the same handler.                                                    *)
(*                                                                         *)
(* A frame matcher is the set of the frames it matches.                    *)
(***************************************************************************)
EXTENDS Integers, Sequences, SequencesExt

CONSTANTS
    AclPorts,           \* physical ports
    AclLag,             \* the name of the one Port-Channel
    AclStages,          \* "ingress" and "egress", or the first alone
    AclFrames, Eapol,   \* frames, and the one that is EAPOL
    AclNames,
    AclPrograms,        \* the definitions EnsureAcl may carry
    RedirectPrograms,   \* the per-port redirects SetSnoopRedirects may carry
    AclStarts,          \* definitions, membership, bindings and redirects at the start
    AclLanes,           \* the callers that are active
    MaxAclEvents,       \* calls and SAI failures
    MaxAclFaults,       \* SAI failures alone
    MaxMeetings         \* times two handlers are inside one slot at once

VARIABLES
    acls,               \* world.acls
    bindings,           \* world.bindings: <<port or Port-Channel, stage>> -> ACL
    internal,           \* world.internal (ingress only)
    aclMembers,         \* the Port-Channel's members, NoLag before it exists
    tables,             \* world.tables
    aclHw,              \* the ASIC's tables, entries, counters and policers
    aclBound,           \* the ASIC's bindings: slot -> table
    aclCall,            \* what each lane is doing
    aclCalls, aclFaults, meetings,
    excuse              \* why a slot may differ from its policy (history)

aclVars == <<acls, bindings, internal, aclMembers, tables, aclHw, aclBound, aclCall,
             aclCalls, aclFaults, meetings, excuse>>

NoAcl == "no ACL"
NoLag == {AclLag}
NoOid == <<>>
NoProgram == [family |-> "none"]
NoTable == [table |-> NoOid, family |-> "none", entries |-> <<>>]
NoCall == [name |-> "none"]

AclTargets == AclPorts \cup {AclLag}
Slots == AclPorts \X AclStages
LagMembers == IF aclMembers = NoLag THEN {} ELSE aclMembers
-----------------------------------------------------------------------------
(* desired_entries() and what it reads *)

\* The enum's derived order: internal entries, user rules, the implicit deny.
InternalKey(seq) == seq
UserKey(number) == 100 + number
DenyKey == 1000

InternalPriority(seq) == 200 - seq
UserPriority(ordinal) == 100 - ordinal
DenyPriority == 1

Dot1xEntries ==
    << [match |-> {Eapol}, action |-> "trap", ipv4 |-> FALSE],
       [match |-> AclFrames, action |-> "drop", ipv4 |-> FALSE] >>

\* InternalAcl::ordered().
Ordered(i) == (IF i.dot1x THEN Dot1xEntries ELSE <<>>) \o i.snoop

InternalEntries(slot) == IF slot[2] = "ingress" THEN Ordered(internal[slot[1]]) ELSE <<>>

\* resolved_user_acl(): the port's own binding, else its Port-Channel's.
ResolvedAcl(slot) ==
    IF bindings[slot] # NoAcl THEN bindings[slot]
    ELSE IF slot[1] \in LagMembers THEN bindings[<<AclLag, slot[2]>>]
    ELSE NoAcl

\* The rest is a function of the slot and of the list (user) it was resolved to.
NothingWanted(slot, user) == user = NoAcl /\ InternalEntries(slot) = <<>>

DesiredFamily(user) == IF user = NoAcl THEN "ipv4" ELSE acls[user].family

\* The list is gone, or a redirect that matches on IPv4 fields does not fit its
\* family (fits_family).
Conflict(slot, user) ==
    /\ user # NoAcl
    /\ \/ acls[user] = NoProgram
       \/ /\ DesiredFamily(user) # "ipv4"
          /\ \E i \in DOMAIN InternalEntries(slot) : InternalEntries(slot)[i].ipv4

Want(priority, e, police, counted) ==
    [priority |-> priority, match |-> e.match, action |-> e.action,
     police |-> police, counted |-> counted]

Ordinal(rules, number) == Cardinality({m \in DOMAIN rules : m < number})

DesiredEntries(slot, user) ==
    LET inner == InternalEntries(slot)
        rules == IF user = NoAcl THEN <<>> ELSE acls[user].rules
        innerKeys == {InternalKey(i - 1) : i \in DOMAIN inner}
        userKeys == IF user = NoAcl THEN {}
                    ELSE {UserKey(n) : n \in DOMAIN rules} \cup {DenyKey}
    IN  [k \in innerKeys \cup userKeys |->
            IF k \in innerKeys THEN Want(InternalPriority(k), inner[k + 1], 0, FALSE)
            ELSE IF k = DenyKey
            THEN Want(DenyPriority, [match |-> AclFrames, action |-> "drop"], 0, TRUE)
            ELSE LET rule == rules[k - UserKey(0)]
                 IN  Want(UserPriority(Ordinal(rules, k - UserKey(0))), rule, rule.police, TRUE)]
-----------------------------------------------------------------------------
(* The SAI calls one slot needs, as steps of the handler *)

Do(what) == <<[do |-> what, oid |-> NoOid]>>
DoTo(what, oid) == IF oid = NoOid THEN <<>> ELSE <<[do |-> what, oid |-> oid]>>
DoFor(what, key, want) == <<[do |-> what, oid |-> NoOid, key |-> key, want |-> want]>>

InKeyOrder(keys) == SetToSortSeq(keys, <)
Each(keys, Steps(_)) ==
    LET order == InKeyOrder(keys)
    IN  FlattenSeq([i \in DOMAIN order |-> Steps(order[i])])

\* destroy_entry_objs().
DestroySteps(have) ==
    DoTo("remove", have.entry) \o DoTo("remove", have.policer) \o DoTo("remove", have.counter)

\* create_entry_objs().
CreateSteps(key, want) ==
    (IF want.counted THEN DoFor("create counter", key, want) ELSE <<>>)
    \o (IF want.police # 0 THEN DoFor("create policer", key, want) ELSE <<>>)
    \o DoFor("create entry", key, want)

\* Mutant: an updated rule is rebuilt from nothing.
UpdateStepsAnew(key, have, want) == DestroySteps(have) \o CreateSteps(key, want)

\* Mutant: the policer of a rule that is no longer policed stays.
UpdateStepsKeepPolicer(key, have, want) ==
    (IF want.police = 0 \/ have.police = want.police THEN <<>>
     ELSE IF have.policer = NoOid THEN DoFor("create policer", key, want)
     ELSE DoFor("set policer", key, want))
    \o (IF <<have.priority, have.match>> # <<want.priority, want.match>>
        THEN DoTo("remove", have.entry) \o DoFor("create entry", key, want)
        ELSE DoFor("set action", key, want))

\* update_entry_objs(): fields and priority are create-time shape, the counter
\* survives, a dropped policer goes last.
UpdateSteps(key, have, want) ==
    (IF want.police = 0 \/ have.police = want.police THEN <<>>
     ELSE IF have.policer = NoOid THEN DoFor("create policer", key, want)
     ELSE DoFor("set policer", key, want))
    \o (IF <<have.priority, have.match>> # <<want.priority, want.match>>
        THEN DoTo("remove", have.entry) \o DoFor("create entry", key, want)
        ELSE DoFor("set action", key, want))
    \o (IF want.police = 0 THEN DoTo("remove", have.policer) ELSE <<>>)

Unchanged(have, want) ==
    /\ have.priority = want.priority /\ have.match = want.match
    /\ have.action = want.action /\ have.police = want.police

TeardownSteps(current) ==
    Do("unbind")
    \o Each(DOMAIN current.entries, LAMBDA k : DestroySteps(current.entries[k]))
    \o DoTo("remove", current.table)
    \o Do("forget")

\* Mutant: every edit creates the 802.1X deny anew.
BuildStepsRenew(existing, desired, isNew) ==
    (IF isNew THEN Do("create table") ELSE <<>>)
    \o Each(DOMAIN existing \ DOMAIN desired, LAMBDA k : DestroySteps(existing[k]))
    \o Each(DOMAIN desired, LAMBDA k :
            IF k \notin DOMAIN existing THEN CreateSteps(k, desired[k])
            ELSE IF k < UserKey(0) /\ desired[k].action = "drop"
            THEN DestroySteps(existing[k]) \o CreateSteps(k, desired[k])
            ELSE IF Unchanged(existing[k], desired[k]) THEN <<>>
            ELSE UpdateSteps(k, existing[k], desired[k]))
    \o (IF isNew THEN Do("bind") ELSE <<>>)
    \o Do("record")

\* Create the table if there is none, drop the stale entries, create or update
\* the desired ones, bind a new table, write world.tables.
BuildSteps(existing, desired, isNew) ==
    (IF isNew THEN Do("create table") ELSE <<>>)
    \o Each(DOMAIN existing \ DOMAIN desired, LAMBDA k : DestroySteps(existing[k]))
    \o Each(DOMAIN desired, LAMBDA k :
            IF k \notin DOMAIN existing THEN CreateSteps(k, desired[k])
            ELSE IF Unchanged(existing[k], desired[k]) THEN <<>>
            ELSE UpdateSteps(k, existing[k], desired[k]))
    \o (IF isNew THEN Do("bind") ELSE <<>>)
    \o Do("record")

\* A family change is a rebuild.
Rebuild(slot, user) ==
    /\ tables[slot] # NoTable /\ ~NothingWanted(slot, user)
    /\ tables[slot].family # DesiredFamily(user)

\* What the record will say of a desired entry; the ids of the objects that do
\* not exist yet are filled in as they are created.
Kept(existing, desired) ==
    [k \in DOMAIN desired |->
        LET have == existing[k]
            same == k \in DOMAIN existing
        IN  [entry |-> IF same THEN have.entry ELSE NoOid,
             counter |-> IF same THEN have.counter ELSE NoOid,
             policer |-> IF same /\ desired[k].police # 0 THEN have.policer ELSE NoOid,
             priority |-> desired[k].priority, match |-> desired[k].match,
             action |-> desired[k].action, police |-> desired[k].police]]

\* The work of apply_port_stage() for a slot, from its snapshot.
Work(slot, user) ==
    LET current == tables[slot]
        isNew == current = NoTable \/ Rebuild(slot, user)
        existing == IF isNew THEN <<>> ELSE current.entries
        desired == DesiredEntries(slot, user)
    IN  IF NothingWanted(slot, user)
        THEN [slot |-> slot, family |-> "none", table |-> NoOid, objs |-> <<>>, rebuild |-> FALSE,
              plan |-> IF current = NoTable THEN <<>> ELSE TeardownSteps(current)]
        ELSE [slot |-> slot, family |-> DesiredFamily(user), rebuild |-> Rebuild(slot, user),
              table |-> IF isNew THEN NoOid ELSE current.table,
              objs |-> Kept(existing, desired),
              plan |-> (IF Rebuild(slot, user) THEN TeardownSteps(current) ELSE <<>>)
                       \o BuildSteps(existing, desired, isNew)]

NoWork == [slot |-> <<>>, family |-> "none", table |-> NoOid, objs |-> <<>>,
           rebuild |-> FALSE, plan |-> <<>>]
-----------------------------------------------------------------------------
(* The calls *)

NoUndo == [target |-> "none"]
NoWait == [at |-> "none"]
CallAt(name, todo, wait) ==
    [name |-> name, todo |-> todo, undo |-> NoUndo, restoring |-> FALSE, work |-> NoWork,
     wait |-> wait]
Call(name, todo) == CallAt(name, todo, NoWait)

\* A lane keeps its call until the last step of the last slot; wait is the lock
\* section its handler is about to enter, with what it read before.
Put(l, c) ==
    aclCall' = [aclCall EXCEPT ![l] =
                    IF c.work.plan = <<>> /\ c.todo = <<>> /\ c.wait = NoWait THEN NoCall ELSE c]

Begin(l, c) ==
    /\ l \in AclLanes
    /\ aclCall[l] = NoCall
    /\ aclCalls + aclFaults < MaxAclEvents
    /\ aclCalls' = aclCalls + 1
    /\ Put(l, c)
    /\ UNCHANGED <<tables, aclHw, aclBound, aclFaults, meetings>>

At(ports, stage) == LET order == SetToSeq(ports) IN [i \in DOMAIN order |-> <<order[i], stage>>]

\* physical_targets(): the port itself or the Port-Channel's members, which must
\* exist.
HasTargets(target) == target # AclLag \/ aclMembers # NoLag
PhysicalTargets(target, stage) ==
    At(IF target = AclLag THEN LagMembers ELSE {target}, stage)

Active(l) == aclCall[l] # NoCall
Working(l) == Active(l) /\ aclCall[l].work.plan # <<>>
Waits(l, section) == Active(l) /\ aclCall[l].wait.at = section
Ready(l) == Active(l) /\ ~Working(l) /\ aclCall[l].wait = NoWait

\* A slot whose policy changed and that no call brings up to date.
Stale(slots) ==
    excuse' = [s \in Slots |-> IF s \in slots /\ excuse[s] = "none" THEN "stale" ELSE excuse[s]]

\* Where the list is in force, as binding targets: a Port-Channel is expanded
\* when its turn comes.
EnsureAcl(name, program) ==
    /\ Begin("mgmtd", Call("ensure", SetToSeq({t \in AclTargets \X AclStages : bindings[t] = name})))
    /\ acls' = [acls EXCEPT ![name] = program]
    /\ UNCHANGED <<bindings, internal, aclMembers, excuse>>

RemoveAcl(name) ==
    /\ Begin("mgmtd", Call("remove", <<>>))
    /\ \A t \in DOMAIN bindings : bindings[t] # name
    /\ acls[name] # NoProgram
    /\ acls' = [acls EXCEPT ![name] = NoProgram]
    /\ UNCHANGED <<bindings, internal, aclMembers, excuse>>

\* bind_port_acl_impl() finds the ports under the lock of the Port-Channels, and
\* writes the binding under that of the lists.
BindPortAcl(target, stage, name) ==
    /\ acls[name] # NoProgram
    /\ HasTargets(target)
    /\ Begin("mgmtd", CallAt("bind", PhysicalTargets(target, stage),
                             [at |-> "insert", target |-> target, stage |-> stage, acl |-> name]))
    /\ UNCHANGED <<acls, bindings, internal, aclMembers, excuse>>

\* A port that joined the Port-Channel between the two is not gone over.
InsertBinding(l) ==
    LET c == aclCall[l]
        key == <<c.wait.target, c.wait.stage>>
    IN  /\ Waits(l, "insert")
        /\ bindings' = [bindings EXCEPT ![key] = c.wait.acl]
        /\ Put(l, [c EXCEPT !.wait = NoWait,
                            !.undo = [target |-> c.wait.target, stage |-> c.wait.stage,
                                      acl |-> bindings[key], slots |-> c.todo]])
        /\ Stale(ToSet(PhysicalTargets(c.wait.target, c.wait.stage)) \ ToSet(c.todo))
        /\ UNCHANGED <<acls, internal, aclMembers, tables, aclHw, aclBound, aclCalls, aclFaults,
                       meetings>>

\* The binding goes first; the ports are found afterwards (ExpandTarget).
UnbindPortAcl(target, stage) ==
    /\ bindings[<<target, stage>>] # NoAcl
    /\ Begin("mgmtd", Call("unbind", << <<target, stage>> >>))
    /\ bindings' = [bindings EXCEPT ![<<target, stage>>] = NoAcl]
    /\ UNCHANGED <<acls, internal, aclMembers, excuse>>

CreateLag ==
    /\ aclMembers = NoLag
    /\ Begin("mgmtd", Call("create lag", <<>>))
    /\ aclMembers' = {}
    /\ UNCHANGED <<acls, bindings, internal, excuse>>

\* remove_lag() reads the Port-Channel, makes its SAI calls, and forgets it at
\* the end; a SAI call that fails leaves the tables as they were.
RemoveLag ==
    /\ aclMembers # NoLag
    /\ Begin("mgmtd", CallAt("remove lag", <<>>, [at |-> "forget lag"]))
    /\ UNCHANGED <<acls, bindings, internal, aclMembers, excuse>>

\* It touches no access list.
ForgetLag(l) ==
    /\ Waits(l, "forget lag")
    /\ aclMembers' = NoLag
    /\ Put(l, [aclCall[l] EXCEPT !.wait = NoWait])
    /\ Stale({s \in Slots : s[1] \in LagMembers /\ bindings[<<AclLag, s[2]>>] # NoAcl
                            /\ bindings[s] = NoAcl})
    /\ UNCHANGED <<acls, bindings, internal, tables, aclHw, aclBound, aclCalls, aclFaults, meetings>>

\* set_lag_members() reads the members, makes its SAI calls, and writes the new
\* members at the end; a SAI call that fails leaves the tables as they were.
SetLagMembers(members) ==
    /\ aclMembers # NoLag
    /\ Begin("gates", CallAt("members", <<>>, [at |-> "write members", members |-> members,
                                              leaving |-> LagMembers \ members]))
    /\ UNCHANGED <<acls, bindings, internal, aclMembers, excuse>>

\* The stages where a port of the Port-Channel still has its list: there is a
\* binding, or an unbind that has not found its ports yet.
Carried ==
    {g \in AclStages : \/ bindings[<<AclLag, g>>] # NoAcl
                       \/ \E l \in AclLanes : /\ Active(l) /\ aclCall[l].name = "unbind"
                                              /\ <<AclLag, g>> \in ToSet(aclCall[l].todo)}

\* A Port-Channel that is gone by now stays gone.  (carried is history.)
WriteMembers(l) ==
    LET w == aclCall[l].wait
    IN  /\ Waits(l, "write members")
        /\ aclMembers' = IF aclMembers = NoLag THEN NoLag ELSE w.members
        /\ Put(l, [aclCall[l] EXCEPT !.wait = [at |-> "refresh", members |-> w.members,
                                              leaving |-> w.leaving, carried |-> Carried]])
        /\ UNCHANGED <<acls, bindings, internal, tables, aclHw, aclBound, aclCalls, aclFaults,
                       meetings, excuse>>

\* Mutant: only the current members are refreshed.
RefreshOrderCurrent(stale, current) == SetToSeq(current)

RefreshOrder(stale, current) == SetToSeq(stale) \o SetToSeq(current)

\* refresh_lag_acls() goes over the stages the Port-Channel has a binding for,
\* the members that left before the current ones.  A port that left while its
\* list was being unbound is gone over by neither call.
RefreshLagAcls(l) ==
    LET w == aclCall[l].wait
        bound == {g \in AclStages : bindings[<<AclLag, g>>] # NoAcl}
        stages == SetToSeq(bound)
        order == RefreshOrder(w.leaving, w.members)
    IN  /\ Waits(l, "refresh")
        /\ Put(l, [aclCall[l] EXCEPT !.wait = NoWait, !.todo =
                FlattenSeq([g \in DOMAIN stages |->
                                [i \in DOMAIN order |-> <<order[i], stages[g]>>]])])
        /\ Stale(w.leaving \X (w.carried \ bound))
        /\ UNCHANGED <<acls, bindings, internal, aclMembers, tables, aclHw, aclBound, aclCalls,
                       aclFaults, meetings>>

SetPortAuthorized(port, authorized) ==
    /\ Begin("dot1x", Call("authorize", << <<port, "ingress">> >>))
    /\ internal' = [internal EXCEPT ![port].dot1x = ~authorized]
    /\ UNCHANGED <<acls, bindings, aclMembers, excuse>>

\* Declarative: every port that has or gets a redirect is gone over.
SetSnoopRedirects(program) ==
    /\ Begin("snoop", Call("redirects",
            At({p \in AclPorts : internal[p].snoop # <<>> \/ program[p] # <<>>}, "ingress")))
    /\ internal' = [p \in AclPorts |-> [internal[p] EXCEPT !.snoop = program[p]]]
    /\ UNCHANGED <<acls, bindings, aclMembers, excuse>>
-----------------------------------------------------------------------------
(* apply_port_stage(), one step at a time *)

\* What becomes of a call when a slot fails: a bind puts the binding back and
\* goes over its slots again, ignoring failures; any other call ends there.  The
\* slots are those of the bind: a port that joined the Port-Channel since is not
\* gone over.
Fail(l, damage) ==
    LET c == aclCall[l]
        undone == c.undo # NoUndo
        slot == IF Working(l) THEN c.work.slot ELSE Head(c.todo)
        todo == IF Working(l) THEN c.todo ELSE Tail(c.todo)
        unreached == {s \in Slots : \/ s \in ToSet(todo)
                                    \/ s[1] \in LagMembers /\ <<AclLag, s[2]>> \in ToSet(todo)}
        joined == {s \in Slots : /\ undone /\ c.undo.target = AclLag /\ s[2] = c.undo.stage
                                 /\ s[1] \in LagMembers /\ s \notin ToSet(c.undo.slots)}
        left == {slot} \cup joined
                \cup (IF c.restoring \/ undone THEN {} ELSE unreached)
    IN  /\ bindings' = IF undone THEN [bindings EXCEPT ![<<c.undo.target, c.undo.stage>>] = c.undo.acl]
                       ELSE bindings
        /\ Put(l, IF undone THEN [Call(c.name, c.undo.slots) EXCEPT !.restoring = TRUE]
                  ELSE [c EXCEPT !.todo = IF c.restoring THEN todo ELSE <<>>, !.work = NoWork,
                                 !.wait = NoWait])
        /\ excuse' = [s \in Slots |->
                        IF s \notin left THEN excuse[s]
                        ELSE IF (damage /\ s = slot) \/ excuse[s] = "damaged" THEN "damaged" ELSE "stale"]
        /\ UNCHANGED <<acls, internal, aclMembers, tables, aclHw, aclBound, aclCalls, meetings>>

\* ensure_acl_impl() and unbind_port_acl_impl() find the ports of a target.
ExpandTarget(l) ==
    LET c == aclCall[l]
        target == Head(c.todo)
    IN  /\ Ready(l)
        /\ target[1] = AclLag /\ HasTargets(AclLag)
        /\ Put(l, [c EXCEPT !.todo = PhysicalTargets(AclLag, target[2]) \o Tail(@)])
        /\ UNCHANGED <<acls, bindings, internal, aclMembers, tables, aclHw, aclBound,
                       aclCalls, aclFaults, meetings, excuse>>

Inside(l, slot) ==
    \/ Working(l) /\ aclCall[l].work.slot = slot
    \/ Waits(l, "snapshot") /\ Head(aclCall[l].todo) = slot

\* The list of the next slot is resolved.  Two lanes that are inside the same slot
\* at once are recorded; what made the slot stale is taken in.
ResolveSlot(l) ==
    LET c == aclCall[l]
        slot == Head(c.todo)
        meets == \E m \in AclLanes \ {l} : Inside(m, slot)
    IN  /\ Ready(l)
        /\ slot[1] # AclLag
        /\ meets => meetings < MaxMeetings
        /\ meetings' = IF meets THEN meetings + 1 ELSE meetings
        /\ Put(l, [c EXCEPT !.wait = [at |-> "snapshot", acl |-> ResolvedAcl(slot)]])
        /\ excuse' = [excuse EXCEPT ![slot] = IF meets THEN "damaged"
                                              ELSE IF @ = "stale" THEN "none" ELSE @]
        /\ UNCHANGED <<acls, bindings, internal, aclMembers, tables, aclHw, aclBound,
                       aclCalls, aclFaults>>

\* The list, the entries of the engines and the table as it is are read.
StartSlot(l) ==
    LET c == aclCall[l]
        slot == Head(c.todo)
    IN  /\ Waits(l, "snapshot")
        /\ ~Conflict(slot, c.wait.acl)
        /\ Put(l, [c EXCEPT !.todo = Tail(@), !.wait = NoWait, !.work = Work(slot, c.wait.acl)])
        /\ UNCHANGED <<acls, bindings, internal, aclMembers, tables, aclHw, aclBound,
                       aclCalls, aclFaults, meetings, excuse>>

\* A Port-Channel that is gone, or a list that cannot share the port.
RefuseSlot(l) ==
    LET c == aclCall[l]
    IN  /\ \/ Ready(l) /\ Head(c.todo)[1] = AclLag /\ ~HasTargets(AclLag)
           \/ Waits(l, "snapshot") /\ Conflict(Head(c.todo), c.wait.acl)
        /\ Fail(l, FALSE)
        /\ UNCHANGED aclFaults

\* The object ids somebody remembers.
Remembered ==
    UNION {{tables[s].table} \cup
           UNION {{tables[s].entries[k].entry, tables[s].entries[k].counter,
                   tables[s].entries[k].policer} : k \in DOMAIN tables[s].entries} : s \in Slots}
    \cup UNION {LET w == aclCall[l].work
                IN  {w.table} \cup {w.plan[i].oid : i \in DOMAIN w.plan}
                    \cup UNION {{w.objs[k].entry, w.objs[k].counter, w.objs[k].policer} :
                                k \in DOMAIN w.objs} : l \in {m \in AclLanes : Active(m)}}

\* SAI hands out an id that was never used.  An id here says what the object is
\* for, and counts the objects of that purpose that exist or are remembered, so
\* that the order in which two handlers create theirs leaves no trace.
NewOid(kind, slot, key) ==
    LET used == {o[4] : o \in {x \in (DOMAIN aclHw \cup Remembered) \ {NoOid} :
                                x[1] = kind /\ x[2] = slot /\ x[3] = key}}
    IN  <<kind, slot, key, Min((1..(MaxAclEvents + 2)) \ used)>>

NextIs(l, what) == Working(l) /\ Head(aclCall[l].work.plan).do = what
This(l) == Head(aclCall[l].work.plan)
Advance(l, work) == Put(l, [aclCall[l] EXCEPT !.work = [work EXCEPT !.plan = Tail(@)]])
Objects(kind) == {o \in DOMAIN aclHw : aclHw[o].kind = kind}
Install(oid, object) == [o \in DOMAIN aclHw \cup {oid} |-> IF o = oid THEN object ELSE aclHw[o]]

SaiUnchanged ==
    UNCHANGED <<acls, bindings, internal, aclMembers, tables, aclCalls, aclFaults, meetings, excuse>>

\* What the ASIC accepts (the mock backend's checks).
InUse(oid) ==
    \/ \E o \in DOMAIN aclHw : /\ aclHw[o].kind \in {"entry", "counter"}
                              /\ aclHw[o].table = oid
    \/ \E o \in Objects("entry") : oid \in {aclHw[o].counter, aclHw[o].policer}
    \/ \E s \in Slots : aclBound[s] = oid

ActionRefsOk(table, objs) ==
    /\ objs.counter # NoOid => /\ objs.counter \in Objects("counter")
                               /\ aclHw[objs.counter].table = table
    /\ objs.policer # NoOid => objs.policer \in Objects("policer")

Accepts(w) ==
    LET step == Head(w.plan)
    IN  CASE step.do = "remove" -> step.oid \in DOMAIN aclHw /\ ~InUse(step.oid)
          [] step.do \in {"create counter", "bind"} -> w.table \in Objects("table")
          [] step.do = "create entry" ->
                w.table \in Objects("table") /\ ActionRefsOk(w.table, w.objs[step.key])
          [] step.do = "set action" ->
                /\ w.objs[step.key].entry \in Objects("entry")
                /\ ActionRefsOk(aclHw[w.objs[step.key].entry].table, w.objs[step.key])
          [] step.do = "set policer" -> w.objs[step.key].policer \in Objects("policer")
          [] OTHER -> TRUE

Sai(l, what) == NextIs(l, what) /\ Accepts(aclCall[l].work) /\ SaiUnchanged

SaiUnbind(l) ==
    /\ Sai(l, "unbind")
    /\ aclBound' = [aclBound EXCEPT ![aclCall[l].work.slot] = NoOid]
    /\ Advance(l, aclCall[l].work)
    /\ UNCHANGED aclHw

SaiBind(l) ==
    /\ Sai(l, "bind")
    /\ aclBound' = [aclBound EXCEPT ![aclCall[l].work.slot] = aclCall[l].work.table]
    /\ Advance(l, aclCall[l].work)
    /\ UNCHANGED aclHw

SaiRemove(l) ==
    /\ Sai(l, "remove")
    /\ aclHw' = [o \in DOMAIN aclHw \ {This(l).oid} |-> aclHw[o]]
    /\ Advance(l, aclCall[l].work)
    /\ UNCHANGED aclBound

SaiCreateTable(l) ==
    LET oid == NewOid("table", aclCall[l].work.slot, 0)
    IN  /\ Sai(l, "create table")
        /\ aclHw' = Install(oid, [kind |-> "table", slot |-> aclCall[l].work.slot])
        /\ Advance(l, [aclCall[l].work EXCEPT !.table = oid])
        /\ UNCHANGED aclBound

SaiCreateCounter(l) ==
    LET oid == NewOid("counter", aclCall[l].work.slot, This(l).key)
    IN  /\ Sai(l, "create counter")
        /\ aclHw' = Install(oid, [kind |-> "counter", table |-> aclCall[l].work.table])
        /\ Advance(l, [aclCall[l].work EXCEPT !.objs[This(l).key].counter = oid])
        /\ UNCHANGED aclBound

SaiCreatePolicer(l) ==
    LET oid == NewOid("policer", aclCall[l].work.slot, This(l).key)
    IN  /\ Sai(l, "create policer")
        /\ aclHw' = Install(oid, [kind |-> "policer", rate |-> This(l).want.police])
        /\ Advance(l, [aclCall[l].work EXCEPT !.objs[This(l).key].policer = oid])
        /\ UNCHANGED aclBound

SaiSetPolicer(l) ==
    /\ Sai(l, "set policer")
    /\ aclHw' = [aclHw EXCEPT ![aclCall[l].work.objs[This(l).key].policer].rate =
                                This(l).want.police]
    /\ Advance(l, aclCall[l].work)
    /\ UNCHANGED aclBound

EntryObject(w, key, want) ==
    [kind |-> "entry", table |-> w.table, priority |-> want.priority, match |-> want.match,
     action |-> want.action, counter |-> w.objs[key].counter, policer |-> w.objs[key].policer]

SaiCreateEntry(l) ==
    LET oid == NewOid("entry", aclCall[l].work.slot, This(l).key)
    IN  /\ Sai(l, "create entry")
        /\ aclHw' = Install(oid, EntryObject(aclCall[l].work, This(l).key, This(l).want))
        /\ Advance(l, [aclCall[l].work EXCEPT !.objs[This(l).key].entry = oid])
        /\ UNCHANGED aclBound

SaiSetAction(l) ==
    LET objs == aclCall[l].work.objs[This(l).key]
    IN  /\ Sai(l, "set action")
        /\ aclHw' = [aclHw EXCEPT ![objs.entry].action = This(l).want.action,
                                  ![objs.entry].counter = objs.counter,
                                  ![objs.entry].policer = objs.policer]
        /\ Advance(l, aclCall[l].work)
        /\ UNCHANGED aclBound

\* world.tables is written when the SAI calls are done.
WriteTable(l, what, table) ==
    LET slot == aclCall[l].work.slot
    IN  /\ NextIs(l, what)
        /\ tables' = [tables EXCEPT ![slot] = table]
        /\ Advance(l, aclCall[l].work)
        /\ UNCHANGED <<acls, bindings, internal, aclMembers, aclHw, aclBound, aclCalls, aclFaults,
                       meetings, excuse>>

ForgetTable(l) == WriteTable(l, "forget", NoTable)

RecordTable(l) ==
    LET w == aclCall[l].work
    IN  WriteTable(l, "record", [table |-> w.table, family |-> w.family, entries |-> w.objs])

SaiCalls(l) == Working(l) /\ This(l).do \notin {"forget", "record"}

\* The ASIC refuses, or the call fails for a reason of its own.
SaiRefused(l) ==
    /\ SaiCalls(l)
    /\ ~Accepts(aclCall[l].work)
    /\ Fail(l, TRUE)
    /\ UNCHANGED aclFaults

SaiFault(l) ==
    /\ SaiCalls(l)
    /\ aclFaults < MaxAclFaults /\ aclCalls + aclFaults < MaxAclEvents
    /\ aclFaults' = aclFaults + 1
    /\ Fail(l, TRUE)

\* The ids of a slot that was materialised once, from nothing.
FirstIds(slot, k, want) ==
    [entry |-> <<"entry", slot, k, 1>>,
     counter |-> IF want.counted THEN <<"counter", slot, k, 1>> ELSE NoOid,
     policer |-> IF want.police # 0 THEN <<"policer", slot, k, 1>> ELSE NoOid,
     priority |-> want.priority, match |-> want.match,
     action |-> want.action, police |-> want.police]

FirstTable(slot) ==
    LET user == ResolvedAcl(slot)
        desired == DesiredEntries(slot, user)
    IN  IF NothingWanted(slot, user) THEN NoTable
        ELSE [table |-> <<"table", slot, 0, 1>>, family |-> DesiredFamily(user),
              entries |-> [k \in DOMAIN desired |-> FirstIds(slot, k, desired[k])]]

FirstObjects(slot) ==
    LET t == FirstTable(slot)
        keys == DOMAIN t.entries
        entries == [o \in {t.entries[k].entry : k \in keys} |->
                        [table |-> t.table, objs |-> t.entries]]
    IN  [o \in {t.table} \ {NoOid} |-> [kind |-> "table", slot |-> slot]]
        @@ [o \in {t.entries[k].counter : k \in keys} \ {NoOid} |->
                [kind |-> "counter", table |-> t.table]]
        @@ [o \in {t.entries[k].policer : k \in keys} \ {NoOid} |->
                [kind |-> "policer", rate |-> t.entries[o[3]].police]]
        @@ [o \in DOMAIN entries |-> EntryObject(entries[o], o[3], t.entries[o[3]])]

\* Some lists are defined, some of them bound, the Port-Channel has members, and
\* the bound ones have been materialised.
AclInit ==
    /\ \E start \in AclStarts : /\ acls = start.acls /\ aclMembers = start.members
                                /\ bindings = start.bindings
                                /\ internal = [p \in AclPorts |->
                                        [dot1x |-> FALSE, snoop |-> start.redirects[p]]]
    /\ tables = [s \in Slots |-> FirstTable(s)]
    /\ aclHw = FoldSet(LAMBDA s, objects : FirstObjects(s) @@ objects, <<>>, Slots)
    /\ aclBound = [s \in Slots |-> FirstTable(s).table]
    /\ aclCall = [l \in AclLanes |-> NoCall]
    /\ aclCalls = 0 /\ aclFaults = 0 /\ meetings = 0
    /\ excuse = [s \in Slots |-> "none"]

ApplyPortStage(l) ==
    \/ InsertBinding(l) \/ ForgetLag(l) \/ WriteMembers(l) \/ RefreshLagAcls(l)
    \/ ExpandTarget(l) \/ ResolveSlot(l) \/ StartSlot(l) \/ RefuseSlot(l)
    \/ SaiUnbind(l) \/ SaiBind(l) \/ SaiRemove(l) \/ SaiCreateTable(l)
    \/ SaiCreateCounter(l) \/ SaiCreatePolicer(l) \/ SaiSetPolicer(l)
    \/ SaiCreateEntry(l) \/ SaiSetAction(l) \/ ForgetTable(l) \/ RecordTable(l)
    \/ SaiRefused(l)

AclRpc ==
    \/ \E n \in AclNames : \/ \E program \in AclPrograms : EnsureAcl(n, program)
                           \/ RemoveAcl(n)
                           \/ \E t \in AclTargets, g \in AclStages : BindPortAcl(t, g, n)
    \/ \E t \in AclTargets, g \in AclStages : UnbindPortAcl(t, g)
    \/ CreateLag \/ RemoveLag
    \/ \E members \in SUBSET AclPorts : SetLagMembers(members)
    \/ \E p \in AclPorts, a \in BOOLEAN : SetPortAuthorized(p, a)
    \/ \E program \in RedirectPrograms : SetSnoopRedirects(program)

\* Every handler has returned and nobody calls.
AclDone ==
    /\ \A l \in AclLanes : ~Active(l)
    /\ UNCHANGED aclVars

AclNext ==
    \/ AclRpc
    \/ \E l \in AclLanes : ApplyPortStage(l) \/ SaiFault(l)
    \/ AclDone

AclSpec == AclInit /\ [][AclNext]_aclVars
-----------------------------------------------------------------------------
(* Properties *)

AtRest == \A l \in AclLanes : ~Active(l)

EntriesOf(table) == {o \in Objects("entry") : aclHw[o].table = table}

\* The first match of a table, by priority; a frame nothing matches is forwarded.
Verdict(slot, frame) ==
    LET hits == {o \in EntriesOf(aclBound[slot]) : frame \in aclHw[o].match}
    IN  IF hits = {} THEN "forward"
        ELSE aclHw[CHOOSE o \in hits : \A h \in hits : aclHw[h].priority <= aclHw[o].priority].action

FirstAction(seq, frame) ==
    LET hits == {i \in DOMAIN seq : frame \in seq[i].match} IN seq[Min(hits)].action

\* What the operator and the engines asked for, in words: an unauthorised port
\* takes EAPOL only; else the redirects; else the first rule of the access list
\* by number, which ends in a deny; else everything passes.
Policy(slot, frame) ==
    LET mine == internal[slot[1]]
        own == bindings[slot]
        shared == IF slot[1] \in LagMembers THEN bindings[<<AclLag, slot[2]>>] ELSE NoAcl
        list == IF own # NoAcl THEN own ELSE shared
    IN  IF slot[2] = "ingress" /\ mine.dot1x THEN IF frame = Eapol THEN "trap" ELSE "drop"
        ELSE IF slot[2] = "ingress" /\ \E i \in DOMAIN mine.snoop : frame \in mine.snoop[i].match
        THEN FirstAction(mine.snoop, frame)
        ELSE IF list = NoAcl THEN "forward"
        ELSE IF \E n \in DOMAIN acls[list].rules : frame \in acls[list].rules[n].match
        THEN FirstAction(acls[list].rules, frame)
        ELSE "drop"

\* A recorded table names real objects: every entry has one, and a rule that is
\* policed has its policer.
AclTypeOK ==
    /\ aclCalls \in 0..MaxAclEvents /\ aclFaults \in 0..MaxAclFaults
    /\ \A t \in DOMAIN bindings : bindings[t] \in AclNames \cup {NoAcl}
    /\ \A s \in Slots : /\ aclBound[s] \in Objects("table") \cup {NoOid}
                        /\ excuse[s] \in {"none", "stale", "damaged"}
                        /\ \A k \in DOMAIN tables[s].entries :
                            LET e == tables[s].entries[k]
                            IN  e.entry # NoOid /\ (e.police # 0 <=> e.policer # NoOid)

\* apply_port_stage() against the policy: once every handler is done, a port
\* treats every frame as the bindings, the 802.1X state and the redirects say,
\* Port-Channel members included.  A bind that one member refused or failed has
\* put the old state back on the others.  Left out are the slots the code does
\* leave behind: those two handlers were inside at once, those a SAI call failed
\* in, those a failing call never reached, the former members of a Port-Channel
\* that was removed, and the ports that joined or left one while its list was
\* bound or unbound, between the two locks of that call.
PolicyInForce ==
    AtRest => \A s \in Slots : excuse[s] = "none" =>
                \A f \in AclFrames : Verdict(s, f) = Policy(s, f)

\* The hardware holds what world.tables records and nothing else, unless two
\* handlers met in a slot or a SAI call failed in it: no table, entry, counter
\* or policer is left behind by an edit, a rebuild, an unbind or a rollback.
AclNothingLeaks ==
    (AtRest /\ \A s \in Slots : excuse[s] # "damaged") =>
        /\ \A s \in Slots : aclBound[s] = tables[s].table
        /\ DOMAIN aclHw = Remembered \ {NoOid}

\* An 802.1X deny that is in force stays in force while the port is
\* unauthorised, whatever is edited on the port meanwhile: rules, bindings,
\* redirects, membership.  Only a rebuild for another family takes it out for
\* the time it lasts.
Enforced(slot) ==
    \E o \in EntriesOf(aclBound[slot]) :
        /\ aclHw[o].priority > UserPriority(0)
        /\ aclHw[o].match = AclFrames /\ aclHw[o].action = "drop"
EnforcementIsSteady ==
    [][\A p \in AclPorts :
        LET s == <<p, "ingress">>
        IN  (internal[p].dot1x /\ internal'[p].dot1x /\ Enforced(s) /\ ~Enforced(s)')
            => \/ excuse'[s] = "damaged"
               \/ \E l \in AclLanes : Working(l) /\ aclCall[l].work.slot = s
                                      /\ aclCall[l].work.rebuild]_aclVars

\* Editing a list keeps the counter of every rule that is still there, and the
\* entry too where the rule did not change.
RuleKeepsItsCounter ==
    [][\A s \in Slots :
        (tables[s].table # NoOid /\ tables'[s].table # NoOid /\ excuse[s] # "damaged") =>
        \A k \in DOMAIN tables[s].entries \cap DOMAIN tables'[s].entries :
            LET old == tables[s].entries[k]
                new == tables'[s].entries[k]
            IN  /\ k >= UserKey(0) => new.counter = old.counter
                /\ Unchanged(old, new) => new.entry = old.entry]_aclVars

\* "Every (physical port, stage) with anything to filter gets exactly one
\* hardware table."
OneTablePerSlot ==
    AtRest => \A s \in Slots : Cardinality({o \in Objects("table") : aclHw[o].slot = s}) <= 1

\* "stale members drop the LAG's entries": once no list is bound anywhere, a port
\* with no redirect and no 802.1X gate forwards everything.  It does not hold of
\* the members of a Port-Channel that is removed: remove_lag refreshes none.
FormerMemberIsFree ==
    (AtRest /\ \A t \in DOMAIN bindings : bindings[t] = NoAcl)
        => \A s \in Slots : InternalEntries(s) = <<>>
                            => \A f \in AclFrames : Verdict(s, f) = "forward"
=============================================================================
