------------------------------ MODULE SyncdFib ------------------------------
(***************************************************************************)
(* syncd's forwarding table: routes onto deduplicated, reference-counted   *)
(* next hops and ECMP groups, and the neighbours they resolve through.     *)
(* orch calls ensure and remove for routes and neighbours while mgmtd sets *)
(* and clears interface addresses; a handler awaits the ASIC at every SAI  *)
(* call, so the two interleave there.                                      *)
(*                                                                         *)
(* One gateway address per interface: a next hop is named by its           *)
(* interface in a request and by its router interface (RIF) in the table.  *)
(* Every address an interface is given makes a new RIF.                    *)
(***************************************************************************)
EXTENDS Integers, FiniteSets

CONSTANTS
  Dests, Interfaces,
  None,
  MaxRifs,       \* bound on RIFs ever made for one interface; the last one stays
  MaxOids,       \* object ids: a creation waits for one that is not in use
  MaxFaults      \* bound on SAI calls that fail though they could succeed

VARIABLES
  asic,     \* what the ASIC holds
  tbl,      \* syncd's L3 state of the interfaces and its FibTable
  job,      \* the call of each client
  made,     \* RIFs made so far, per interface
  faults    \* SAI faults so far

fibVars == <<asic, tbl, job, made, faults>>

Clients == {"orch", "mgmtd"}
Oids == 1..MaxOids
Rifs == Interfaces \X (1..MaxRifs)
Cpu == [kind |-> "cpu", oid |-> 0]
Drop == [kind |-> "drop", oid |-> 0]
Targets == {Cpu, Drop} \cup [kind : {"hop", "group"}, oid : Oids]

\* What a route request asks for.
Route == [cpu : BOOLEAN, drop : BOOLEAN, hops : SUBSET Interfaces]

\* A table record: the next hops it holds, and the member set of its group.
Held == [hops : SUBSET Rifs, group : SUBSET Oids]
Nothing == [hops |-> {}, group |-> {}]

ASSUME FibAssumption ==
  /\ IsFiniteSet(Dests) /\ IsFiniteSet(Interfaces)
  /\ MaxFaults \in Nat /\ {MaxRifs, MaxOids} \subseteq Nat \ {0}

\* Absence is none of the things it stands for the absence of.
ASSUME NamesAreDistinct ==
  /\ None \notin Dests /\ None \notin Interfaces
  /\ None \notin Rifs /\ None \notin Held
  /\ None \notin Targets /\ None \notin Route
  /\ None \notin [oid : Oids, refs : Nat]

Idle == [pc |-> "idle", prefix |-> None, route |-> None, iface |-> None,
         rif |-> None, nbr |-> None, todo |-> {}, held |-> Nothing, old |-> Nothing,
         oid |-> 0, key |-> {}, parts |-> {}, then |-> "done", ok |-> TRUE]

FibInit ==
  /\ asic = [rifs |-> {<<i, 1>> : i \in Interfaces}, hops |-> {},
             groups |-> {}, fwd |-> [p \in Dests |-> None], nbrs |-> {}]
  /\ tbl = [l3 |-> [i \in Interfaces |-> <<i, 1>>],
            hops |-> [r \in Rifs |-> None], groups |-> {},
            routes |-> [p \in Dests |-> None],
            nbrs |-> [i \in Interfaces |-> None]]
  /\ job = [c \in Clients |-> Idle]
  /\ made = [i \in Interfaces |-> 1]
  /\ faults = 0

-----------------------------------------------------------------------------
(* Plumbing                                                                *)

At(c, pc) == job[c].pc = pc
Becomes(c, j) == job' = [job EXCEPT ![c] = j]
Goto(c, pc) == Becomes(c, [job[c] EXCEPT !.pc = pc])

\* A SAI call the ASIC would accept may still fail; one it would not accept
\* fails.  In a call's record oid is the object it has created or is to free, key
\* the group it is to build, and parts the members to add or to take out.
Sai(accepts, ok) ==
  /\ ok => accepts
  /\ faults' = IF accepts /\ ~ok THEN faults + 1 ELSE faults
  /\ faults' <= MaxFaults

\* Mutant: the next hops are released before the group they are members of.
ReleasesHopsFirst(rec) ==
  IF rec.hops # {} THEN <<"hop", CHOOSE r \in rec.hops : TRUE>>
  ELSE <<"group", rec.group>>

\* What a record holds is released group first, since members reference the
\* next hops.
Releases(rec) ==
  IF rec.group # {} THEN <<"group", rec.group>>
  ELSE <<"hop", CHOOSE r \in rec.hops : TRUE>>

\* What a call has still to release is what it has in hand: of its own objects
\* first, then of the replaced record.
Owed(j) == IF j.held # Nothing THEN j.held ELSE j.old
Paid(j, rec) == IF j.held # Nothing THEN [j EXCEPT !.held = rec] ELSE [j EXCEPT !.old = rec]

\* A call with nothing left to release continues.
Continue(j) ==
  IF Owed(j) # Nothing THEN [j EXCEPT !.pc = "release"]
  ELSE IF j.then = "done" THEN [Idle EXCEPT !.pc = "done", !.ok = j.ok]
  ELSE [j EXCEPT !.pc = j.then]
ReleaseThen(j, then, ok) == Continue([j EXCEPT !.then = then, !.ok = ok])

\* An object id that nothing refers to any more.
Mentioned ==
  {h.oid : h \in asic.hops} \cup UNION {{g.oid} \cup g.members : g \in asic.groups}
    \cup {tbl.hops[r].oid : r \in {q \in Rifs : tbl.hops[q] # None}}
    \cup UNION {{g.oid} \cup g.key : g \in tbl.groups}
    \cup UNION {tbl.routes[p].group : p \in {q \in Dests : tbl.routes[q] # None}}
    \cup UNION {{job[c].oid} \cup job[c].held.group \cup job[c].old.group : c \in Clients}
    \cup {asic.fwd[p].oid : p \in {q \in Dests : asic.fwd[q] # None}}
Room == Oids \ Mentioned # {}
Fresh == CHOOSE o \in Oids \ Mentioned : TRUE

-----------------------------------------------------------------------------
(* References                                                              *)

\* Mutant: a second route through a next hop takes no reference of its own.
SharedUncounted(e) == e

\* An object that exists is shared.
Shared(e) == [e EXCEPT !.refs = @ + 1]
Unshared(e) == [e EXCEPT !.refs = @ - 1]

\* A next hop more or less in hand, and the group.
WithHop(held, r) == [held EXCEPT !.hops = @ \cup {r}]
WithoutHop(held, r) == [held EXCEPT !.hops = @ \ {r}]
WithGroup(held, key) == [held EXCEPT !.group = key]

\* One reference on the next hop of the request's next interface: the
\* interface must have a RIF, a next hop that exists is shared.
TakeHop ==
  /\ At("orch", "hops") /\ job["orch"].todo # {}
  /\ LET i == CHOOSE x \in job["orch"].todo : TRUE
         r == tbl.l3[i]
         j == [job["orch"] EXCEPT !.todo = @ \ {i}]
     IN IF r = None
        THEN /\ Becomes("orch", ReleaseThen(j, "done", FALSE))
             /\ UNCHANGED tbl
        ELSE IF tbl.hops[r] = None
        THEN /\ Becomes("orch", [j EXCEPT !.pc = "create_hop", !.rif = r])
             /\ UNCHANGED tbl
        ELSE /\ Becomes("orch", [j EXCEPT !.held = WithHop(@, r)])
             /\ tbl' = [tbl EXCEPT !.hops[r] = Shared(tbl.hops[r])]
  /\ UNCHANGED <<asic, made, faults>>

\* The next hop is created on its RIF,
CreateHop ==
  /\ At("orch", "create_hop") /\ Room
  /\ LET j == job["orch"]
     IN \E ok \in BOOLEAN :
          /\ Sai(j.rif \in asic.rifs, ok)
          /\ IF ok
             THEN /\ asic' = [asic EXCEPT !.hops = @ \cup {[oid |-> Fresh, rif |-> j.rif]}]
                  /\ Becomes("orch", [j EXCEPT !.pc = "insert_hop", !.oid = Fresh])
             ELSE Becomes("orch", ReleaseThen(j, "done", FALSE)) /\ UNCHANGED asic
  /\ UNCHANGED <<tbl, made>>

\* and recorded with one reference.
InsertHop ==
  /\ At("orch", "insert_hop")
  /\ LET j == job["orch"]
     IN /\ tbl' = [tbl EXCEPT !.hops[j.rif] = [oid |-> j.oid, refs |-> 1]]
        /\ Becomes("orch", [j EXCEPT !.pc = "hops", !.rif = None, !.oid = 0,
                                     !.held = WithHop(@, j.rif)])
  /\ UNCHANGED <<asic, made, faults>>

\* The members of the group a request with several next hops needs.
GroupKey(held) == {tbl.hops[r].oid : r \in held.hops}

\* With every next hop held, one reference on their group: a group that exists
\* is shared.
TakeGroup ==
  /\ At("orch", "hops") /\ job["orch"].todo = {}
  /\ LET j == job["orch"]
         key == GroupKey(j.held)
     IN IF Cardinality(j.held.hops) < 2
        THEN Goto("orch", "replace") /\ UNCHANGED tbl
        ELSE IF \E g \in tbl.groups : g.key = key
        THEN /\ tbl' = [tbl EXCEPT !.groups =
                          {IF g.key = key THEN Shared(g) ELSE g : g \in @}]
             /\ Becomes("orch", [j EXCEPT !.pc = "replace", !.held = WithGroup(@, key)])
        ELSE /\ Becomes("orch", [j EXCEPT !.pc = "create_group", !.key = key])
             /\ UNCHANGED tbl
  /\ UNCHANGED <<asic, made, faults>>

\* Else one is created, empty;
CreateGroup ==
  /\ At("orch", "create_group") /\ Room
  /\ LET j == job["orch"]
     IN \E ok \in BOOLEAN :
          /\ Sai(TRUE, ok)
          /\ IF ok
             THEN /\ asic' = [asic EXCEPT !.groups = @ \cup {[oid |-> Fresh, members |-> {}]}]
                  /\ Becomes("orch", [j EXCEPT !.pc = "add_member", !.oid = Fresh, !.parts = j.key])
             ELSE /\ Becomes("orch", ReleaseThen([j EXCEPT !.key = {}], "done", FALSE))
                  /\ UNCHANGED asic
  /\ UNCHANGED <<tbl, made>>

\* The ASIC's groups with the members of one of them changed.
With(gs, o, member) ==
  {IF g.oid = o THEN [g EXCEPT !.members = @ \cup {member}] ELSE g : g \in gs}
Without(gs, o, member) ==
  {IF g.oid = o THEN [g EXCEPT !.members = @ \ {member}] ELSE g : g \in gs}

\* its members are added one by one, and those that were are taken out again,
\* with the group, when one cannot be;
AddMember ==
  /\ At("orch", "add_member") /\ job["orch"].parts # {}
  /\ LET j == job["orch"]
         o == CHOOSE x \in j.parts : TRUE
     IN \E ok \in BOOLEAN :
          /\ Sai(\E h \in asic.hops : h.oid = o, ok)
          /\ IF ok
             THEN /\ asic' = [asic EXCEPT !.groups = With(@, j.oid, o)]
                  /\ Becomes("orch", [j EXCEPT !.parts = @ \ {o}])
             ELSE /\ Becomes("orch", [j EXCEPT !.pc = "free_group", !.parts = j.key \ @,
                                               !.key = {}, !.then = "done", !.ok = FALSE])
                  /\ UNCHANGED asic
  /\ UNCHANGED <<tbl, made>>

\* and it is recorded with one reference.
InsertGroup ==
  /\ At("orch", "add_member") /\ job["orch"].parts = {}
  /\ LET j == job["orch"]
     IN /\ tbl' = [tbl EXCEPT !.groups = @ \cup {[key |-> j.key, oid |-> j.oid, refs |-> 1]}]
        /\ Becomes("orch", [j EXCEPT !.pc = "replace", !.oid = 0, !.key = {},
                                     !.held = WithGroup(@, j.key)])
  /\ UNCHANGED <<asic, made, faults>>

\* Whether the object goes with this reference.
LastReference(e) == e.refs <= 1

\* The rest of a call that has an object to free first, with its members.
Freeing(rest, pc, o, members) == [rest EXCEPT !.pc = pc, !.oid = o, !.parts = members]

\* One reference fewer; the last one forgets the object before freeing it.
ReleaseHop(c, r, rest) ==
  LET e == tbl.hops[r]
  IN IF e = None
     THEN Becomes(c, Continue(rest)) /\ UNCHANGED tbl
     ELSE IF ~LastReference(e)
     THEN /\ tbl' = [tbl EXCEPT !.hops[r] = Unshared(e)]
          /\ Becomes(c, Continue(rest))
     ELSE /\ tbl' = [tbl EXCEPT !.hops[r] = None]
          /\ Becomes(c, Freeing(rest, "free_hop", e.oid, {}))
ReleaseGroup(c, key, rest) ==
  LET mine == {g \in tbl.groups : g.key = key}
      g == CHOOSE x \in mine : TRUE
  IN IF mine = {}
     THEN Becomes(c, Continue(rest)) /\ UNCHANGED tbl
     ELSE IF ~LastReference(g)
     THEN /\ tbl' = [tbl EXCEPT !.groups = (@ \ {g}) \cup {Unshared(g)}]
          /\ Becomes(c, Continue(rest))
     ELSE /\ tbl' = [tbl EXCEPT !.groups = @ \ {g}]
          /\ Becomes(c, Freeing(rest, "free_group", g.oid, key))
Release(c) ==
  /\ At(c, "release")
  /\ LET rec == Owed(job[c])
         x == Releases(rec)
     IN \/ x[1] = "hop" /\ ReleaseHop(c, x[2], Paid(job[c], WithoutHop(rec, x[2])))
        \/ x[1] = "group" /\ ReleaseGroup(c, x[2], Paid(job[c], WithGroup(rec, {})))
  /\ UNCHANGED <<asic, made, faults>>

Routed(t) == \E p \in Dests : asic.fwd[p] = t

\* The ASIC refuses to free a next hop that a route or a group still uses;
\* the refusal is logged and the object stays.
FreeHop(c) ==
  /\ At(c, "free_hop")
  /\ LET o == job[c].oid
     IN \E ok \in BOOLEAN :
          /\ Sai(/\ ~Routed([kind |-> "hop", oid |-> o])
                 /\ \A g \in asic.groups : o \notin g.members, ok)
          /\ asic' = IF ok THEN [asic EXCEPT !.hops = {h \in @ : h.oid # o}]
                     ELSE asic
  /\ Becomes(c, Continue([job[c] EXCEPT !.oid = 0]))
  /\ UNCHANGED <<tbl, made>>

\* The members go one by one,
FreeMember(c) ==
  /\ At(c, "free_group") /\ job[c].parts # {}
  /\ LET o == CHOOSE x \in job[c].parts : TRUE
     IN /\ \E ok \in BOOLEAN :
             /\ Sai(\E g \in asic.groups : g.oid = job[c].oid /\ o \in g.members, ok)
             /\ asic' = IF ok THEN [asic EXCEPT !.groups = Without(@, job[c].oid, o)] ELSE asic
        /\ Becomes(c, [job[c] EXCEPT !.parts = @ \ {o}])
  /\ UNCHANGED <<tbl, made>>

\* then the group, unless it has a member or a route left; the refusals are
\* logged and the objects stay.
FreeGroup(c) ==
  /\ At(c, "free_group") /\ job[c].parts = {}
  /\ LET o == job[c].oid
     IN \E ok \in BOOLEAN :
          /\ Sai(/\ [oid |-> o, members |-> {}] \in asic.groups
                 /\ ~Routed([kind |-> "group", oid |-> o]), ok)
          /\ asic' = IF ok THEN [asic EXCEPT !.groups = {g \in @ : g.oid # o}] ELSE asic
  /\ Becomes(c, Continue([job[c] EXCEPT !.oid = 0]))
  /\ UNCHANGED <<tbl, made>>

-----------------------------------------------------------------------------
(* The handlers orch calls                                                 *)

\* A request takes its next hops first.
EnsureRoute(p, w) ==
  /\ At("orch", "idle")
  /\ Becomes("orch", [Idle EXCEPT !.pc = "hops", !.prefix = p, !.route = w,
                                  !.todo = w.hops])
  /\ UNCHANGED <<asic, tbl, made, faults>>

\* The new objects exist; the record of the route so far goes, and with it
\* the route.
Replace ==
  /\ At("orch", "replace")
  /\ LET j == job["orch"]
         old == tbl.routes[j.prefix]
     IN /\ tbl' = [tbl EXCEPT !.routes[j.prefix] = None]
        /\ Becomes("orch", [j EXCEPT
             !.old = IF old = None THEN Nothing ELSE old,
             !.pc = IF old = None THEN "route" ELSE "unroute"])
  /\ UNCHANGED <<asic, made, faults>>

\* Removing a route that is there; an error is ignored.
RemoveFwd(p) ==
  \E ok \in BOOLEAN :
    /\ Sai(asic.fwd[p] # None, ok)
    /\ asic' = IF ok THEN [asic EXCEPT !.fwd[p] = None] ELSE asic

Unroute ==
  /\ At("orch", "unroute")
  /\ RemoveFwd(job["orch"].prefix)
  /\ Goto("orch", "route")
  /\ UNCHANGED <<tbl, made>>

\* Mutant: a route with several next hops leads to the first of them.
TargetFirstHop(w, held) ==
  IF w.cpu THEN Cpu
  ELSE IF w.drop THEN Drop
  ELSE [kind |-> "hop", oid |-> tbl.hops[CHOOSE r \in held.hops : TRUE].oid]

\* Where the new route leads.
TargetOf(w, held) ==
  IF w.cpu THEN Cpu
  ELSE IF w.drop THEN Drop
  ELSE IF held.group = {}
  THEN [kind |-> "hop", oid |-> tbl.hops[CHOOSE r \in held.hops : TRUE].oid]
  ELSE [kind |-> "group", oid |-> (CHOOSE g \in tbl.groups : g.key = held.group).oid]

\* Creating a route whose destination exists is refused and changes nothing.  On an error the
\* new objects and the old ones are released, and the call fails.
CreateRoute ==
  /\ At("orch", "route")
  /\ LET j == job["orch"]
         p == j.prefix
         t == TargetOf(j.route, j.held)
     IN \E ok \in BOOLEAN :
          /\ Sai(asic.fwd[p] = None, ok)
          /\ IF ok
             THEN asic' = [asic EXCEPT !.fwd[p] = t] /\ Goto("orch", "record")
             ELSE /\ UNCHANGED asic
                  /\ Becomes("orch", ReleaseThen(j, "done", FALSE))
  /\ UNCHANGED <<tbl, made>>

\* The record is written, and what the old one held is released.
RecordRoute ==
  /\ At("orch", "record")
  /\ LET j == job["orch"]
     IN /\ tbl' = [tbl EXCEPT !.routes[j.prefix] = j.held]
        /\ Becomes("orch", ReleaseThen([j EXCEPT !.held = Nothing], "done", TRUE))
  /\ UNCHANGED <<asic, made, faults>>

\* remove_route: the record goes first; a route without one is done.
RemoveRoute(p) ==
  /\ At("orch", "idle")
  /\ LET rec == tbl.routes[p]
     IN /\ tbl' = [tbl EXCEPT !.routes[p] = None]
        /\ Becomes("orch", [Idle EXCEPT !.prefix = p,
                               !.old = IF rec = None THEN Nothing ELSE rec,
                               !.pc = IF rec = None THEN "done" ELSE "withdraw"])
  /\ UNCHANGED <<asic, made, faults>>

\* The ASIC's route goes; an error is only logged.  Then what the record held
\* is released.
Withdraw(c) ==
  /\ At(c, "withdraw")
  /\ RemoveFwd(job[c].prefix)
  /\ Becomes(c, ReleaseThen(job[c], IF c = "orch" THEN "done" ELSE "teardown", TRUE))
  /\ UNCHANGED <<tbl, made>>

\* ensure_neighbor resolves the interface; an entry on an older RIF goes
\* first.
EnsureNeighbor(i) ==
  /\ At("orch", "idle")
  /\ LET r == tbl.l3[i]
     IN Becomes("orch", [Idle EXCEPT
          !.iface = i, !.rif = r, !.nbr = tbl.nbrs[i], !.ok = r # None,
          !.pc = IF r = None THEN "done"
                 ELSE IF tbl.nbrs[i] \notin {None, r} THEN "stale_nbr"
                 ELSE "create_nbr"])
  /\ UNCHANGED <<asic, tbl, made, faults>>

DropNbr(r) ==
  \E ok \in BOOLEAN :
    /\ Sai(r \in asic.nbrs, ok)
    /\ asic' = IF ok THEN [asic EXCEPT !.nbrs = @ \ {r}] ELSE asic

StaleNeighbor ==
  /\ At("orch", "stale_nbr")
  /\ DropNbr(job["orch"].nbr)
  /\ Goto("orch", "create_nbr")
  /\ UNCHANGED <<tbl, made>>

\* The entry is made and recorded.
CreateNeighbor ==
  /\ At("orch", "create_nbr")
  /\ LET j == job["orch"]
     IN \E ok \in BOOLEAN :
          /\ Sai(j.rif \in asic.rifs, ok)
          /\ IF ok THEN /\ asic' = [asic EXCEPT !.nbrs = @ \cup {j.rif}]
                        /\ tbl' = [tbl EXCEPT !.nbrs[j.iface] = j.rif]
             ELSE UNCHANGED <<asic, tbl>>
          /\ Becomes("orch", [Idle EXCEPT !.pc = "done", !.ok = ok])
  /\ UNCHANGED made

\* remove_neighbor: the record first, then the ASIC; an error is logged.
RemoveNeighbor(i) ==
  /\ At("orch", "idle")
  /\ LET r == tbl.nbrs[i]
     IN /\ tbl' = [tbl EXCEPT !.nbrs[i] = None]
        /\ Becomes("orch", [Idle EXCEPT !.iface = i, !.rif = r,
             !.pc = IF r = None THEN "done" ELSE "drop_nbr"])
  /\ UNCHANGED <<asic, made, faults>>

DropNeighbor(c) ==
  /\ At(c, "drop_nbr")
  /\ DropNbr(job[c].rif)
  /\ Goto(c, IF c = "orch" THEN "done" ELSE "remove_rif")
  /\ UNCHANGED <<tbl, made>>

-----------------------------------------------------------------------------
(* The handlers mgmtd calls                                                *)

\* set_interface_address on an interface without one: a RIF is made, and
\* recorded at the end.
SetAddress(i) ==
  /\ At("mgmtd", "idle") /\ tbl.l3[i] = None /\ made[i] < MaxRifs
  /\ LET r == <<i, made[i] + 1>>
     IN /\ asic' = [asic EXCEPT !.rifs = @ \cup {r}]
        /\ Becomes("mgmtd", [Idle EXCEPT !.iface = i, !.rif = r, !.pc = "bind"])
  /\ made' = [made EXCEPT ![i] = @ + 1]
  /\ UNCHANGED <<tbl, faults>>

RidesRif(p, r) == tbl.routes[p] # None /\ r \in tbl.routes[p].hops

\* clear_interface_address: what rides the RIF now is torn down first.
ClearAddress(i) ==
  /\ At("mgmtd", "idle") /\ tbl.l3[i] # None /\ made[i] < MaxRifs
  /\ LET r == tbl.l3[i]
     IN Becomes("mgmtd", [Idle EXCEPT
          !.iface = i, !.rif = r, !.pc = "teardown",
          !.todo = {p \in Dests : RidesRif(p, r)},
          !.nbr = IF tbl.nbrs[i] = r THEN r ELSE None])
  /\ UNCHANGED <<asic, tbl, made, faults>>

\* Each of the routes that still has a record is withdrawn.
TeardownRoute ==
  /\ At("mgmtd", "teardown") /\ job["mgmtd"].todo # {}
  /\ LET p == CHOOSE x \in job["mgmtd"].todo : TRUE
         j == [job["mgmtd"] EXCEPT !.todo = @ \ {p}]
     IN /\ tbl' = [tbl EXCEPT !.routes[p] = None]
        /\ Becomes("mgmtd", IF tbl.routes[p] = None THEN j
             ELSE [j EXCEPT !.pc = "withdraw", !.prefix = p,
                            !.old = tbl.routes[p]])
  /\ UNCHANGED <<asic, made, faults>>

\* Then the neighbour, on the RIF its record names now.
TeardownNeighbor ==
  /\ At("mgmtd", "teardown") /\ job["mgmtd"].todo = {}
  /\ LET j == job["mgmtd"]
         r == tbl.nbrs[j.iface]
     IN IF j.nbr = None \/ r = None
        THEN Goto("mgmtd", "remove_rif") /\ UNCHANGED tbl
        ELSE /\ tbl' = [tbl EXCEPT !.nbrs[j.iface] = None]
             /\ Becomes("mgmtd", [j EXCEPT !.pc = "drop_nbr"])
  /\ UNCHANGED <<asic, made, faults>>

RemoveRif ==
  /\ At("mgmtd", "remove_rif")
  /\ LET j == job["mgmtd"]
     IN \E ok \in BOOLEAN :
          /\ Sai(j.rif \in asic.rifs, ok)
          /\ asic' = IF ok THEN [asic EXCEPT !.rifs = @ \ {j.rif}] ELSE asic
          /\ Becomes("mgmtd", IF ok THEN [j EXCEPT !.pc = "bind"] ELSE Idle)
  /\ UNCHANGED <<tbl, made>>

\* The interface table is written last.
Bind ==
  /\ At("mgmtd", "bind")
  /\ LET j == job["mgmtd"]
     IN tbl' = [tbl EXCEPT !.l3[j.iface] =
                  IF j.rif \in asic.rifs THEN j.rif ELSE None]
  /\ Becomes("mgmtd", Idle)
  /\ UNCHANGED <<asic, made, faults>>

\* A step of syncd in the call of client c, and of any call.
HandlerStep(c) == Release(c) \/ FreeHop(c) \/ FreeMember(c) \/ FreeGroup(c)
                    \/ Withdraw(c) \/ DropNeighbor(c)
RouteStep == TakeHop \/ CreateHop \/ InsertHop
               \/ TakeGroup \/ CreateGroup \/ AddMember \/ InsertGroup
               \/ Replace \/ Unroute \/ CreateRoute \/ RecordRoute
NeighborStep == StaleNeighbor \/ CreateNeighbor
AddressStep == TeardownRoute \/ TeardownNeighbor \/ RemoveRif \/ Bind
SyncdStep == (\E c \in Clients : HandlerStep(c)) \/ RouteStep \/ NeighborStep
               \/ AddressStep

-----------------------------------------------------------------------------
(* The table under whatever calls its two clients make                     *)

\* A request of orch leads nowhere exactly when it asks for the CPU or a drop.
Sane(w) == w \in Route /\ ((w.cpu \/ w.drop) <=> w.hops = {})

\* orch begins a call, or has its answer and is free for the next one.
OrchCalls ==
  \/ \E i \in Interfaces : EnsureNeighbor(i) \/ RemoveNeighbor(i)
  \/ \E p \in Dests : RemoveRoute(p) \/ \E w \in Route : Sane(w) /\ EnsureRoute(p, w)
OrchEnds ==
  /\ job["orch"].pc \in {"idle", "done"} /\ Becomes("orch", Idle)
  /\ UNCHANGED <<asic, tbl, made, faults>>
MgmtdSets == \E i \in Interfaces : SetAddress(i) \/ ClearAddress(i)

FibNext == SyncdStep \/ OrchCalls \/ OrchEnds \/ MgmtdSets
FibSpec == FibInit /\ [][FibNext]_fibVars

-----------------------------------------------------------------------------
(* Properties of the table                                                 *)

\* A record counts for a next hop among its own, or for its group.
Holds(h, kind, x) == IF kind = "hop" THEN x \in h.hops ELSE h.group = x

\* The references on an object: those of the table's records, and those a call
\* has in hand, some of them only to be released.
InHand(j, kind, x) ==
  (IF Holds(j.held, kind, x) THEN 1 ELSE 0)
    + (IF Holds(j.old, kind, x) THEN 1 ELSE 0)
References(kind, x) ==
  Cardinality({p \in Dests : tbl.routes[p] # None /\ Holds(tbl.routes[p], kind, x)})
    + InHand(job["orch"], kind, x) + InHand(job["mgmtd"], kind, x)

\* Routes and their records are of their types, the count of a next hop and of a
\* group is the number of references held on it by routes and by calls in
\* flight, and an object without references is not in the table: the counts of
\* fib_acquire_hop, fib_acquire_group and their releases are exact whatever the
\* calls of orch and mgmtd interleave with, and on every error path.
ReferencesAreCounted ==
  /\ asic.fwd \in [Dests -> Targets \cup {None}]
  /\ tbl.routes \in [Dests -> Held \cup {None}]
  /\ \A r \in Rifs :
       LET n == References("hop", r)
       IN IF n = 0 THEN tbl.hops[r] = None
          ELSE tbl.hops[r] # None /\ tbl.hops[r].refs = n
  /\ \A g \in tbl.groups : g.refs = References("group", g.key)

\* A recorded route is in the ASIC and leads over exactly the router
\* interfaces its record names, through objects that exist (ensure_route: "new
\* target objects exist before the old program goes").
RecordedRouteIsInstalled ==
  \A p \in Dests : tbl.routes[p] # None =>
    LET rec == tbl.routes[p]
        t == asic.fwd[p]
        Over(o) == {h.rif : h \in {x \in asic.hops : x.oid = o}}
    IN /\ t # None
       /\ CASE t.kind = "hop" -> rec.group = {} /\ Over(t.oid) = rec.hops
            [] t.kind = "group" -> \E g \in asic.groups :
                 g.oid = t.oid /\ UNION {Over(o) : o \in g.members} = rec.hops
            [] OTHER -> rec = Nothing

\* Without SAI faults every next hop and group in the ASIC is in the table or
\* about to be freed: no release is ever refused and forgotten.
NothingLeaks ==
  faults = 0 =>
    LET known == {tbl.hops[r].oid : r \in {q \in Rifs : tbl.hops[q] # None}}
                   \cup {g.oid : g \in tbl.groups}
                   \cup {job[c].oid : c \in Clients}
    IN {h.oid : h \in asic.hops} \cup {g.oid : g \in asic.groups} \subseteq known
=============================================================================
