------------------------------ MODULE FibProofs ------------------------------
(***************************************************************************)
(* Why the reference counts of syncd's forwarding table are exact: every   *)
(* step of a call moves a reference between the table's records and the    *)
(* hands of the call, or changes the count of the object together with it. *)
(***************************************************************************)
EXTENDS SyncdFib, TLAPS

-----------------------------------------------------------------------------
(* The inductive invariant                                                 *)

OrchPcs == {"idle", "done", "hops", "create_hop", "insert_hop", "create_group",
            "add_member", "replace", "unroute", "route", "record", "withdraw",
            "stale_nbr", "create_nbr", "drop_nbr", "release", "free_hop", "free_group"}
MgmtdPcs == {"idle", "bind", "teardown", "withdraw", "drop_nbr", "remove_rif",
             "release", "free_hop", "free_group"}

\* How sets of destinations count, which being finite gives.
DestsCount ==
  /\ Cardinality({}) = 0
  /\ \A S \in SUBSET Dests :
       /\ Cardinality(S) \in Nat /\ (Cardinality(S) = 0 => S = {})
       /\ \A p \in S : Cardinality(S \ {p}) = Cardinality(S) - 1

\* Groups are of two members or more, so never of none.
Keys == (SUBSET Oids) \ {{}}
Entry == [oid : Oids, refs : Nat]
Group == [key : Keys, oid : Oids, refs : Nat]

\* The types of a call's fields.
OrNone(S) == S \cup {None}
JobPcs == OrchPcs \cup MgmtdPcs
Todos == (SUBSET Interfaces) \cup (SUBSET Dests)
OidOrNone == Oids \cup {0}
Thens == {"done", "teardown"}
Job == [pc : JobPcs, prefix : OrNone(Dests), route : OrNone(Route),
        iface : OrNone(Interfaces), rif : OrNone(Rifs), nbr : OrNone(Rifs),
        todo : Todos, held : Held, old : Held, oid : OidOrNone,
        key : SUBSET Oids, parts : SUBSET Oids, then : Thens, ok : BOOLEAN]

AsicType ==
  [rifs : SUBSET Rifs, hops : SUBSET [oid : Oids, rif : Rifs],
   groups : SUBSET [oid : Oids, members : SUBSET Oids],
   fwd : [Dests -> Targets \cup {None}], nbrs : SUBSET Rifs]
TblType ==
  [l3 : [Interfaces -> Rifs \cup {None}], hops : [Rifs -> Entry \cup {None}],
   groups : SUBSET Group, routes : [Dests -> Held \cup {None}],
   nbrs : [Interfaces -> Rifs \cup {None}]]
FibTypeOK ==
  /\ DestsCount
  /\ asic \in AsicType /\ tbl \in TblType /\ job \in [Clients -> Job]
  /\ made \in [Interfaces -> 1..MaxRifs] /\ faults \in Nat

\* The interfaces of a set of router interfaces.
Ifaces(S) == {r[1] : r \in S}

EmptyHanded(j) == j.held = Nothing /\ j.old = Nothing

\* What a call has in hand at each of its steps.
Acquiring(j, t) ==
  /\ j.pc \in {"hops", "create_hop", "insert_hop"} =>
       /\ j.old = Nothing /\ j.held.group = {}
       /\ j.prefix \in Dests /\ Sane(j.route) /\ j.todo \subseteq Interfaces
  /\ j.pc = "hops" =>
       Ifaces(j.held.hops) = j.route.hops \ j.todo /\ j.todo \subseteq j.route.hops
  /\ j.pc \in {"create_hop", "insert_hop"} =>
       /\ j.rif \in Rifs /\ t.hops[j.rif] = None /\ j.rif[1] \in j.route.hops
       /\ Ifaces(j.held.hops) = j.route.hops \ (j.todo \cup {j.rif[1]})
       /\ j.todo \subseteq j.route.hops /\ j.rif[1] \notin j.todo
  /\ j.pc \in {"create_group", "add_member"} =>
       /\ j.old = Nothing /\ j.held.group = {}
       /\ j.prefix \in Dests /\ Sane(j.route) /\ Ifaces(j.held.hops) = j.route.hops
       /\ j.key \in Keys /\ \A g \in t.groups : g.key # j.key
  /\ j.pc \in {"insert_hop", "add_member"} => j.oid \in Oids
Replacing(j, t) ==
  /\ j.pc \in {"replace", "unroute", "route", "record"} =>
       /\ j.prefix \in Dests /\ Sane(j.route)
       /\ Ifaces(j.held.hops) = j.route.hops
  /\ j.pc = "replace" => j.old = Nothing
  /\ j.pc \in {"unroute", "route", "record"} => t.routes[j.prefix] = None
Releasing(c, j) ==
  /\ j.pc = "withdraw" => j.held = Nothing /\ j.prefix \in Dests
  /\ j.pc \in {"release", "free_hop", "free_group"} =>
       j.then = IF c = "orch" THEN "done" ELSE "teardown"
  /\ j.pc = "release" => Owed(j) # Nothing
  /\ j.pc \in {"free_hop", "free_group"} => j.oid \in Oids

\* A client's part of a call that has nothing to do with its hands.
Owned(c, j) ==
  c = "mgmtd" => /\ j.iface \in Interfaces /\ j.rif \in Rifs /\ j.rif[1] = j.iface
                 /\ j.todo \subseteq Dests /\ j.held = Nothing
Plain(c, j) ==
  /\ j.pc \in IF c = "orch" THEN OrchPcs ELSE MgmtdPcs
  /\ j.pc \in {"idle", "done", "bind", "teardown", "drop_nbr", "remove_rif",
               "stale_nbr", "create_nbr"} => EmptyHanded(j)
  /\ j.pc # "idle" => Owned(c, j)
  /\ j.pc \in {"create_nbr", "stale_nbr"} => j.iface \in Interfaces /\ j.rif \in Rifs
  /\ j.pc = "stale_nbr" => j.nbr \in Rifs
  /\ j.pc = "drop_nbr" => j.rif \in Rifs
JobOK(c, j, t) ==
  Plain(c, j) /\ Acquiring(j, t) /\ Replacing(j, t) /\ Releasing(c, j)
JobsOK == \A c \in Clients : JobOK(c, job[c], tbl)

\* An interface's RIF is its own.
RifsOK == \A i \in Interfaces : tbl.l3[i] # None => tbl.l3[i][1] = i

HopCounts ==
  \A r \in Rifs : IF References("hop", r) = 0 THEN tbl.hops[r] = None
                  ELSE tbl.hops[r] # None /\ tbl.hops[r].refs = References("hop", r)
GroupCounts ==
  /\ \A g, h \in tbl.groups : g.key = h.key => g = h
  /\ \A g \in tbl.groups : g.refs = References("group", g.key) /\ g.refs # 0
  /\ \A k \in Keys : References("group", k) # 0 => \E g \in tbl.groups : g.key = k

CountInv == FibTypeOK /\ JobsOK /\ RifsOK /\ HopCounts /\ GroupCounts

-----------------------------------------------------------------------------
(* Hands and records                                                       *)

Objects == ({"hop"} \X Rifs) \cup ({"group"} \X Keys)

\* The records that count for an object, and what a call has of it.
Recorded(t, o) ==
  Cardinality({p \in Dests : t.routes[p] # None /\ Holds(t.routes[p], o[1], o[2])})
One(b) == IF b THEN 1 ELSE 0
Hand(j, o) == One(Holds(j.held, o[1], o[2])) + One(Holds(j.old, o[1], o[2]))

LEMMA NothingIsHeld ==
  /\ Nothing \in Held
  /\ \A o \in Objects : ~Holds(Nothing, o[1], o[2])
BY Zenon DEF Nothing, Held, Holds, Objects, Keys

LEMMA RecordedIsNat ==
  ASSUME DestsCount, NEW t, NEW o
  PROVE  Recorded(t, o) \in Nat
BY Zenon DEF Recorded, DestsCount

LEMMA HandIsNat ==
  ASSUME NEW j, NEW o
  PROVE  Hand(j, o) \in 0..2
BY DEF Hand, One

\* A record that goes takes one from what it holds.
LEMMA RecordedDrop ==
  ASSUME DestsCount, NEW t \in TblType, NEW u \in TblType, NEW p \in Dests, NEW o,
         u.routes = [t.routes EXCEPT ![p] = None]
  PROVE  Recorded(t, o) =
           Recorded(u, o) + One(t.routes[p] # None /\ Holds(t.routes[p], o[1], o[2]))
<1> DEFINE R == {q \in Dests : t.routes[q] # None /\ Holds(t.routes[q], o[1], o[2])}
           S == {q \in Dests : u.routes[q] # None /\ Holds(u.routes[q], o[1], o[2])}
<1>1. S = R \ {p}
  BY Zenon DEF TblType
<1>2. R \in SUBSET Dests
  BY Zenon
<1>3. Cardinality(S) = IF p \in R THEN Cardinality(R) - 1 ELSE Cardinality(R)
  <2> HIDE DEF R, S
  <2>1. CASE p \in R
    BY <1>1, <1>2, <2>1, Zenon DEF DestsCount
  <2>2. CASE p \notin R
    <3>1. S = R
      BY <1>1, <2>2, Zenon
    <3> QED
      BY <2>2, <3>1, Zenon
  <2> QED
    BY <2>1, <2>2, Zenon
<1>4. Recorded(u, o) = Cardinality(S) /\ Recorded(t, o) = Cardinality(R)
  BY Zenon DEF Recorded
<1>5. (p \in R) <=> (t.routes[p] # None /\ Holds(t.routes[p], o[1], o[2]))
  BY Zenon
<1>6. Cardinality(R) \in Nat
  BY <1>2, Zenon DEF DestsCount
<1> HIDE DEF R, S
<1> QED
  BY <1>3, <1>4, <1>5, <1>6 DEF One

\* A record that is written adds one to what it holds.
LEMMA RecordedPut ==
  ASSUME DestsCount, NEW t \in TblType, NEW u \in TblType, NEW p \in Dests, NEW o,
         t.routes[p] = None, NEW rec \in Held, u.routes = [t.routes EXCEPT ![p] = rec]
  PROVE  Recorded(u, o) = Recorded(t, o) + One(Holds(rec, o[1], o[2]))
<1>1. t.routes = [u.routes EXCEPT ![p] = None]
  BY Zenon DEF TblType
<1>2. u.routes[p] = rec /\ rec # None
  BY NamesAreDistinct, ZenonT(60) DEF TblType
<1> QED
  BY <1>1, <1>2, RecordedDrop

LEMMA EmptyHand ==
  ASSUME NEW j, EmptyHanded(j), NEW o \in Objects
  PROVE  Hand(j, o) = 0
BY NothingIsHeld DEF EmptyHanded, Hand, One

-----------------------------------------------------------------------------
(* Steps of one call                                                       *)

\* The references on an object, split by where they are.
LEMMA ReferencesSplit ==
  ASSUME FibTypeOK, NEW o \in Objects
  PROVE  /\ References(o[1], o[2])
              = Recorded(tbl, o) + Hand(job["orch"], o) + Hand(job["mgmtd"], o)
         /\ References(o[1], o[2]) \in Nat
<1>1. References(o[1], o[2])
              = Recorded(tbl, o) + Hand(job["orch"], o) + Hand(job["mgmtd"], o)
  BY Zenon DEF References, Recorded, InHand, Hand, One
<1>2. Recorded(tbl, o) \in Nat
  BY RecordedIsNat, Zenon DEF FibTypeOK
<1>3. Hand(job["orch"], o) \in 0..2 /\ Hand(job["mgmtd"], o) \in 0..2
  BY HandIsNat, Zenon
<1> QED
  BY <1>1, <1>2, <1>3

\* Only the records and the hands of the call that steps change the count.
LEMMA ReferencesMove ==
  ASSUME FibTypeOK, NEW c \in Clients, NEW j,
         job' = [job EXCEPT ![c] = j], NEW o \in Objects
  PROVE  /\ References(o[1], o[2])' + Recorded(tbl, o) + Hand(job[c], o)
              = References(o[1], o[2]) + Recorded(tbl', o) + Hand(j, o)
         /\ References(o[1], o[2])' \in Nat
<1> DEFINE Ref == References(o[1], o[2])
           H(x) == Hand(x, o)
           R(t) == Recorded(t, o)
<1>1. Ref = R(tbl) + H(job["orch"]) + H(job["mgmtd"])
  BY Zenon DEF References, Recorded, InHand, Hand, One
<1>2. Ref' = R(tbl') + H(job'["orch"]) + H(job'["mgmtd"])
  BY Zenon DEF References, Recorded, InHand, Hand, One
<1>3. \A x : H(x) \in Nat
  BY HandIsNat
<1>4. \A t : R(t) \in Nat
  BY RecordedIsNat, Zenon DEF FibTypeOK
<1>5. \/ c = "orch" /\ job'["orch"] = j /\ job'["mgmtd"] = job["mgmtd"]
      \/ c = "mgmtd" /\ job'["mgmtd"] = j /\ job'["orch"] = job["orch"]
  BY Zenon DEF FibTypeOK, Clients
<1> HIDE DEF Ref, H, R
<1>6. Ref' + R(tbl) + H(job[c]) = Ref + R(tbl') + H(j) /\ Ref' \in Nat
  BY <1>1, <1>2, <1>3, <1>4, <1>5
<1> QED
  BY <1>6, Zenon DEF Ref, H, R

\* What one call does to the table keeps the other calls as they should be.
LEMMA OtherCallsKept ==
  ASSUME FibTypeOK, JobsOK, NEW c \in Clients, NEW j \in Job,
         job' = [job EXCEPT ![c] = j], JobOK(c, j, tbl'),
         \/ c = "orch"
         \/ /\ \A r \in Rifs : tbl.hops[r] = None => tbl'.hops[r] = None
            /\ \A p \in Dests : tbl.routes[p] = None => tbl'.routes[p] = None
            /\ \A g \in tbl'.groups : \E h \in tbl.groups : g.key = h.key
  PROVE  JobsOK'
<1> SUFFICES ASSUME NEW d \in Clients
             PROVE  JobOK(d, job'[d], tbl')
  BY Zenon DEF JobsOK
<1>1. CASE d = c
  BY <1>1, Zenon DEF FibTypeOK
<1>2. CASE d # c /\ d = "mgmtd"
  <2>1. job'[d] = job[d] /\ JobOK(d, job[d], tbl)
    BY <1>2, Zenon DEF FibTypeOK, JobsOK
  <2>2. job[d].pc \in MgmtdPcs
    BY <1>2, <2>1, Zenon DEF JobOK, Plain
  <2> QED
    BY <2>1, <2>2, Zenon DEF JobOK, Acquiring, Replacing, MgmtdPcs
<1>3. CASE d # c /\ d = "orch"
  <2>1. job'[d] = job[d] /\ JobOK(d, job[d], tbl)
    BY <1>3, Zenon DEF FibTypeOK, JobsOK
  <2>2. Replacing(job[d], tbl')
    BY <1>3, <2>1, Zenon DEF JobOK, Replacing
  <2>3. Acquiring(job[d], tbl')
    <3>1. c = "mgmtd" /\ Acquiring(job[d], tbl)
      BY <1>3, <2>1, Zenon DEF JobOK, Clients
    <3>2. \A k : (\A g \in tbl.groups : g.key # k) => \A g \in tbl'.groups : g.key # k
      BY <3>1, Zenon
    <3> QED
      BY <3>1, <3>2, ZenonT(60) DEF Acquiring
  <2> QED
    BY <2>1, <2>2, <2>3, Zenon DEF JobOK
<1> QED
  BY <1>1, <1>2, <1>3, Zenon DEF Clients

\* A step that moves references and leaves the objects alone.
LEMMA MovingStep ==
  ASSUME CountInv, NEW c \in Clients, NEW j \in Job,
         job' = [job EXCEPT ![c] = j], JobOK(c, j, tbl'),
         c = "orch" \/ \A p \in Dests : tbl.routes[p] = None => tbl'.routes[p] = None,
         tbl' \in TblType, tbl'.hops = tbl.hops, tbl'.groups = tbl.groups,
         asic' \in AsicType, made' \in [Interfaces -> 1..MaxRifs], faults' \in Nat,
         RifsOK',
         \A o \in Objects : Recorded(tbl', o) + Hand(j, o) = Recorded(tbl, o) + Hand(job[c], o)
  PROVE  CountInv'
<1>1. FibTypeOK /\ JobsOK /\ HopCounts /\ GroupCounts
  BY Zenon DEF CountInv
<1>2. FibTypeOK'
  BY <1>1, Zenon DEF FibTypeOK
<1>3. JobsOK'
  BY <1>1, OtherCallsKept, Zenon
<1>4. \A o \in Objects : References(o[1], o[2])' = References(o[1], o[2])
  <2> TAKE o \in Objects
  <2> DEFINE Ref == References(o[1], o[2])
  <2>1. Recorded(tbl, o) \in Nat /\ Recorded(tbl', o) \in Nat
    BY <1>1, RecordedIsNat, Zenon DEF FibTypeOK
  <2>2. Hand(job[c], o) \in 0..2 /\ Hand(j, o) \in 0..2
    BY HandIsNat, Zenon
  <2>3. Ref' + Recorded(tbl, o) + Hand(job[c], o) = Ref + Recorded(tbl', o) + Hand(j, o)
        /\ Ref' \in Nat
    BY <1>1, ReferencesMove, Zenon
  <2>4. Ref \in Nat
    BY <1>1, ReferencesSplit, Zenon
  <2>5. Recorded(tbl', o) + Hand(j, o) = Recorded(tbl, o) + Hand(job[c], o)
    BY Zenon
  <2> HIDE DEF Ref
  <2>6. Ref' = Ref
    BY <2>1, <2>2, <2>3, <2>4, <2>5
  <2> QED
    BY <2>6, Zenon DEF Ref
<1>5. \A r \in Rifs : References("hop", r)' = References("hop", r)
  <2> TAKE r \in Rifs
  <2>1. <<"hop", r>> \in Objects
    BY Zenon DEF Objects
  <2> QED
    BY <1>4, <2>1, Zenon
<1>6. \A k \in Keys : References("group", k)' = References("group", k)
  <2> TAKE k \in Keys
  <2>1. <<"group", k>> \in Objects
    BY Zenon DEF Objects
  <2> QED
    BY <1>4, <2>1, Zenon
<1>7. HopCounts'
  BY <1>1, <1>5, Zenon DEF HopCounts
<1>8. \A g \in tbl.groups : g.key \in Keys
  BY <1>1, Zenon DEF FibTypeOK, TblType, Group
<1>9. GroupCounts'
  BY <1>1, <1>6, <1>8 DEF GroupCounts
<1> QED
  BY <1>2, <1>3, <1>7, <1>9, Zenon DEF CountInv

\* A step that leaves the hands and the records alone as well.
LEMMA QuietStep ==
  ASSUME CountInv, NEW c \in Clients, NEW j \in Job,
         job' = [job EXCEPT ![c] = j], JobOK(c, j, tbl'),
         tbl' \in TblType, tbl'.hops = tbl.hops, tbl'.groups = tbl.groups,
         tbl'.routes = tbl.routes,
         asic' \in AsicType, made' \in [Interfaces -> 1..MaxRifs], faults' \in Nat,
         RifsOK', \A o \in Objects : Hand(j, o) = Hand(job[c], o)
  PROVE  CountInv'
<1>1. \A o \in Objects : Recorded(tbl', o) + Hand(j, o) = Recorded(tbl, o) + Hand(job[c], o)
  BY Zenon DEF Recorded
<1>2. \A p \in Dests : tbl.routes[p] = None => tbl'.routes[p] = None
  BY Zenon
<1> QED
  BY <1>1, <1>2, MovingStep, Zenon

LEMMA IdleIsOK ==
  /\ Idle \in Job /\ EmptyHanded(Idle)
  /\ \A c \in Clients : \A t : JobOK(c, Idle, t)
<1>1. Idle \in Job /\ EmptyHanded(Idle)
  BY NothingIsHeld, Zenon
     DEF Idle, Job, OrchPcs, OrNone, JobPcs, Todos, OidOrNone, Thens, EmptyHanded
<1>2. \A c \in Clients : \A t : JobOK(c, Idle, t)
  BY ZenonT(60) DEF Idle, JobOK, Plain, Acquiring, Replacing, Releasing, EmptyHanded, OrchPcs,
         MgmtdPcs, Clients
<1> QED
  BY <1>1, <1>2, Zenon

LEMMA DoneIsOK ==
  ASSUME NEW ok \in BOOLEAN, NEW t
  PROVE  LET j == [Idle EXCEPT !.pc = "done", !.ok = ok]
         IN  j \in Job /\ EmptyHanded(j) /\ JobOK("orch", j, t)
<1> DEFINE j == [Idle EXCEPT !.pc = "done", !.ok = ok]
<1>0. Idle \in Job /\ "done" \in JobPcs
  BY IdleIsOK, Zenon DEF OrchPcs, JobPcs
<1>1. j \in Job
  BY <1>0, Zenon DEF Job
<1>2. j.pc = "done" /\ EmptyHanded(j)
  BY Zenon DEF Idle, EmptyHanded
<1> HIDE DEF j
<1>3. JobOK("orch", j, t)
  BY <1>2, Zenon DEF JobOK, Plain, Owned, Acquiring, Replacing, Releasing, OrchPcs
<1> QED
  BY <1>1, <1>2, <1>3, Zenon DEF j

\* A call that has only releases left goes on with them.
LEMMA Continues ==
  ASSUME NEW c \in Clients, NEW j \in Job, NEW t,
         j.then = IF c = "orch" THEN "done" ELSE "teardown", Owned(c, j)
  PROVE  /\ Continue(j) \in Job
         /\ JobOK(c, Continue(j), t)
         /\ \A o \in Objects : Hand(Continue(j), o) = Hand(j, o)
<1>1. CASE Owed(j) # Nothing
  <2> DEFINE k == [j EXCEPT !.pc = "release"]
  <2>1. Continue(j) = k
    BY <1>1, Zenon DEF Continue
  <2>2. k \in Job
    BY Zenon DEF Job, OrchPcs, JobPcs
  <2>3. /\ k.pc = "release" /\ k.held = j.held /\ k.old = j.old
        /\ k.then = j.then /\ k.iface = j.iface /\ k.rif = j.rif /\ k.todo = j.todo
    BY Zenon DEF Job
  <2> HIDE DEF k
  <2>4. JobOK(c, k, t)
    BY <1>1, <2>3, Zenon DEF JobOK, Plain, Acquiring, Replacing, Releasing, OrchPcs, MgmtdPcs,
                      Clients, Owned, Owed
  <2>5. \A o \in Objects : Hand(k, o) = Hand(j, o)
    BY <2>3, Zenon DEF Hand
  <2> QED
    BY <2>1, <2>2, <2>4, <2>5, Zenon
<1>2. Owed(j) = Nothing => EmptyHanded(j)
  BY Zenon DEF Owed, EmptyHanded
<1>3. CASE Owed(j) = Nothing /\ c = "orch"
  <2> DEFINE k == [Idle EXCEPT !.pc = "done", !.ok = j.ok]
  <2>1. Continue(j) = k
    BY <1>3, Zenon DEF Continue
  <2>2. j.ok \in BOOLEAN
    BY Zenon DEF Job
  <2>3. k \in Job /\ EmptyHanded(k) /\ JobOK(c, k, t)
    BY <1>3, <2>2, DoneIsOK, Zenon
  <2> HIDE DEF k
  <2> QED
    BY <1>2, <1>3, <2>1, <2>3, EmptyHand, Zenon
<1>4. CASE Owed(j) = Nothing /\ c = "mgmtd"
  <2> DEFINE k == [j EXCEPT !.pc = "teardown"]
  <2>1. Continue(j) = k
    BY <1>4, Zenon DEF Continue
  <2>2. k \in Job
    BY Zenon DEF Job, MgmtdPcs, JobPcs
  <2>3. /\ k.pc = "teardown" /\ k.held = j.held /\ k.old = j.old
        /\ k.then = j.then /\ k.iface = j.iface /\ k.rif = j.rif /\ k.todo = j.todo
    BY Zenon DEF Job
  <2> HIDE DEF k
  <2>4. JobOK(c, k, t)
    BY <1>2, <1>4, <2>3, Zenon DEF JobOK, Plain, Acquiring, Replacing, Releasing, EmptyHanded,
                            MgmtdPcs, Owned
  <2>5. \A o \in Objects : Hand(k, o) = Hand(j, o)
    BY <2>3, Zenon DEF Hand
  <2> QED
    BY <2>1, <2>2, <2>4, <2>5, Zenon
<1> QED
  BY <1>1, <1>3, <1>4, Zenon DEF Clients

LEMMA ReleasesThen ==
  ASSUME NEW c \in Clients, NEW j \in Job, NEW t, Owned(c, j), NEW ok \in BOOLEAN,
         NEW then, then = IF c = "orch" THEN "done" ELSE "teardown"
  PROVE  LET k == ReleaseThen(j, then, ok)
         IN  /\ k \in Job /\ JobOK(c, k, t)
             /\ \A o \in Objects : Hand(k, o) = Hand(j, o)
<1> DEFINE l == [j EXCEPT !.then = then, !.ok = ok]
<1>1. then \in Thens
  BY Zenon DEF Thens
<1>2. l \in Job
  BY <1>1, Zenon DEF Job
<1>3. /\ l.held = j.held /\ l.old = j.old /\ l.then = then
      /\ l.iface = j.iface /\ l.rif = j.rif /\ l.todo = j.todo
  BY Zenon DEF Job
<1>4. ReleaseThen(j, then, ok) = Continue(l)
  BY Zenon DEF ReleaseThen
<1> HIDE DEF l
<1>5. Owned(c, l) /\ \A o \in Objects : Hand(l, o) = Hand(j, o)
  BY <1>3, Zenon DEF Owned, Hand
<1> QED
  BY <1>2, <1>3, <1>4, <1>5, Continues

-----------------------------------------------------------------------------
(* The steps that free objects                                             *)

LEMMA SaiFaults ==
  ASSUME NEW a, NEW ok, faults \in Nat, Sai(a, ok)
  PROVE  faults' \in Nat
BY DEF Sai

\* The other parts of the invariant that a step takes for granted.
LEMMA CallFacts ==
  ASSUME CountInv, NEW c \in Clients
  PROVE  /\ asic \in AsicType /\ tbl \in TblType /\ faults \in Nat /\ DestsCount
         /\ made \in [Interfaces -> 1..MaxRifs] /\ RifsOK
         /\ job \in [Clients -> Job] /\ job[c] \in Job /\ JobOK(c, job[c], tbl)
BY Zenon DEF CountInv, FibTypeOK, JobsOK

LEMMA FreedKeeps ==
  ASSUME CountInv, NEW c \in Clients, job[c].pc \in {"free_hop", "free_group"},
         job' = [job EXCEPT ![c] = Continue([job[c] EXCEPT !.oid = 0])],
         tbl' = tbl, made' = made, asic' \in AsicType, faults' \in Nat
  PROVE  CountInv'
<1> DEFINE j == [job[c] EXCEPT !.oid = 0]
<1>1. j \in Job
  BY CallFacts DEF Job, OidOrNone
<1>2. /\ j.held = job[c].held /\ j.old = job[c].old /\ j.then = job[c].then
      /\ j.iface = job[c].iface /\ j.rif = job[c].rif /\ j.todo = job[c].todo
  BY CallFacts, Zenon DEF Job
<1> HIDE DEF j
<1>3. Owned(c, j) /\ j.then = IF c = "orch" THEN "done" ELSE "teardown"
  BY <1>2, CallFacts, Zenon DEF JobOK, Plain, Releasing, Owned
<1>4. /\ Continue(j) \in Job /\ JobOK(c, Continue(j), tbl')
      /\ \A o \in Objects : Hand(Continue(j), o) = Hand(j, o)
  BY <1>1, <1>3, Continues, Zenon
<1>5. \A o \in Objects : Hand(Continue(j), o) = Hand(job[c], o)
  BY <1>2, <1>4, Zenon DEF Hand
<1>6. RifsOK' /\ tbl' \in TblType /\ made' \in [Interfaces -> 1..MaxRifs]
  BY CallFacts, Zenon DEF RifsOK
<1> QED
  BY <1>4, <1>5, <1>6, QuietStep, Zenon DEF j

LEMMA FreeHopKeeps ==
  ASSUME CountInv, NEW c \in Clients, FreeHop(c)
  PROVE  CountInv'
<1>1. faults' \in Nat
  BY CallFacts, SaiFaults, Zenon DEF FreeHop
<1>2. asic' \in AsicType
  BY CallFacts DEF FreeHop, AsicType
<1> QED
  BY <1>1, <1>2, FreedKeeps, Zenon DEF FreeHop, At, Becomes

\* Groups of the ASIC with their members changed are groups of the ASIC.
LEMMA RegroupedType ==
  ASSUME asic \in AsicType, NEW o, NEW x \in Oids
  PROVE  /\ [asic EXCEPT !.groups = With(@, o, x)] \in AsicType
         /\ [asic EXCEPT !.groups = Without(@, o, x)] \in AsicType
<1> DEFINE G == [oid : Oids, members : SUBSET Oids]
           gs == With(asic.groups, o, x)
           hs == Without(asic.groups, o, x)
<1>1. asic.groups \subseteq G
  BY Zenon DEF AsicType
<1>2. \A g \in G : /\ [g EXCEPT !.members = @ \cup {x}] \in G
                   /\ [g EXCEPT !.members = @ \ {x}] \in G
  BY Zenon
<1> HIDE DEF G
<1>3. gs \subseteq G /\ hs \subseteq G
  BY <1>1, <1>2, Zenon DEF With, Without
<1> HIDE DEF gs, hs
<1>4. [asic EXCEPT !.groups = gs] \in AsicType /\ [asic EXCEPT !.groups = hs] \in AsicType
  BY <1>3, Zenon DEF AsicType, G
<1> QED
  BY <1>4, Zenon DEF gs, hs

LEMMA FreeMemberKeeps ==
  ASSUME CountInv, NEW c \in Clients, FreeMember(c)
  PROVE  CountInv'
<1> DEFINE q == job[c]
           o == CHOOSE x \in q.parts : TRUE
           k == [q EXCEPT !.parts = @ \ {o}]
<1>1. faults' \in Nat
  BY CallFacts, SaiFaults, Zenon DEF FreeMember
<1>2. asic' \in AsicType
  <2>1. asic' = asic \/ asic' = [asic EXCEPT !.groups = Without(@, q.oid, o)]
    BY Zenon DEF FreeMember
  <2>2. o \in Oids
    BY CallFacts, Zenon DEF FreeMember, Job
  <2> HIDE DEF o
  <2>3. [asic EXCEPT !.groups = Without(@, q.oid, o)] \in AsicType
    BY <2>2, CallFacts, RegroupedType, Zenon
  <2> QED
    BY <2>1, <2>3, CallFacts, Zenon
<1>3. q.pc = "free_group" /\ job' = [job EXCEPT ![c] = k] /\ tbl' = tbl /\ made' = made
  BY Zenon DEF FreeMember, At, Becomes
<1>4. q \in Job /\ JobOK(c, q, tbl)
  BY CallFacts, Zenon
<1> HIDE DEF o
<1>5. k \in Job
  BY <1>4, Zenon DEF Job
<1>6. /\ k.pc = q.pc /\ k.oid = q.oid /\ k.held = q.held /\ k.old = q.old /\ k.then = q.then
      /\ k.iface = q.iface /\ k.rif = q.rif /\ k.todo = q.todo
  BY <1>4, Zenon DEF Job
<1> HIDE DEF k
<1>7. JobOK(c, k, tbl')
  BY <1>3, <1>4, <1>6, ZenonT(60) DEF JobOK, Plain, Owned, Acquiring, Replacing, Releasing
<1>8. RifsOK' /\ \A x \in Objects : Hand(k, x) = Hand(q, x)
  BY <1>3, <1>6, CallFacts, Zenon DEF RifsOK, Hand
<1> QED
  BY <1>1, <1>2, <1>3, <1>5, <1>7, <1>8, CallFacts, QuietStep, ZenonT(60)

LEMMA FreeGroupKeeps ==
  ASSUME CountInv, NEW c \in Clients, FreeGroup(c)
  PROVE  CountInv'
<1>1. faults' \in Nat
  BY CallFacts, SaiFaults, Zenon DEF FreeGroup
<1>2. asic' \in AsicType
  BY CallFacts DEF FreeGroup, AsicType
<1> QED
  BY <1>1, <1>2, FreedKeeps, Zenon DEF FreeGroup, At, Becomes

-----------------------------------------------------------------------------
(* The steps of a call that replaces or withdraws a route                  *)

LEMMA EnsureRouteKeeps ==
  ASSUME CountInv, NEW p \in Dests, NEW w, Sane(w), EnsureRoute(p, w)
  PROVE  CountInv'
<1> DEFINE j == [Idle EXCEPT !.pc = "hops", !.prefix = p, !.route = w, !.todo = w.hops]
<1>1. w \in Route /\ w.hops \subseteq Interfaces
  BY Zenon DEF Sane, Route
<1>2. j \in Job
  BY <1>1, IdleIsOK, Zenon DEF Job, OrchPcs, JobPcs, OrNone, Todos
<1>3. /\ j.pc = "hops" /\ j.prefix = p /\ j.route = w /\ j.todo = w.hops
      /\ j.held = Nothing /\ j.old = Nothing
  BY Zenon DEF Idle
<1> HIDE DEF j
<1>4. JobOK("orch", j, tbl')
  BY <1>1, <1>3 DEF JobOK, Plain, Owned, Acquiring, Replacing, Releasing, OrchPcs, Nothing,
                    Ifaces
<1>5. "orch" \in Clients
  BY Zenon DEF Clients
<1>6. EmptyHanded(job["orch"]) /\ EmptyHanded(j)
  BY <1>3, <1>5, CallFacts, Zenon DEF EnsureRoute, At, JobOK, Plain, EmptyHanded
<1>7. \A o \in Objects : Hand(j, o) = Hand(job["orch"], o)
  BY <1>6, EmptyHand, Zenon
<1>8. /\ job' = [job EXCEPT !["orch"] = j] /\ tbl' = tbl /\ made' = made
      /\ asic' = asic /\ faults' = faults
  BY Zenon DEF EnsureRoute, Becomes, j
<1>9. RifsOK'
  BY <1>5, <1>8, CallFacts, Zenon DEF RifsOK
<1> QED
  BY <1>2, <1>4, <1>5, <1>7, <1>8, <1>9, CallFacts, QuietStep, Zenon

\* A record that is taken out of the table goes into the call's hand.
LEMMA TakenRecord ==
  ASSUME CountInv, NEW c \in Clients, NEW p \in Dests, NEW j \in Job,
         job' = [job EXCEPT ![c] = j],
         tbl' \in TblType, tbl'.routes = [tbl.routes EXCEPT ![p] = None],
         tbl'.hops = tbl.hops, tbl'.groups = tbl.groups, tbl'.l3 = tbl.l3,
         asic' = asic, made' = made, faults' = faults, JobOK(c, j, tbl'),
         job[c].old = Nothing, j.held = job[c].held,
         j.old = IF tbl.routes[p] = None THEN Nothing ELSE tbl.routes[p]
  PROVE  CountInv'
<1>3. RifsOK'
  BY CallFacts, Zenon DEF RifsOK
<1>4. \A o \in Objects : Recorded(tbl', o) + Hand(j, o) = Recorded(tbl, o) + Hand(job[c], o)
  <2> TAKE o \in Objects
  <2>1. Recorded(tbl, o) = Recorded(tbl', o)
          + One(tbl.routes[p] # None /\ Holds(tbl.routes[p], o[1], o[2]))
    <3>1. tbl \in TblType /\ DestsCount
      BY CallFacts, Zenon
    <3> QED
      BY <3>1, RecordedDrop
  <2>2. Recorded(tbl', o) \in Nat /\ ~Holds(Nothing, o[1], o[2])
    BY CallFacts, RecordedIsNat, NothingIsHeld, Zenon
  <2> DEFINE b == tbl.routes[p] # None /\ Holds(tbl.routes[p], o[1], o[2])
             h == Holds(job[c].held, o[1], o[2])
  <2>3. Hand(job[c], o) = One(h) + 0
    BY <2>2, Zenon DEF Hand, One
  <2>4. Hand(j, o) = One(h) + One(b)
    <3>1. Holds(j.old, o[1], o[2]) <=> b
      BY <2>2, Zenon
    <3> HIDE DEF b
    <3> QED
      BY <3>1, Zenon DEF Hand, One
  <2>5. One(b) \in Nat /\ One(h) \in Nat
    BY Zenon DEF One
  <2> HIDE DEF b, h
  <2>6. Recorded(tbl, o) = Recorded(tbl', o) + One(b)
    BY <2>1, Zenon DEF b
  <2> QED
    BY <2>2, <2>3, <2>4, <2>5, <2>6
<1>5. \A q \in Dests : tbl.routes[q] = None => tbl'.routes[q] = None
  BY CallFacts, Zenon DEF TblType
<1> QED
  BY <1>3, <1>4, <1>5, CallFacts, MovingStep, ZenonT(60)

LEMMA ReplaceKeeps ==
  ASSUME CountInv, Replace
  PROVE  CountInv'
<1> DEFINE p == job["orch"].prefix
           old == tbl.routes[p]
           rec == IF old = None THEN Nothing ELSE old
           pc == IF old = None THEN "route" ELSE "unroute"
           j == [job["orch"] EXCEPT !.old = rec, !.pc = pc]
<1>1. "orch" \in Clients
  BY Zenon DEF Clients
<1>2. job["orch"].pc = "replace" /\ p \in Dests /\ job["orch"].old = Nothing
  BY <1>1, CallFacts, Zenon DEF Replace, At, JobOK, Replacing
<1>3. rec \in Held /\ pc \in JobPcs
  BY <1>1, <1>2, CallFacts, NothingIsHeld, Zenon DEF TblType, JobPcs, OrchPcs
<1>4. job' = [job EXCEPT !["orch"] = j] /\ tbl' = [tbl EXCEPT !.routes[p] = None]
      /\ asic' = asic /\ made' = made /\ faults' = faults
  BY Zenon DEF Replace, Becomes
<1> HIDE DEF rec, pc
<1>5. j \in Job
  BY <1>1, <1>3, CallFacts, ZenonT(60) DEF Job
<1>6. /\ j.pc = pc /\ j.old = rec /\ j.held = job["orch"].held /\ j.prefix = p
      /\ j.route = job["orch"].route
  BY <1>1, CallFacts, Zenon DEF Job
<1>t. /\ tbl' \in TblType /\ tbl'.routes = [tbl.routes EXCEPT ![p] = None]
      /\ tbl'.hops = tbl.hops /\ tbl'.groups = tbl.groups /\ tbl'.l3 = tbl.l3
  <2>1. tbl \in TblType
    BY <1>1, CallFacts, Zenon
  <2> HIDE DEF p, j
  <2> QED
    BY <1>2, <1>4, <2>1, Zenon DEF TblType
<1>7. tbl'.routes[p] = None
  BY <1>1, <1>2, <1>t, CallFacts, Zenon DEF TblType
<1> HIDE DEF j
<1>8. JobOK("orch", j, tbl')
  BY <1>1, <1>2, <1>6, <1>7, CallFacts, Zenon
     DEF JobOK, Plain, Owned, Acquiring, Replacing, Releasing, OrchPcs, pc
<1> QED
  BY <1>1, <1>2, <1>4, <1>5, <1>6, <1>8, <1>t, TakenRecord, Zenon DEF rec

LEMMA RemoveFwdTypes ==
  ASSUME asic \in AsicType, faults \in Nat, NEW p \in Dests, RemoveFwd(p)
  PROVE  asic' \in AsicType /\ faults' \in Nat
<1>1. faults' \in Nat
  BY SaiFaults, Zenon DEF RemoveFwd
<1>2. asic' \in AsicType
  BY DEF RemoveFwd, AsicType
<1> QED
  BY <1>1, <1>2, Zenon

LEMMA UnrouteKeeps ==
  ASSUME CountInv, Unroute
  PROVE  CountInv'
<1> DEFINE p == job["orch"].prefix
           j == [job["orch"] EXCEPT !.pc = "route"]
<1>1. "orch" \in Clients
  BY Zenon DEF Clients
<1>2. job["orch"].pc = "unroute" /\ p \in Dests
  BY <1>1, CallFacts, Zenon DEF Unroute, At, JobOK, Replacing
<1>3. job' = [job EXCEPT !["orch"] = j] /\ tbl' = tbl /\ made' = made
  BY Zenon DEF Unroute, Becomes, Goto
<1>4. asic' \in AsicType /\ faults' \in Nat
  BY <1>1, <1>2, CallFacts, RemoveFwdTypes, Zenon DEF Unroute
<1>5. j \in Job
  BY <1>1, CallFacts DEF Job, JobPcs, OrchPcs
<1>6. /\ j.pc = "route" /\ j.old = job["orch"].old /\ j.held = job["orch"].held
      /\ j.prefix = p /\ j.route = job["orch"].route
  BY <1>1, CallFacts, ZenonT(60) DEF Job
<1> HIDE DEF j
<1>7. JobOK("orch", j, tbl')
  BY <1>1, <1>2, <1>3, <1>6, CallFacts, Zenon
     DEF JobOK, Plain, Owned, Acquiring, Replacing, Releasing, OrchPcs
<1>8. RifsOK' /\ \A o \in Objects : Hand(j, o) = Hand(job["orch"], o)
  BY <1>1, <1>3, <1>6, CallFacts, Zenon DEF RifsOK, Hand
<1> QED
  BY <1>1, <1>3, <1>4, <1>5, <1>7, <1>8, CallFacts, QuietStep, Zenon

\* A call that gives up keeps its hands, to release what is in them.
LEMMA GivingUp ==
  ASSUME CountInv, NEW j \in Job, j.held = job["orch"].held, j.old = job["orch"].old,
         job' = [job EXCEPT !["orch"] = ReleaseThen(j, "done", FALSE)],
         tbl' = tbl, made' = made, asic' \in AsicType, faults' \in Nat
  PROVE  CountInv'
<1> DEFINE k == ReleaseThen(j, "done", FALSE)
<1>1. "orch" \in Clients
  BY Zenon DEF Clients
<1>2. Owned("orch", j)
  BY Zenon DEF Owned
<1>3. k \in Job /\ JobOK("orch", k, tbl') /\ \A o \in Objects : Hand(k, o) = Hand(j, o)
  BY <1>1, <1>2, ReleasesThen, Zenon
<1> HIDE DEF k
<1>4. \A o \in Objects : Hand(k, o) = Hand(job["orch"], o)
  BY <1>3, Zenon DEF Hand
<1>5. RifsOK'
  BY <1>1, CallFacts, Zenon DEF RifsOK
<1> QED
  BY <1>1, <1>3, <1>4, <1>5, CallFacts, QuietStep, Zenon DEF k

\* The target of a route whose next hops are held is one.
LEMMA TargetIsTarget ==
  ASSUME CountInv, NEW w, Sane(w), NEW held \in Held, Ifaces(held.hops) = w.hops,
         \A r \in held.hops : References("hop", r) # 0,
         held.group # {} => References("group", held.group) # 0
  PROVE  TargetOf(w, held) \in Targets
<1>1. CASE w.cpu \/ w.drop
  BY <1>1, Zenon DEF TargetOf, Targets
<1>2. CASE ~w.cpu /\ ~w.drop /\ held.group = {}
  <2>1. held.hops # {} /\ held.hops \subseteq Rifs
    BY <1>2, Zenon DEF Sane, Ifaces, Held
  <2> DEFINE r == CHOOSE x \in held.hops : TRUE
  <2>2. r \in held.hops
    BY <2>1, Zenon
  <2> HIDE DEF r
  <2>3. tbl.hops[r] # None
    BY <2>1, <2>2, Zenon DEF CountInv, HopCounts
  <2>4. tbl.hops[r].oid \in Oids
    BY <2>1, <2>2, <2>3, Zenon DEF CountInv, FibTypeOK, TblType, Entry
  <2> QED
    BY <1>2, <2>4, Zenon DEF TargetOf, Targets, r
<1>3. CASE ~w.cpu /\ ~w.drop /\ held.group # {}
  <2>1. held.group \in Keys
    BY <1>3, Zenon DEF Held, Keys
  <2> DEFINE g == CHOOSE x \in tbl.groups : x.key = held.group
  <2>2. g \in tbl.groups
    BY <1>3, <2>1, Zenon DEF CountInv, GroupCounts
  <2> HIDE DEF g
  <2>3. g.oid \in Oids
    BY <2>2, Zenon DEF CountInv, FibTypeOK, TblType, Group
  <2> QED
    BY <1>3, <2>3, Zenon DEF TargetOf, Targets, g
<1> QED
  BY <1>1, <1>2, <1>3, Zenon

\* What is in a hand or in a record is counted.
LEMMA HeldCounts ==
  ASSUME FibTypeOK, NEW o \in Objects, NEW c \in Clients
  PROVE  /\ Holds(job[c].held, o[1], o[2]) => References(o[1], o[2]) # 0
         /\ Holds(job[c].old, o[1], o[2]) => References(o[1], o[2]) # 0
<1>1. Recorded(tbl, o) \in Nat
  BY RecordedIsNat, Zenon DEF FibTypeOK
<1>2. Hand(job["orch"], o) \in 0..2 /\ Hand(job["mgmtd"], o) \in 0..2
  BY HandIsNat, Zenon
<1>3. References(o[1], o[2])
              = Recorded(tbl, o) + Hand(job["orch"], o) + Hand(job["mgmtd"], o)
  BY ReferencesSplit, Zenon
<1>4. ASSUME Holds(job[c].held, o[1], o[2]) \/ Holds(job[c].old, o[1], o[2])
      PROVE  Hand(job[c], o) > 0
  BY <1>4 DEF Hand, One
<1>5. c = "orch" \/ c = "mgmtd"
  BY Zenon DEF Clients
<1> QED
  BY <1>1, <1>2, <1>3, <1>4, <1>5

LEMMA RecordCounts ==
  ASSUME FibTypeOK, NEW o \in Objects, NEW p \in Dests, tbl.routes[p] # None,
         Holds(tbl.routes[p], o[1], o[2])
  PROVE  References(o[1], o[2]) # 0
<1> DEFINE R == {q \in Dests : tbl.routes[q] # None /\ Holds(tbl.routes[q], o[1], o[2])}
<1>1. R \in SUBSET Dests /\ p \in R
  BY Zenon
<1>2. DestsCount
  BY Zenon DEF FibTypeOK
<1>3. Cardinality(R) # 0 /\ Cardinality(R) \in Nat
  <2> HIDE DEF R
  <2> QED
    BY <1>1, <1>2, Zenon DEF DestsCount
<1>4. Recorded(tbl, o) = Cardinality(R)
  BY Zenon DEF Recorded
<1>5. Hand(job["orch"], o) \in 0..2 /\ Hand(job["mgmtd"], o) \in 0..2
  BY HandIsNat, Zenon
<1>6. References(o[1], o[2])
              = Recorded(tbl, o) + Hand(job["orch"], o) + Hand(job["mgmtd"], o)
  BY ReferencesSplit, Zenon
<1> HIDE DEF R
<1> QED
  BY <1>3, <1>4, <1>5, <1>6

LEMMA CreateRouteKeeps ==
  ASSUME CountInv, CreateRoute
  PROVE  CountInv'
<1> DEFINE j == job["orch"]
           p == j.prefix
           t == TargetOf(j.route, j.held)
<1>1. "orch" \in Clients
  BY Zenon DEF Clients
<1>2. /\ j.pc = "route" /\ p \in Dests /\ Sane(j.route)
      /\ Ifaces(j.held.hops) = j.route.hops /\ j \in Job /\ JobOK("orch", j, tbl)
  BY <1>1, CallFacts, Zenon DEF CreateRoute, At, JobOK, Replacing
<1>3. t \in Targets
  <2>1. j.held \in Held
    BY <1>2, Zenon DEF Job
  <2>2. \A r \in j.held.hops : References("hop", r) # 0
    <3> TAKE r \in j.held.hops
    <3> DEFINE o == <<"hop", r>>
    <3>1. o \in Objects /\ Holds(j.held, o[1], o[2])
      BY <2>1, Zenon DEF Objects, Held, Holds
    <3> QED
      BY <1>1, <3>1, HeldCounts, Zenon DEF CountInv
  <2>3. j.held.group # {} => References("group", j.held.group) # 0
    <3> DEFINE o == <<"group", j.held.group>>
    <3> SUFFICES ASSUME j.held.group # {} PROVE References(o[1], o[2]) # 0
      BY Zenon
    <3>1. o \in Objects /\ Holds(j.held, o[1], o[2])
      BY <2>1, Zenon DEF Objects, Held, Keys, Holds
    <3> QED
      BY <1>1, <3>1, HeldCounts, Zenon DEF CountInv
  <2> QED
    BY <1>2, <2>1, <2>2, <2>3, TargetIsTarget, Zenon
<1>4. faults' \in Nat
  BY <1>1, CallFacts, SaiFaults, Zenon DEF CreateRoute
<1>5. tbl' = tbl /\ made' = made
  BY Zenon DEF CreateRoute
<1>6. CASE asic' = [asic EXCEPT !.fwd[p] = t] /\ Goto("orch", "record")
  <2> DEFINE k == [j EXCEPT !.pc = "record"]
  <2>1. asic' \in AsicType
    <3>1. asic \in AsicType
      BY <1>1, CallFacts, Zenon
    <3> HIDE DEF p, t
    <3> QED
      BY <1>2, <1>3, <1>6, <3>1, Zenon DEF AsicType
  <2>2. k \in Job
    BY <1>2, Zenon DEF Job, JobPcs, OrchPcs
  <2>3. /\ k.pc = "record" /\ k.old = j.old /\ k.held = j.held /\ k.prefix = p
        /\ k.route = j.route
    BY <1>2, Zenon DEF Job
  <2>4. job' = [job EXCEPT !["orch"] = k]
    BY <1>6, Zenon DEF Goto, Becomes
  <2> HIDE DEF k
  <2>5. JobOK("orch", k, tbl')
    BY <1>2, <1>5, <2>3, Zenon
       DEF JobOK, Plain, Owned, Acquiring, Replacing, Releasing, OrchPcs
  <2>6. RifsOK' /\ \A o \in Objects : Hand(k, o) = Hand(job["orch"], o)
    BY <1>1, <1>5, <2>3, CallFacts, Zenon DEF RifsOK, Hand
  <2> QED
    BY <1>1, <1>4, <1>5, <2>1, <2>2, <2>4, <2>5, <2>6, CallFacts, QuietStep, Zenon
<1>7. CASE asic' = asic /\ job' = [job EXCEPT !["orch"] = ReleaseThen(j, "done", FALSE)]
  BY <1>1, <1>2, <1>4, <1>5, <1>7, CallFacts, GivingUp, Zenon
<1> QED
  BY <1>6, <1>7, Zenon DEF CreateRoute, Becomes

LEMMA RecordRouteKeeps ==
  ASSUME CountInv, RecordRoute
  PROVE  CountInv'
<1> DEFINE j == job["orch"]
           p == j.prefix
           l == [j EXCEPT !.held = Nothing]
           k == ReleaseThen(l, "done", TRUE)
<1>1. "orch" \in Clients
  BY Zenon DEF Clients
<1>2. j.pc = "record" /\ p \in Dests /\ tbl.routes[p] = None /\ j \in Job
  BY <1>1, CallFacts, Zenon DEF RecordRoute, At, JobOK, Replacing
<1>3. l \in Job /\ l.old = j.old /\ l.held = Nothing
  BY <1>2, NothingIsHeld, Zenon DEF Job
<1>4. /\ job' = [job EXCEPT !["orch"] = k] /\ tbl' = [tbl EXCEPT !.routes[p] = j.held]
      /\ asic' = asic /\ made' = made /\ faults' = faults
  BY Zenon DEF RecordRoute, Becomes
<1>5. k \in Job /\ JobOK("orch", k, tbl') /\ \A o \in Objects : Hand(k, o) = Hand(l, o)
  <2>1. Owned("orch", l)
    BY Zenon DEF Owned
  <2> QED
    BY <1>1, <1>3, <2>1, ReleasesThen, ZenonT(60)
<1> HIDE DEF k, l
<1>6. j.held \in Held
  BY <1>2, Zenon DEF Job
<1>7. /\ tbl' \in TblType /\ tbl'.routes = [tbl.routes EXCEPT ![p] = j.held]
      /\ tbl'.hops = tbl.hops /\ tbl'.groups = tbl.groups /\ tbl'.l3 = tbl.l3
  <2>1. tbl \in TblType
    BY <1>1, CallFacts, Zenon
  <2> DEFINE h == j.held
  <2> HIDE DEF p, j, h
  <2> QED
    BY <1>2, <1>4, <1>6, <2>1, Zenon DEF TblType
<1>8. RifsOK'
  BY <1>1, <1>7, CallFacts, Zenon DEF RifsOK
<1>9. \A o \in Objects : Recorded(tbl', o) + Hand(k, o) = Recorded(tbl, o) + Hand(j, o)
  <2> TAKE o \in Objects
  <2> DEFINE h == One(Holds(j.held, o[1], o[2]))
             q == One(Holds(j.old, o[1], o[2]))
  <2>1. Recorded(tbl', o) = Recorded(tbl, o) + h
    <3>1. tbl \in TblType /\ DestsCount
      BY <1>1, CallFacts, Zenon
    <3> HIDE DEF j
    <3> QED
      BY <1>2, <1>6, <1>7, <3>1, RecordedPut
  <2>2. Hand(j, o) = h + q
    BY Zenon DEF Hand
  <2>3. Hand(k, o) = 0 + q
    BY <1>3, <1>5, NothingIsHeld, Zenon DEF Hand, One
  <2>4. h \in Nat /\ q \in Nat /\ Recorded(tbl, o) \in Nat
    BY <1>1, CallFacts, RecordedIsNat, Zenon DEF One
  <2> HIDE DEF h, q
  <2> QED
    BY <2>1, <2>2, <2>3, <2>4
<1> QED
  BY <1>1, <1>4, <1>5, <1>7, <1>8, <1>9, CallFacts, MovingStep, ZenonT(60)

LEMMA RemoveRouteKeeps ==
  ASSUME CountInv, NEW p \in Dests, RemoveRoute(p)
  PROVE  CountInv'
<1> DEFINE old == tbl.routes[p]
           rec == IF old = None THEN Nothing ELSE old
           pc == IF old = None THEN "done" ELSE "withdraw"
           j == [Idle EXCEPT !.prefix = p, !.old = rec, !.pc = pc]
<1>1. "orch" \in Clients
  BY Zenon DEF Clients
<1>2. EmptyHanded(job["orch"])
  BY <1>1, CallFacts, Zenon DEF RemoveRoute, At, JobOK, Plain
<1>3. rec \in Held /\ pc \in JobPcs /\ Idle \in Job
  BY <1>1, CallFacts, NothingIsHeld, IdleIsOK, Zenon DEF TblType, JobPcs, OrchPcs
<1>4. job' = [job EXCEPT !["orch"] = j] /\ tbl' = [tbl EXCEPT !.routes[p] = None]
      /\ asic' = asic /\ made' = made /\ faults' = faults
  BY Zenon DEF RemoveRoute, Becomes
<1>5. /\ tbl' \in TblType /\ tbl'.routes = [tbl.routes EXCEPT ![p] = None]
      /\ tbl'.hops = tbl.hops /\ tbl'.groups = tbl.groups /\ tbl'.l3 = tbl.l3
  <2>1. tbl \in TblType
    BY <1>1, CallFacts, Zenon
  <2> HIDE DEF j
  <2> QED
    BY <1>4, <2>1, Zenon DEF TblType
<1> HIDE DEF rec, pc
<1>6. j \in Job
  BY <1>3, Zenon DEF Job, OrNone
<1>7. j.pc = pc /\ j.old = rec /\ j.held = Nothing /\ j.prefix = p
  BY Zenon DEF Idle
<1> HIDE DEF j
<1>8. JobOK("orch", j, tbl')
  BY <1>7, Zenon DEF JobOK, Plain, Owned, EmptyHanded, Acquiring, Replacing, Releasing, OrchPcs,
              pc, rec
<1> QED
  BY <1>1, <1>2, <1>4, <1>5, <1>6, <1>7, <1>8, TakenRecord, Zenon DEF rec, EmptyHanded

LEMMA WithdrawKeeps ==
  ASSUME CountInv, NEW c \in Clients, Withdraw(c)
  PROVE  CountInv'
<1> DEFINE then == IF c = "orch" THEN "done" ELSE "teardown"
           k == ReleaseThen(job[c], then, TRUE)
<1>1. job[c].pc = "withdraw" /\ job[c].prefix \in Dests /\ Owned(c, job[c])
  BY CallFacts, Zenon DEF Withdraw, At, JobOK, Plain, Releasing
<1>2. asic' \in AsicType /\ faults' \in Nat
  BY <1>1, CallFacts, RemoveFwdTypes, Zenon DEF Withdraw
<1>3. job' = [job EXCEPT ![c] = k] /\ tbl' = tbl /\ made' = made
  BY Zenon DEF Withdraw, Becomes
<1>4. k \in Job /\ JobOK(c, k, tbl') /\ \A o \in Objects : Hand(k, o) = Hand(job[c], o)
  BY <1>1, CallFacts, ReleasesThen, ZenonT(60)
<1> HIDE DEF k
<1>5. RifsOK'
  BY <1>3, CallFacts, Zenon DEF RifsOK
<1> QED
  BY <1>2, <1>3, <1>4, <1>5, CallFacts, QuietStep, Zenon

-----------------------------------------------------------------------------
(* Neighbours and addresses                                                *)

\* A step of a call with empty hands.
LEMMA EmptyHandedStep ==
  ASSUME CountInv, NEW c \in Clients, NEW j \in Job, EmptyHanded(job[c]), EmptyHanded(j),
         job' = [job EXCEPT ![c] = j], JobOK(c, j, tbl'),
         tbl' \in TblType, tbl'.hops = tbl.hops, tbl'.groups = tbl.groups,
         tbl'.routes = tbl.routes, RifsOK',
         asic' \in AsicType, made' \in [Interfaces -> 1..MaxRifs], faults' \in Nat
  PROVE  CountInv'
<1>1. \A o \in Objects : Hand(j, o) = Hand(job[c], o)
  BY EmptyHand, Zenon
<1> QED
  BY <1>1, QuietStep, Zenon

\* A table in which only a neighbour differs.
NbrTable(t) ==
  /\ t \in TblType /\ t.hops = tbl.hops /\ t.groups = tbl.groups /\ t.routes = tbl.routes
  /\ t.l3 = tbl.l3

LEMMA NbrWritten ==
  ASSUME tbl \in TblType, NEW i \in Interfaces, NEW r \in Rifs \cup {None}
  PROVE  NbrTable([tbl EXCEPT !.nbrs[i] = r])
BY Zenon DEF NbrTable, TblType

LEMMA NbrStep ==
  ASSUME CountInv, NEW c \in Clients, NEW j \in Job, EmptyHanded(job[c]), EmptyHanded(j),
         job' = [job EXCEPT ![c] = j], JobOK(c, j, tbl'), NbrTable(tbl'),
         asic' \in AsicType, made' = made, faults' \in Nat
  PROVE  CountInv'
<1>1. RifsOK'
  BY CallFacts, Zenon DEF RifsOK, NbrTable
<1> QED
  BY <1>1, CallFacts, EmptyHandedStep, Zenon DEF NbrTable

LEMMA SameTable ==
  ASSUME tbl \in TblType, tbl' = tbl
  PROVE  NbrTable(tbl')
BY Zenon DEF NbrTable

LEMMA DropNbrTypes ==
  ASSUME asic \in AsicType, faults \in Nat, NEW r, DropNbr(r)
  PROVE  asic' \in AsicType /\ faults' \in Nat
<1>1. faults' \in Nat
  BY SaiFaults, Zenon DEF DropNbr
<1>2. asic' \in AsicType
  BY DEF DropNbr, AsicType
<1> QED
  BY <1>1, <1>2, Zenon

LEMMA EnsureNeighborKeeps ==
  ASSUME CountInv, NEW i \in Interfaces, EnsureNeighbor(i)
  PROVE  CountInv'
<1> DEFINE r == tbl.l3[i]
           n == tbl.nbrs[i]
           pc == IF r = None THEN "done" ELSE IF n \notin {None, r} THEN "stale_nbr"
                 ELSE "create_nbr"
           k == [Idle EXCEPT !.iface = i, !.rif = r, !.nbr = n]
           j == [k EXCEPT !.ok = r # None, !.pc = pc]
<1>1. "orch" \in Clients
  BY Zenon DEF Clients
<1>2. EmptyHanded(job["orch"])
  BY <1>1, CallFacts, Zenon DEF EnsureNeighbor, At, JobOK, Plain
<1>3. r \in OrNone(Rifs) /\ n \in OrNone(Rifs) /\ pc \in JobPcs /\ Idle \in Job
  BY <1>1, CallFacts, IdleIsOK, Zenon DEF TblType, JobPcs, OrchPcs, OrNone
<1>4. /\ job' = [job EXCEPT !["orch"] = j] /\ tbl' = tbl
      /\ asic' = asic /\ made' = made /\ faults' = faults
  BY Zenon DEF EnsureNeighbor, Becomes
<1>5. (r = None => pc = "done") /\ (r # None => r \in Rifs)
      /\ (pc = "stale_nbr" => n \in Rifs /\ r \in Rifs) /\ (pc = "create_nbr" => r \in Rifs)
      /\ pc \in {"done", "stale_nbr", "create_nbr"}
  BY <1>3, Zenon DEF OrNone
<1> HIDE DEF r, n, pc
<1>6. k \in Job
  BY <1>3, Zenon DEF Job, OrNone
<1>7. k.iface = i /\ k.rif = r /\ k.nbr = n /\ EmptyHanded(k)
  BY Zenon DEF Idle, EmptyHanded
<1> HIDE DEF k
<1>8. j \in Job
  BY <1>3, <1>6, Zenon DEF Job
<1>9. j.pc = pc /\ j.iface = i /\ j.rif = r /\ j.nbr = n /\ EmptyHanded(j)
  BY <1>6, <1>7, Zenon DEF Job, EmptyHanded
<1> HIDE DEF j
<1>10. JobOK("orch", j, tbl')
  BY <1>5, <1>9, Zenon DEF JobOK, Plain, Owned, Acquiring, Replacing, Releasing, OrchPcs
<1> QED
  BY <1>1, <1>2, <1>4, <1>8, <1>9, <1>10, CallFacts, SameTable, NbrStep, Zenon

LEMMA StaleNeighborKeeps ==
  ASSUME CountInv, StaleNeighbor
  PROVE  CountInv'
<1> DEFINE j == [job["orch"] EXCEPT !.pc = "create_nbr"]
<1>1. "orch" \in Clients
  BY Zenon DEF Clients
<1>2. /\ job["orch"].pc = "stale_nbr" /\ EmptyHanded(job["orch"])
      /\ job["orch"].iface \in Interfaces /\ job["orch"].rif \in Rifs
  BY <1>1, CallFacts, Zenon DEF StaleNeighbor, At, JobOK, Plain
<1>3. asic' \in AsicType /\ faults' \in Nat
  BY <1>1, CallFacts, DropNbrTypes, Zenon DEF StaleNeighbor
<1>4. job' = [job EXCEPT !["orch"] = j] /\ tbl' = tbl /\ made' = made
  BY Zenon DEF StaleNeighbor, Goto, Becomes
<1>5. j \in Job
  BY <1>1, CallFacts DEF Job, JobPcs, OrchPcs
<1>6. /\ j.pc = "create_nbr" /\ EmptyHanded(j)
      /\ j.iface = job["orch"].iface /\ j.rif = job["orch"].rif
  BY <1>1, <1>2, CallFacts, ZenonT(60) DEF Job, EmptyHanded
<1> HIDE DEF j
<1>7. JobOK("orch", j, tbl')
  BY <1>2, <1>6, Zenon DEF JobOK, Plain, Owned, Acquiring, Replacing, Releasing, OrchPcs
<1> QED
  BY <1>1, <1>2, <1>3, <1>4, <1>5, <1>6, <1>7, CallFacts, SameTable, NbrStep, Zenon

LEMMA CreateNeighborKeeps ==
  ASSUME CountInv, CreateNeighbor
  PROVE  CountInv'
<1> DEFINE r == job["orch"].rif
           i == job["orch"].iface
<1>1. "orch" \in Clients
  BY Zenon DEF Clients
<1>2. EmptyHanded(job["orch"]) /\ i \in Interfaces /\ r \in Rifs
  BY <1>1, CallFacts, Zenon DEF CreateNeighbor, At, JobOK, Plain
<1>3. PICK ok \in BOOLEAN :
        /\ Sai(r \in asic.rifs, ok)
        /\ \/ asic' = [asic EXCEPT !.nbrs = @ \cup {r}] /\ tbl' = [tbl EXCEPT !.nbrs[i] = r]
           \/ asic' = asic /\ tbl' = tbl
        /\ job' = [job EXCEPT !["orch"] = [Idle EXCEPT !.pc = "done", !.ok = ok]]
  BY Zenon DEF CreateNeighbor, Becomes
<1>4. faults' \in Nat /\ made' = made
  BY <1>1, <1>3, CallFacts, SaiFaults, Zenon DEF CreateNeighbor
<1> HIDE DEF r, i
<1>5. asic' \in AsicType
  BY <1>1, <1>2, <1>3, CallFacts DEF AsicType
<1>6. NbrTable(tbl')
  BY <1>1, <1>2, <1>3, CallFacts, NbrWritten, SameTable
<1> DEFINE j == [Idle EXCEPT !.pc = "done", !.ok = ok]
<1>7. j \in Job /\ EmptyHanded(j) /\ JobOK("orch", j, tbl')
  BY DoneIsOK, Zenon
<1>8. job' = [job EXCEPT !["orch"] = j]
  BY <1>3, Zenon
<1> HIDE DEF j
<1> QED
  BY <1>1, <1>2, <1>4, <1>5, <1>6, <1>7, <1>8, NbrStep, Zenon

LEMMA RemoveNeighborKeeps ==
  ASSUME CountInv, NEW i \in Interfaces, RemoveNeighbor(i)
  PROVE  CountInv'
<1> DEFINE r == tbl.nbrs[i]
           pc == IF r = None THEN "done" ELSE "drop_nbr"
           j == [Idle EXCEPT !.iface = i, !.rif = r, !.pc = pc]
<1>1. "orch" \in Clients
  BY Zenon DEF Clients
<1>2. EmptyHanded(job["orch"])
  BY <1>1, CallFacts, Zenon DEF RemoveNeighbor, At, JobOK, Plain
<1>3. r \in OrNone(Rifs) /\ pc \in JobPcs /\ Idle \in Job
  BY <1>1, CallFacts, IdleIsOK, Zenon DEF TblType, JobPcs, OrchPcs, OrNone
<1>4. /\ job' = [job EXCEPT !["orch"] = j] /\ tbl' = [tbl EXCEPT !.nbrs[i] = None]
      /\ asic' = asic /\ made' = made /\ faults' = faults
  BY Zenon DEF RemoveNeighbor, Becomes
<1>5. (pc = "drop_nbr" => r \in Rifs) /\ pc \in {"done", "drop_nbr"}
  BY <1>3, Zenon DEF OrNone
<1>6. NbrTable(tbl')
  BY <1>1, <1>4, CallFacts, NbrWritten, Zenon
<1> HIDE DEF r, pc
<1>7. j \in Job
  BY <1>3, Zenon DEF Job, OrNone
<1>8. j.pc = pc /\ j.rif = r /\ EmptyHanded(j)
  BY Zenon DEF Idle, EmptyHanded
<1> HIDE DEF j
<1>9. JobOK("orch", j, tbl')
  BY <1>5, <1>8, Zenon DEF JobOK, Plain, Owned, Acquiring, Replacing, Releasing, OrchPcs
<1> QED
  BY <1>1, <1>2, <1>4, <1>6, <1>7, <1>8, <1>9, CallFacts, NbrStep, Zenon

LEMMA DropNeighborKeeps ==
  ASSUME CountInv, NEW c \in Clients, DropNeighbor(c)
  PROVE  CountInv'
<1> DEFINE pc == IF c = "orch" THEN "done" ELSE "remove_rif"
           j == [job[c] EXCEPT !.pc = pc]
<1>1. job[c].pc = "drop_nbr" /\ EmptyHanded(job[c]) /\ Owned(c, job[c])
  BY CallFacts, Zenon DEF DropNeighbor, At, JobOK, Plain
<1>2. asic' \in AsicType /\ faults' \in Nat
  BY CallFacts, DropNbrTypes, Zenon DEF DropNeighbor
<1>3. job' = [job EXCEPT ![c] = j] /\ tbl' = tbl /\ made' = made
  BY Zenon DEF DropNeighbor, Goto, Becomes
<1>4. pc \in JobPcs
  BY Zenon DEF JobPcs, OrchPcs, MgmtdPcs
<1> HIDE DEF pc
<1>5. j \in Job
  BY <1>4, CallFacts DEF Job
<1>6. /\ j.pc = pc /\ EmptyHanded(j) /\ j.iface = job[c].iface /\ j.rif = job[c].rif
      /\ j.todo = job[c].todo /\ j.held = job[c].held
  BY <1>1, CallFacts, ZenonT(60) DEF Job, EmptyHanded
<1> HIDE DEF j
<1>7. JobOK(c, j, tbl')
  BY <1>1, <1>6, Zenon DEF JobOK, Plain, Owned, Acquiring, Replacing, Releasing, OrchPcs, MgmtdPcs,
                    pc, Clients
<1> QED
  BY <1>1, <1>2, <1>3, <1>5, <1>6, <1>7, CallFacts, SameTable, NbrStep, Zenon

LEMMA SetAddressKeeps ==
  ASSUME CountInv, NEW i \in Interfaces, SetAddress(i)
  PROVE  CountInv'
<1> DEFINE r == <<i, made[i] + 1>>
           j == [Idle EXCEPT !.iface = i, !.rif = r, !.pc = "bind"]
<1>1. "mgmtd" \in Clients
  BY Zenon DEF Clients
<1>2. EmptyHanded(job["mgmtd"])
  BY <1>1, CallFacts, Zenon DEF SetAddress, At, JobOK, Plain
<1>3. made[i] \in 1..MaxRifs /\ made[i] < MaxRifs /\ MaxRifs \in Nat
  BY <1>1, CallFacts, FibAssumption, Zenon DEF SetAddress
<1>4. r \in Rifs /\ r[1] = i
  BY <1>3 DEF Rifs
<1>5. made' \in [Interfaces -> 1..MaxRifs]
  BY <1>1, <1>3, CallFacts DEF SetAddress
<1>6. /\ job' = [job EXCEPT !["mgmtd"] = j] /\ tbl' = tbl /\ faults' = faults
      /\ asic' = [asic EXCEPT !.rifs = @ \cup {r}]
  BY Zenon DEF SetAddress, Becomes
<1> HIDE DEF r
<1>7. asic' \in AsicType
  BY <1>1, <1>4, <1>6, CallFacts, Zenon DEF AsicType
<1>8. j \in Job
  BY <1>4, IdleIsOK, ZenonT(60) DEF Job, OrNone, JobPcs, MgmtdPcs
<1>9. /\ j.pc = "bind" /\ j.iface = i /\ j.rif = r /\ j.todo = {} /\ EmptyHanded(j)
  BY Zenon DEF Idle, EmptyHanded
<1> HIDE DEF j
<1>10. JobOK("mgmtd", j, tbl')
  BY <1>4, <1>9, Zenon DEF JobOK, Plain, Owned, EmptyHanded, Acquiring, Replacing, Releasing, MgmtdPcs
<1>11. RifsOK'
  BY <1>1, <1>6, CallFacts, Zenon DEF RifsOK
<1> QED
  BY <1>1, <1>2, <1>5, <1>6, <1>7, <1>8, <1>9, <1>10, <1>11, CallFacts, EmptyHandedStep, Zenon

LEMMA ClearAddressKeeps ==
  ASSUME CountInv, NEW i \in Interfaces, ClearAddress(i)
  PROVE  CountInv'
<1> DEFINE r == tbl.l3[i]
           ps == {p \in Dests : RidesRif(p, r)}
           n == IF tbl.nbrs[i] = r THEN r ELSE None
           k == [Idle EXCEPT !.iface = i, !.rif = r, !.pc = "teardown"]
           j == [k EXCEPT !.todo = ps, !.nbr = n]
<1>1. "mgmtd" \in Clients
  BY Zenon DEF Clients
<1>2. EmptyHanded(job["mgmtd"])
  BY <1>1, CallFacts, Zenon DEF ClearAddress, At, JobOK, Plain
<1>3. r \in Rifs /\ r[1] = i
  BY <1>1, CallFacts, Zenon DEF ClearAddress, TblType, RifsOK
<1>4. n \in OrNone(Rifs) /\ ps \subseteq Dests
  BY <1>3, Zenon DEF OrNone
<1>5. /\ job' = [job EXCEPT !["mgmtd"] = j] /\ tbl' = tbl /\ faults' = faults
      /\ asic' = asic /\ made' = made
  BY Zenon DEF ClearAddress, Becomes
<1> HIDE DEF r, ps, n
<1>6. k \in Job
  BY <1>3, IdleIsOK, ZenonT(60) DEF Job, OrNone, JobPcs, MgmtdPcs
<1>7. k.pc = "teardown" /\ k.iface = i /\ k.rif = r /\ EmptyHanded(k)
  BY Zenon DEF Idle, EmptyHanded
<1> HIDE DEF k
<1>8. j \in Job
  BY <1>4, <1>6, Zenon DEF Job, Todos
<1>9. /\ j.pc = "teardown" /\ j.iface = i /\ j.rif = r /\ j.todo = ps /\ EmptyHanded(j)
  BY <1>6, <1>7, Zenon DEF Job, EmptyHanded
<1> HIDE DEF j
<1>10. JobOK("mgmtd", j, tbl')
  BY <1>3, <1>4, <1>9, Zenon
     DEF JobOK, Plain, Owned, EmptyHanded, Acquiring, Replacing, Releasing, MgmtdPcs
<1> QED
  BY <1>1, <1>2, <1>5, <1>8, <1>9, <1>10, CallFacts, SameTable, NbrStep, Zenon

LEMMA TeardownRouteKeeps ==
  ASSUME CountInv, TeardownRoute
  PROVE  CountInv'
<1> DEFINE p == CHOOSE x \in job["mgmtd"].todo : TRUE
           left == job["mgmtd"].todo \ {p}
           k == [job["mgmtd"] EXCEPT !.todo = left]
           old == tbl.routes[p]
           j == IF old = None THEN k
                ELSE [k EXCEPT !.pc = "withdraw", !.prefix = p, !.old = old]
<1>1. "mgmtd" \in Clients
  BY Zenon DEF Clients
<1>2. /\ job["mgmtd"].pc = "teardown" /\ job["mgmtd"].todo # {}
      /\ EmptyHanded(job["mgmtd"]) /\ Owned("mgmtd", job["mgmtd"]) /\ job["mgmtd"] \in Job
  BY <1>1, CallFacts, Zenon DEF TeardownRoute, At, JobOK, Plain
<1>3. p \in Dests /\ left \subseteq Dests
  BY <1>2, Zenon DEF Owned
<1>4. /\ job' = [job EXCEPT !["mgmtd"] = j] /\ tbl' = [tbl EXCEPT !.routes[p] = None]
      /\ asic' = asic /\ made' = made /\ faults' = faults
  BY Zenon DEF TeardownRoute, Becomes
<1> HIDE DEF p, left
<1>5. /\ tbl' \in TblType /\ tbl'.routes = [tbl.routes EXCEPT ![p] = None]
      /\ tbl'.hops = tbl.hops /\ tbl'.groups = tbl.groups /\ tbl'.l3 = tbl.l3
  <2>1. tbl \in TblType
    BY <1>1, CallFacts, Zenon
  <2> HIDE DEF j
  <2> QED
    BY <1>3, <1>4, <2>1, Zenon DEF TblType
<1>6. k \in Job
  BY <1>2, <1>3, Zenon DEF Job, Todos
<1>7. /\ k.pc = "teardown" /\ k.todo = left /\ EmptyHanded(k)
      /\ k.iface = job["mgmtd"].iface /\ k.rif = job["mgmtd"].rif
  BY <1>2, Zenon DEF Job, EmptyHanded
<1> HIDE DEF k
<1>8. old \in Held \cup {None}
  BY <1>1, <1>3, CallFacts, Zenon DEF TblType
<1>9. CASE old = None
  <2>1. j = k
    BY <1>9, Zenon
  <2>2. JobOK("mgmtd", k, tbl')
    BY <1>2, <1>3, <1>7, Zenon
       DEF JobOK, Plain, Owned, EmptyHanded, Acquiring, Replacing, Releasing, MgmtdPcs
  <2> QED
    BY <1>1, <1>2, <1>3, <1>4, <1>5, <1>6, <1>7, <1>9, <2>1, <2>2, TakenRecord, ZenonT(60)
       DEF EmptyHanded
<1>10. CASE old # None
  <2> DEFINE m == [k EXCEPT !.pc = "withdraw", !.prefix = p, !.old = old]
  <2> HIDE DEF old
  <2>1. m \in Job
    BY <1>3, <1>6, <1>8, <1>10, Zenon DEF Job, JobPcs, MgmtdPcs, OrNone
  <2>2. /\ m.pc = "withdraw" /\ m.prefix = p /\ m.old = old /\ m.held = Nothing
        /\ m.todo = left /\ m.iface = job["mgmtd"].iface /\ m.rif = job["mgmtd"].rif
    BY <1>6, <1>7, Zenon DEF Job, EmptyHanded
  <2>3. j = m
    BY <1>10, Zenon
  <2> HIDE DEF m, j
  <2>4. JobOK("mgmtd", m, tbl')
    BY <1>2, <1>3, <2>2, Zenon
       DEF JobOK, Plain, Owned, EmptyHanded, Acquiring, Replacing, Releasing, MgmtdPcs
  <2> QED
    BY <1>1, <1>2, <1>3, <1>4, <1>5, <1>10, <2>1, <2>2, <2>3, <2>4, TakenRecord, ZenonT(60)
       DEF EmptyHanded, old
<1> QED
  BY <1>9, <1>10, Zenon

LEMMA TeardownNeighborKeeps ==
  ASSUME CountInv, TeardownNeighbor
  PROVE  CountInv'
<1>1. "mgmtd" \in Clients
  BY Zenon DEF Clients
<1>2. /\ job["mgmtd"].pc = "teardown" /\ EmptyHanded(job["mgmtd"])
      /\ Owned("mgmtd", job["mgmtd"]) /\ job["mgmtd"] \in Job
  BY <1>1, CallFacts, Zenon DEF TeardownNeighbor, At, JobOK, Plain
<1>3. PICK pc \in {"remove_rif", "drop_nbr"} :
        job' = [job EXCEPT !["mgmtd"] = [job["mgmtd"] EXCEPT !.pc = pc]]
  BY Zenon DEF TeardownNeighbor, Goto, Becomes
<1>4. NbrTable(tbl')
  <2> DEFINE i == job["mgmtd"].iface
  <2>1. tbl \in TblType /\ i \in Interfaces /\ None \in Rifs \cup {None}
    BY <1>1, <1>2, CallFacts, Zenon DEF Owned
  <2>2. tbl' = tbl \/ tbl' = [tbl EXCEPT !.nbrs[i] = None]
    BY Zenon DEF TeardownNeighbor
  <2> HIDE DEF i
  <2>3. CASE tbl' = tbl
    BY <2>1, <2>3, SameTable, Zenon
  <2>4. CASE tbl' = [tbl EXCEPT !.nbrs[i] = None]
    BY <2>1, <2>4, NbrWritten, Zenon
  <2> QED
    BY <2>2, <2>3, <2>4
<1> DEFINE j == [job["mgmtd"] EXCEPT !.pc = pc]
<1>5. j \in Job
  BY <1>2, Zenon DEF Job, JobPcs, MgmtdPcs
<1>6. /\ j.pc = pc /\ EmptyHanded(j) /\ j.iface = job["mgmtd"].iface
      /\ j.rif = job["mgmtd"].rif /\ j.todo = job["mgmtd"].todo
  BY <1>2, Zenon DEF Job, EmptyHanded
<1>7. job' = [job EXCEPT !["mgmtd"] = j] /\ asic' = asic /\ made' = made /\ faults' = faults
  BY <1>3, Zenon DEF TeardownNeighbor
<1> HIDE DEF j
<1>8. JobOK("mgmtd", j, tbl')
  BY <1>2, <1>6, Zenon
     DEF JobOK, Plain, Owned, EmptyHanded, Acquiring, Replacing, Releasing, MgmtdPcs
<1> QED
  BY <1>1, <1>2, <1>4, <1>5, <1>6, <1>7, <1>8, CallFacts, NbrStep, ZenonT(60)

LEMMA RemoveRifKeeps ==
  ASSUME CountInv, RemoveRif
  PROVE  CountInv'
<1> DEFINE k == [job["mgmtd"] EXCEPT !.pc = "bind"]
<1>1. "mgmtd" \in Clients
  BY Zenon DEF Clients
<1>2. /\ EmptyHanded(job["mgmtd"]) /\ job["mgmtd"].pc = "remove_rif"
      /\ Owned("mgmtd", job["mgmtd"]) /\ job["mgmtd"] \in Job
  BY <1>1, CallFacts, Zenon DEF RemoveRif, At, JobOK, Plain
<1>3. asic' \in AsicType
  BY <1>1, CallFacts DEF RemoveRif, AsicType
<1>4. faults' \in Nat /\ tbl' = tbl /\ made' = made
  BY <1>1, CallFacts, SaiFaults, Zenon DEF RemoveRif
<1>5. PICK j \in {k, Idle} : job' = [job EXCEPT !["mgmtd"] = j]
  BY Zenon DEF RemoveRif, Becomes
<1>6. k \in Job
  BY <1>2, Zenon DEF Job, JobPcs, MgmtdPcs
<1>7. /\ k.pc = "bind" /\ EmptyHanded(k) /\ k.iface = job["mgmtd"].iface
      /\ k.rif = job["mgmtd"].rif /\ k.todo = job["mgmtd"].todo
  BY <1>2, Zenon DEF Job, EmptyHanded
<1> HIDE DEF k
<1>8. JobOK("mgmtd", k, tbl')
  BY <1>2, <1>7, Zenon
     DEF JobOK, Plain, Owned, EmptyHanded, Acquiring, Replacing, Releasing, MgmtdPcs
<1>9. j \in Job /\ EmptyHanded(j) /\ JobOK("mgmtd", j, tbl')
  BY <1>1, <1>6, <1>7, <1>8, IdleIsOK, Zenon
<1> QED
  BY <1>1, <1>2, <1>3, <1>4, <1>5, <1>9, CallFacts, SameTable, NbrStep, Zenon

LEMMA BindKeeps ==
  ASSUME CountInv, Bind
  PROVE  CountInv'
<1> DEFINE i == job["mgmtd"].iface
           r == IF job["mgmtd"].rif \in asic.rifs THEN job["mgmtd"].rif ELSE None
<1>1. "mgmtd" \in Clients
  BY Zenon DEF Clients
<1>2. EmptyHanded(job["mgmtd"]) /\ i \in Interfaces /\ r \in Rifs \cup {None}
      /\ (r # None => r[1] = i)
  BY <1>1, CallFacts, Zenon DEF Bind, At, JobOK, Plain, Owned
<1>3. tbl' = [tbl EXCEPT !.l3[i] = r] /\ job' = [job EXCEPT !["mgmtd"] = Idle]
      /\ asic' = asic /\ made' = made /\ faults' = faults
  BY Zenon DEF Bind, Becomes
<1> HIDE DEF i, r
<1>4. /\ tbl' \in TblType /\ tbl'.l3 = [tbl.l3 EXCEPT ![i] = r] /\ tbl'.hops = tbl.hops
      /\ tbl'.groups = tbl.groups /\ tbl'.routes = tbl.routes
  <2>1. tbl \in TblType
    BY <1>1, CallFacts, Zenon
  <2> QED
    BY <1>2, <1>3, <2>1, Zenon DEF TblType
<1>5. RifsOK'
  <2>1. tbl.l3 \in [Interfaces -> Rifs \cup {None}] /\ RifsOK
    BY <1>1, CallFacts, Zenon DEF TblType
  <2> QED
    BY <1>2, <1>4, <2>1, ZenonT(60) DEF RifsOK
<1>6. Idle \in Job /\ EmptyHanded(Idle) /\ JobOK("mgmtd", Idle, tbl')
  BY <1>1, IdleIsOK, Zenon
<1> QED
  BY <1>1, <1>2, <1>3, <1>4, <1>5, <1>6, CallFacts, EmptyHandedStep, ZenonT(60)

-----------------------------------------------------------------------------
(* The steps that take and release references                              *)

\* A step that changes the references on one object alone.
LEMMA OneObjectMoves ==
  ASSUME FibTypeOK, NEW c \in Clients, NEW j \in Job, Becomes(c, j),
         tbl'.routes = tbl.routes, NEW o \in Objects, NEW n \in Nat,
         n + Hand(job[c], o) = References(o[1], o[2]) + Hand(j, o),
         \A x \in Objects : x # o => Hand(j, x) = Hand(job[c], x)
  PROVE  /\ References(o[1], o[2])' = n
         /\ \A x \in Objects : x # o => References(x[1], x[2])' = References(x[1], x[2])
<1>1. \A x \in Objects :
        /\ References(x[1], x[2])' + Hand(job[c], x) = References(x[1], x[2]) + Hand(j, x)
        /\ References(x[1], x[2])' \in Nat /\ References(x[1], x[2]) \in Nat
  <2> TAKE x \in Objects
  <2> DEFINE Ref == References(x[1], x[2])
             rec == Recorded(tbl, x)
  <2>1. Recorded(tbl', x) = rec /\ rec \in Nat
    BY RecordedIsNat, Zenon DEF Recorded, FibTypeOK
  <2>2. Ref' + rec + Hand(job[c], x) = Ref + Recorded(tbl', x) + Hand(j, x) /\ Ref' \in Nat
    BY ReferencesMove, Zenon DEF Becomes
  <2>3. Ref \in Nat
    BY ReferencesSplit, Zenon
  <2>4. Hand(job[c], x) \in 0..2 /\ Hand(j, x) \in 0..2
    BY HandIsNat, Zenon
  <2> HIDE DEF Ref, rec
  <2>5. Ref' + Hand(job[c], x) = Ref + Hand(j, x)
    BY <2>1, <2>2, <2>3, <2>4
  <2> QED
    BY <2>2, <2>3, <2>5, Zenon DEF Ref
<1>2. \A x : Hand(job[c], x) \in 0..2 /\ Hand(j, x) \in 0..2
  BY HandIsNat, Zenon
<1> QED
  BY <1>1, <1>2

\* Client c goes on as j, holding one next hop r more or fewer, of which n
\* references are left; the rest of the table stays.
HopMove(c, j, r, n) ==
  /\ tbl'.routes = tbl.routes /\ tbl'.groups = tbl.groups /\ tbl'.l3 = tbl.l3
  /\ \A q \in Rifs : q # r => tbl'.hops[q] = tbl.hops[q]
  /\ c = "orch" \/ (tbl.hops[r] = None => tbl'.hops[r] = None)
  /\ n + Hand(job[c], <<"hop", r>>) = References("hop", r) + Hand(j, <<"hop", r>>)
  /\ \A x \in Objects : x # <<"hop", r>> => Hand(j, x) = Hand(job[c], x)
  /\ IF n = 0 THEN tbl'.hops[r] = None ELSE tbl'.hops[r] # None /\ tbl'.hops[r].refs = n

LEMMA HopStep ==
  ASSUME CountInv, NEW c \in Clients, NEW j \in Job, NEW r \in Rifs, NEW n \in Nat,
         HopMove(c, j, r, n), Becomes(c, j), JobOK(c, j, tbl'),
         tbl' \in TblType, asic' \in AsicType, made' = made, faults' \in Nat
  PROVE  CountInv'
<1> USE DEF HopMove
<1> DEFINE o == <<"hop", r>>
<1>1. FibTypeOK /\ JobsOK /\ RifsOK /\ HopCounts /\ GroupCounts /\ o \in Objects
  BY Zenon DEF CountInv, Objects
<1>2. FibTypeOK'
  BY <1>1, Zenon DEF FibTypeOK, Becomes
<1>3. JobsOK'
  BY <1>1, OtherCallsKept, Zenon DEF Becomes
<1>4. RifsOK'
  BY <1>1, Zenon DEF RifsOK
<1>5. n + Hand(job[c], o) = References(o[1], o[2]) + Hand(j, o)
  BY Zenon
<1>6. /\ References(o[1], o[2])' = n
      /\ \A x \in Objects : x # o => References(x[1], x[2])' = References(x[1], x[2])
  BY <1>1, <1>5, OneObjectMoves, ZenonT(60)
<1>7. References("hop", r)' = n
  BY <1>6, Zenon
<1>8. \A q \in Rifs : q # r => References("hop", q)' = References("hop", q)
  <2> TAKE q \in Rifs
  <2> HAVE q # r
  <2> DEFINE x == <<"hop", q>>
  <2>1. x \in Objects /\ x # o
    BY Zenon DEF Objects
  <2>2. References(x[1], x[2])' = References(x[1], x[2])
    BY <1>6, <2>1, Zenon
  <2> QED
    BY <2>2, Zenon
<1>9. \A k \in Keys : References("group", k)' = References("group", k)
  <2> TAKE k \in Keys
  <2> DEFINE x == <<"group", k>>
  <2>1. x \in Objects /\ x # o
    BY Zenon DEF Objects
  <2>2. References(x[1], x[2])' = References(x[1], x[2])
    BY <1>6, <2>1, Zenon
  <2> QED
    BY <2>2, Zenon
<1>10. HopCounts'
  BY <1>1, <1>7, <1>8, ZenonT(60) DEF HopCounts
<1>11. \A g \in tbl.groups : g.key \in Keys
  BY <1>1, Zenon DEF FibTypeOK, TblType, Group
<1>12. GroupCounts'
  BY <1>1, <1>9, <1>11 DEF GroupCounts
<1> QED
  BY <1>2, <1>3, <1>4, <1>10, <1>12, Zenon DEF CountInv

\* The references when one more or one fewer is held on a group.
LEMMA GroupReferences ==
  ASSUME FibTypeOK, NEW c \in Clients, NEW j \in Job, Becomes(c, j),
         tbl'.routes = tbl.routes, NEW k \in Keys, NEW n \in Nat,
         n + Hand(job[c], <<"group", k>>) = References("group", k) + Hand(j, <<"group", k>>),
         \A x \in Objects : x # <<"group", k>> => Hand(j, x) = Hand(job[c], x)
  PROVE  /\ References("group", k)' = n
         /\ \A l \in Keys : l # k => References("group", l)' = References("group", l)
         /\ \A r \in Rifs : References("hop", r)' = References("hop", r)
<1> DEFINE o == <<"group", k>>
<1>1. o \in Objects
  BY Zenon DEF Objects
<1>2. n + Hand(job[c], o) = References(o[1], o[2]) + Hand(j, o)
  BY Zenon
<1>3. /\ References(o[1], o[2])' = n
      /\ \A x \in Objects : x # o => References(x[1], x[2])' = References(x[1], x[2])
  BY <1>1, <1>2, OneObjectMoves
<1>4. References("group", k)' = n
  BY <1>3, Zenon
<1>5. \A l \in Keys : l # k => References("group", l)' = References("group", l)
  <2> TAKE l \in Keys
  <2> HAVE l # k
  <2> DEFINE x == <<"group", l>>
  <2>1. x \in Objects /\ x # o
    BY Zenon DEF Objects
  <2>2. References(x[1], x[2])' = References(x[1], x[2])
    BY <1>3, <2>1, Zenon
  <2> QED
    BY <2>2, Zenon
<1>6. \A r \in Rifs : References("hop", r)' = References("hop", r)
  <2> TAKE r \in Rifs
  <2> DEFINE x == <<"hop", r>>
  <2>1. x \in Objects /\ x # o
    BY Zenon DEF Objects
  <2>2. References(x[1], x[2])' = References(x[1], x[2])
    BY <1>3, <2>1, Zenon
  <2> QED
    BY <2>2, Zenon
<1> QED
  BY <1>4, <1>5, <1>6, Zenon

\* The groups change in the one with key k, which has n references then.
GroupsMove(gs, hs, k, n) ==
  /\ {g \in hs : g.key # k} = {g \in gs : g.key # k}
  /\ n # 0 => \E g \in hs : g.key = k
  /\ \A g \in hs : g.key = k => g.refs = n /\ n # 0
  /\ \A g, h \in hs : g.key = k /\ h.key = k => g = h

\* The same for a group of next hops with the key k.
KeyMove(c, j, k, n) ==
  /\ tbl'.routes = tbl.routes /\ tbl'.hops = tbl.hops /\ tbl'.l3 = tbl.l3
  /\ n + Hand(job[c], <<"group", k>>) = References("group", k) + Hand(j, <<"group", k>>)
  /\ \A x \in Objects : x # <<"group", k>> => Hand(j, x) = Hand(job[c], x)
  /\ GroupsMove(tbl.groups, tbl'.groups, k, n)
  /\ c = "orch" \/ \E g \in tbl.groups : g.key = k

LEMMA GroupStep ==
  ASSUME CountInv, NEW c \in Clients, NEW j \in Job, NEW k \in Keys, NEW n \in Nat,
         KeyMove(c, j, k, n), Becomes(c, j), JobOK(c, j, tbl'),
         tbl' \in TblType, asic' \in AsicType, made' = made, faults' \in Nat
  PROVE  CountInv'
<1> USE DEF KeyMove
<1> DEFINE o == <<"group", k>>
<1>1. FibTypeOK /\ JobsOK /\ RifsOK /\ HopCounts /\ GroupCounts /\ o \in Objects
  BY Zenon DEF CountInv, Objects
<1>2. FibTypeOK'
  BY <1>1, Zenon DEF FibTypeOK, Becomes
<1>3. JobsOK'
  <2>1. /\ \A r \in Rifs : tbl.hops[r] = None => tbl'.hops[r] = None
        /\ \A p \in Dests : tbl.routes[p] = None => tbl'.routes[p] = None
    BY Zenon
  <2>2. c = "orch" \/ \A g \in tbl'.groups : \E h \in tbl.groups : g.key = h.key
    BY Zenon DEF GroupsMove
  <2> QED
    BY <1>1, <2>1, <2>2, OtherCallsKept, Zenon DEF Becomes
<1>4. RifsOK'
  BY <1>1, Zenon DEF RifsOK
<1>7. References("group", k)' = n
  BY <1>1, GroupReferences
<1>8. \A l \in Keys : l # k => References("group", l)' = References("group", l)
  BY <1>1, GroupReferences
<1>9. \A r \in Rifs : References("hop", r)' = References("hop", r)
  BY <1>1, GroupReferences
<1>10. HopCounts'
  BY <1>1, <1>9, Zenon DEF HopCounts
<1>o. /\ \A g : g.key # k => (g \in tbl'.groups <=> g \in tbl.groups)
      /\ n # 0 => \E g \in tbl'.groups : g.key = k
      /\ \A g \in tbl'.groups : g.key = k => g.refs = n /\ n # 0
      /\ \A g, h \in tbl'.groups : g.key = k /\ h.key = k => g = h
  BY Zenon DEF GroupsMove
<1>11. \A g \in tbl'.groups : g.key \in Keys
  BY Zenon DEF TblType, Group
<1>12. GroupCounts'
  <2>1. \A g, h \in tbl'.groups : g.key = h.key => g = h
    BY <1>1, <1>o DEF GroupCounts
  <2>2. \A g \in tbl'.groups : g.refs = References("group", g.key)' /\ g.refs # 0
    <3> TAKE g \in tbl'.groups
    <3>1. CASE g.key = k
      BY <1>7, <1>o, <3>1, ZenonT(60)
    <3>2. CASE g.key # k
      BY <1>1, <1>8, <1>11, <1>o, <3>2 DEF GroupCounts
    <3> QED
      BY <3>1, <3>2, Zenon
  <2>3. \A l \in Keys : References("group", l)' # 0 => \E g \in tbl'.groups : g.key = l
    BY <1>1, <1>7, <1>8, <1>o, Zenon DEF GroupCounts
  <2> QED
    BY <2>1, <2>2, <2>3, Zenon DEF GroupCounts
<1> QED
  BY <1>2, <1>3, <1>4, <1>10, <1>12, Zenon DEF CountInv

\* One next hop, or the group, more in hand.
LEMMA HopInHand ==
  ASSUME NEW j \in Job, NEW k \in Job, NEW r \in Rifs, r \notin j.held.hops,
         k.held = WithHop(j.held, r), k.old = j.old
  PROVE  /\ Hand(k, <<"hop", r>>) = Hand(j, <<"hop", r>>) + 1
         /\ \A x \in Objects : x # <<"hop", r>> => Hand(k, x) = Hand(j, x)
<1>1. k.held.hops = j.held.hops \cup {r} /\ k.held.group = j.held.group
  BY Zenon DEF WithHop, Job, Held
<1>2. Hand(k, <<"hop", r>>) = Hand(j, <<"hop", r>>) + 1
  BY <1>1 DEF Hand, One, Holds
<1>3. ASSUME NEW x \in Objects, x # <<"hop", r>>
      PROVE  Holds(k.held, x[1], x[2]) <=> Holds(j.held, x[1], x[2])
  BY <1>1, <1>3 DEF Holds, Objects
<1>4. \A x \in Objects : x # <<"hop", r>> => Hand(k, x) = Hand(j, x)
  BY <1>3, Zenon DEF Hand, One
<1> QED
  BY <1>2, <1>4, Zenon

LEMMA GroupInHand ==
  ASSUME NEW j \in Job, NEW k \in Job, NEW key \in Keys, j.held.group = {},
         k.held = WithGroup(j.held, key), k.old = j.old
  PROVE  /\ Hand(k, <<"group", key>>) = Hand(j, <<"group", key>>) + 1
         /\ \A x \in Objects : x # <<"group", key>> => Hand(k, x) = Hand(j, x)
<1>1. k.held.hops = j.held.hops /\ k.held.group = key
  BY Zenon DEF WithGroup, Job, Held
<1>2. Hand(k, <<"group", key>>) = Hand(j, <<"group", key>>) + 1
  BY <1>1 DEF Hand, One, Holds, Keys
<1>3. ASSUME NEW x \in Objects, x # <<"group", key>>
      PROVE  Holds(k.held, x[1], x[2]) <=> Holds(j.held, x[1], x[2])
  BY <1>1, <1>3 DEF Holds, Objects, Keys
<1>4. \A x \in Objects : x # <<"group", key>> => Hand(k, x) = Hand(j, x)
  BY <1>3, Zenon DEF Hand, One
<1> QED
  BY <1>2, <1>4, Zenon

\* A call that owes less has less in hand.
LEMMA PaidHand ==
  ASSUME NEW c \in Clients, NEW j \in Job, NEW rec \in Held, Owned(c, j)
  PROVE  LET k == Paid(j, rec)
         IN  /\ k \in Job /\ Owned(c, k) /\ k.then = j.then
             /\ \A o : Hand(k, o) + One(Holds(Owed(j), o[1], o[2]))
                         = Hand(j, o) + One(Holds(rec, o[1], o[2]))
<1> DEFINE k == Paid(j, rec)
<1>1. k \in Job
  BY Zenon DEF Paid, Job
<1>2. k.then = j.then /\ k.iface = j.iface /\ k.rif = j.rif /\ k.todo = j.todo
  BY Zenon DEF Paid, Job
<1>3. \/ j.held # Nothing /\ k.held = rec /\ k.old = j.old /\ Owed(j) = j.held
      \/ j.held = Nothing /\ k.held = j.held /\ k.old = rec /\ Owed(j) = j.old
  BY Zenon DEF Paid, Job, Owed
<1> HIDE DEF k
<1>4. Owned(c, k)
  BY <1>2, <1>3, Zenon DEF Owned
<1>5. \A b : One(b) \in Nat
  BY Zenon DEF One
<1>6. \A o : Hand(k, o) + One(Holds(Owed(j), o[1], o[2]))
               = Hand(j, o) + One(Holds(rec, o[1], o[2]))
  BY <1>3, <1>5 DEF Hand
<1> QED
  BY <1>1, <1>2, <1>4, <1>6, Zenon DEF k

\* The references on an object are a number, and what is held is counted.
LEMMA HopReferences ==
  ASSUME CountInv, NEW r \in Rifs
  PROVE  /\ References("hop", r) \in Nat
         /\ tbl.hops[r] # None => /\ References("hop", r) # 0
                                  /\ tbl.hops[r].refs = References("hop", r)
                                  /\ tbl.hops[r] \in Entry
         /\ tbl.hops[r] = None => References("hop", r) = 0
<1> DEFINE o == <<"hop", r>>
<1>1. o \in Objects /\ FibTypeOK /\ HopCounts
  BY Zenon DEF CountInv, Objects
<1>2. References(o[1], o[2]) \in Nat
  BY <1>1, ReferencesSplit, Zenon
<1>3. tbl.hops \in [Rifs -> Entry \cup {None}]
  BY <1>1, Zenon DEF FibTypeOK, TblType
<1> QED
  BY <1>1, <1>2, <1>3, Zenon DEF HopCounts

LEMMA TakeHopKeeps ==
  ASSUME CountInv, TakeHop
  PROVE  CountInv'
<1> DEFINE q == job["orch"]
           i == CHOOSE x \in q.todo : TRUE
           r == tbl.l3[i]
           j == [q EXCEPT !.todo = @ \ {i}]
<1>1. "orch" \in Clients
  BY Zenon DEF Clients
<1>2. q.pc = "hops" /\ q.todo # {} /\ q \in Job /\ JobOK("orch", q, tbl)
  BY <1>1, CallFacts, Zenon DEF TakeHop, At
<1>3. i \in q.todo
  BY <1>2, Zenon
<1> HIDE DEF i
<1>4. /\ q.old = Nothing /\ q.held.group = {} /\ q.prefix \in Dests /\ Sane(q.route)
      /\ q.todo \subseteq Interfaces /\ q.todo \subseteq q.route.hops
      /\ Ifaces(q.held.hops) = q.route.hops \ q.todo
  BY <1>2, Zenon DEF JobOK, Acquiring
<1>5. i \in Interfaces /\ (r # None => r \in Rifs /\ r[1] = i)
  <2>1. tbl.l3 \in [Interfaces -> Rifs \cup {None}] /\ RifsOK
    BY <1>1, CallFacts, Zenon DEF TblType
  <2> QED
    BY <1>3, <1>4, <2>1, Zenon DEF RifsOK
<1>6. j \in Job
  <2>1. q.todo \ {i} \in Todos
    BY <1>4, Zenon DEF Todos
  <2> QED
    BY <1>2, <2>1, Zenon DEF Job
<1>7. /\ j.held = q.held /\ j.old = q.old /\ j.todo = q.todo \ {i} /\ j.pc = q.pc
      /\ j.prefix = q.prefix /\ j.route = q.route
  BY <1>2, Zenon DEF Job
<1>8. asic' = asic /\ made' = made /\ faults' = faults
  BY Zenon DEF TakeHop
<1>9. \/ r = None /\ Becomes("orch", ReleaseThen(j, "done", FALSE)) /\ tbl' = tbl
      \/ /\ r # None /\ tbl.hops[r] = None /\ tbl' = tbl
         /\ Becomes("orch", [j EXCEPT !.pc = "create_hop", !.rif = r])
      \/ /\ r # None /\ tbl.hops[r] # None
         /\ tbl' = [tbl EXCEPT !.hops[r] = Shared(tbl.hops[r])]
         /\ Becomes("orch", [j EXCEPT !.held = WithHop(@, r)])
  BY Zenon DEF TakeHop, i
<1> HIDE DEF j, r
<1>a. CASE r = None /\ Becomes("orch", ReleaseThen(j, "done", FALSE)) /\ tbl' = tbl
  BY <1>1, <1>6, <1>7, <1>8, <1>a, CallFacts, GivingUp, ZenonT(60) DEF Becomes
<1>b. CASE /\ r # None /\ tbl.hops[r] = None /\ tbl' = tbl
           /\ Becomes("orch", [j EXCEPT !.pc = "create_hop", !.rif = r])
  <2> DEFINE k == [j EXCEPT !.pc = "create_hop", !.rif = r]
  <2>1. k \in Job
    <3>1. "create_hop" \in JobPcs /\ r \in OrNone(Rifs)
      BY <1>5, <1>b, Zenon DEF JobPcs, OrchPcs, OrNone
    <3> QED
      BY <1>6, <3>1, Zenon DEF Job
  <2>2. /\ k.pc = "create_hop" /\ k.rif = r /\ k.held = q.held /\ k.old = q.old
        /\ k.todo = q.todo \ {i} /\ k.prefix = q.prefix /\ k.route = q.route
    BY <1>6, <1>7, Zenon DEF Job
  <2> HIDE DEF k
  <2>3. JobOK("orch", k, tbl')
    BY <1>3, <1>4, <1>5, <1>b, <2>2, ZenonT(60)
       DEF JobOK, Plain, Owned, Acquiring, Replacing, Releasing, OrchPcs
  <2>4. RifsOK' /\ \A o \in Objects : Hand(k, o) = Hand(q, o)
    BY <1>1, <1>b, <2>2, CallFacts, Zenon DEF RifsOK, Hand
  <2> QED
    BY <1>1, <1>8, <1>b, <2>1, <2>3, <2>4, CallFacts, QuietStep, ZenonT(60) DEF Becomes, k
<1>c. CASE /\ r # None /\ tbl.hops[r] # None
           /\ tbl' = [tbl EXCEPT !.hops[r] = Shared(tbl.hops[r])]
           /\ Becomes("orch", [j EXCEPT !.held = WithHop(@, r)])
  <2> DEFINE k == [j EXCEPT !.held = WithHop(@, r)]
             n == References("hop", r) + 1
             e == Shared(tbl.hops[r])
  <2>1. r \in Rifs /\ r[1] = i /\ q.held \in Held
    BY <1>2, <1>5, <1>c, Zenon DEF Job
  <2>2. WithHop(q.held, r) \in Held
    BY <2>1, Zenon DEF WithHop, Held
  <2>3. k \in Job /\ k.held = WithHop(q.held, r)
    BY <1>6, <1>7, <2>2, Zenon DEF Job
  <2>4. /\ k.pc = "hops" /\ k.old = q.old /\ k.todo = q.todo \ {i} /\ k.prefix = q.prefix
        /\ k.route = q.route
    BY <1>2, <1>6, <1>7, Zenon DEF Job
  <2>5. k.held.hops = q.held.hops \cup {r} /\ k.held.group = q.held.group
    BY <2>1, <2>3, Zenon DEF WithHop, Held
  <2> HIDE DEF k
  <2>6. References("hop", r) \in Nat /\ e \in Entry /\ e.refs = n
    BY <1>c, <2>1, HopReferences DEF Shared, Entry
  <2>7. e # None
    BY <2>6, NamesAreDistinct, Zenon DEF Entry
  <2> HIDE DEF e
  <2>8. /\ tbl' \in TblType /\ tbl'.hops = [tbl.hops EXCEPT ![r] = e]
        /\ tbl'.routes = tbl.routes /\ tbl'.groups = tbl.groups /\ tbl'.l3 = tbl.l3
    <3>1. tbl \in TblType
      BY <1>1, CallFacts, Zenon
    <3> QED
      BY <1>c, <2>1, <2>6, <3>1, Zenon DEF TblType, e
  <2>9. /\ \A s \in Rifs : s # r => tbl'.hops[s] = tbl.hops[s]
        /\ tbl'.hops[r] = e
    <3>1. tbl.hops \in [Rifs -> Entry \cup {None}]
      BY <1>1, CallFacts, Zenon DEF TblType
    <3> QED
      BY <2>1, <2>8, <3>1, Zenon
  <2>10. JobOK("orch", k, tbl')
    <3>1. Ifaces(k.held.hops) = k.route.hops \ k.todo
      BY <1>3, <1>4, <2>1, <2>4, <2>5 DEF Ifaces
    <3> QED
      BY <1>4, <2>4, <2>5, <3>1, ZenonT(60)
         DEF JobOK, Plain, Owned, Acquiring, Replacing, Releasing, OrchPcs
  <2>11. r \notin q.held.hops
    BY <1>3, <1>4, <2>1, ZenonT(60) DEF Ifaces
  <2>12. /\ Hand(k, <<"hop", r>>) = Hand(q, <<"hop", r>>) + 1
         /\ \A x \in Objects : x # <<"hop", r>> => Hand(k, x) = Hand(q, x)
    <3>1. q \in Job /\ k \in Job /\ k.held = WithHop(q.held, r) /\ k.old = q.old
      BY <1>2, <2>3, <2>4, Zenon
    <3> HIDE DEF q, r
    <3> QED
      BY <2>1, <2>11, <3>1, HopInHand, Zenon
  <2>13. n + Hand(q, <<"hop", r>>) = References("hop", r) + Hand(k, <<"hop", r>>)
         /\ n \in Nat /\ n # 0
    <3>1. Hand(q, <<"hop", r>>) \in 0..2
      BY HandIsNat, Zenon
    <3> QED
      BY <2>6, <2>12, <3>1
  <2> HIDE DEF n
  <2>14. Becomes("orch", k) /\ asic' \in AsicType /\ faults' \in Nat
    BY <1>1, <1>8, <1>c, CallFacts, Zenon DEF k
  <2>15. IF n = 0 THEN tbl'.hops[r] = None ELSE tbl'.hops[r] # None /\ tbl'.hops[r].refs = n
    BY <2>6, <2>7, <2>9, <2>13, Zenon
  <2>20. HopMove("orch", k, r, n)
    BY <1>1, <1>8, <2>1, <2>3, <2>8, <2>9, <2>10, <2>12, <2>13, <2>14, <2>15, ZenonT(60) DEF HopMove
  <2> QED
    BY <1>1, <1>8, <2>1, <2>3, <2>8, <2>9, <2>10, <2>12, <2>13, <2>14, <2>15, <2>20, HopStep, ZenonT(60)
<1> QED
  BY <1>9, <1>a, <1>b, <1>c, Zenon

\* A creation has an object id of its own.
LEMMA FreshIsOid ==
  ASSUME Room
  PROVE  Fresh \in Oids
BY Zenon DEF Room, Fresh

LEMMA CreateHopKeeps ==
  ASSUME CountInv, CreateHop
  PROVE  CountInv'
<1> DEFINE q == job["orch"]
           x == [oid |-> Fresh, rif |-> q.rif]
           k == [q EXCEPT !.pc = "insert_hop", !.oid = Fresh]
<1>1. "orch" \in Clients
  BY Zenon DEF Clients
<1>2. q.pc = "create_hop" /\ q \in Job /\ JobOK("orch", q, tbl)
  BY <1>1, CallFacts, Zenon DEF CreateHop, At
<1>3. made' = made /\ tbl' = tbl /\ faults' \in Nat /\ Fresh \in Oids
  BY <1>1, CallFacts, SaiFaults, FreshIsOid, Zenon DEF CreateHop
<1>4. \/ asic' = [asic EXCEPT !.hops = @ \cup {x}] /\ Becomes("orch", k)
      \/ Becomes("orch", ReleaseThen(q, "done", FALSE)) /\ asic' = asic
  BY Zenon DEF CreateHop
<1>a. CASE Becomes("orch", ReleaseThen(q, "done", FALSE)) /\ asic' = asic
  BY <1>1, <1>2, <1>3, <1>a, CallFacts, GivingUp, ZenonT(60) DEF Becomes
<1>b. CASE asic' = [asic EXCEPT !.hops = @ \cup {x}] /\ Becomes("orch", k)
  <2>1. asic' \in AsicType
    <3>1. asic \in AsicType /\ x \in [oid : Oids, rif : Rifs]
      BY <1>1, <1>2, <1>3, CallFacts, Zenon DEF JobOK, Acquiring
    <3> HIDE DEF x
    <3> QED
      BY <1>b, <3>1, Zenon DEF AsicType
  <2>2. k \in Job
    <3>1. "insert_hop" \in JobPcs /\ Fresh \in OidOrNone
      BY <1>3, Zenon DEF JobPcs, OrchPcs, OidOrNone
    <3> QED
      BY <1>2, <3>1, Zenon DEF Job
  <2>3. /\ k.pc = "insert_hop" /\ k.oid = Fresh /\ k.held = q.held /\ k.old = q.old
        /\ k.todo = q.todo /\ k.prefix = q.prefix /\ k.route = q.route /\ k.rif = q.rif
    BY <1>2, Zenon DEF Job
  <2>4. Becomes("orch", k)
    BY <1>b, Zenon
  <2> HIDE DEF k
  <2>5. JobOK("orch", k, tbl')
    BY <1>2, <1>3, <2>3, ZenonT(60)
       DEF JobOK, Plain, Owned, Acquiring, Replacing, Releasing, OrchPcs
  <2>6. RifsOK' /\ \A o \in Objects : Hand(k, o) = Hand(q, o)
    BY <1>1, <1>3, <2>3, CallFacts, Zenon DEF RifsOK, Hand
  <2> QED
    BY <1>1, <1>3, <2>1, <2>2, <2>4, <2>5, <2>6, CallFacts, QuietStep, ZenonT(60) DEF Becomes
<1> QED
  BY <1>4, <1>a, <1>b, Zenon

LEMMA InsertHopKeeps ==
  ASSUME CountInv, InsertHop
  PROVE  CountInv'
<1> DEFINE q == job["orch"]
           r == q.rif
           e == [oid |-> q.oid, refs |-> 1]
           l == [q EXCEPT !.pc = "hops", !.rif = None, !.oid = 0]
           k == [l EXCEPT !.held = WithHop(q.held, r)]
           n == 1
<1>1. "orch" \in Clients
  BY Zenon DEF Clients
<1>2. q.pc = "insert_hop" /\ q \in Job /\ JobOK("orch", q, tbl)
  BY <1>1, CallFacts, Zenon DEF InsertHop, At
<1>3. /\ q.old = Nothing /\ q.held.group = {} /\ q.prefix \in Dests /\ Sane(q.route)
      /\ q.todo \subseteq Interfaces /\ q.todo \subseteq q.route.hops
      /\ r \in Rifs /\ tbl.hops[r] = None /\ r[1] \in q.route.hops
      /\ Ifaces(q.held.hops) = q.route.hops \ (q.todo \cup {r[1]}) /\ r[1] \notin q.todo
  BY <1>2, ZenonT(60) DEF JobOK, Acquiring
<1>4. /\ made' = made /\ asic' \in AsicType /\ faults' \in Nat /\ q.oid \in Oids
      /\ tbl' = [tbl EXCEPT !.hops[r] = e]
  BY <1>1, <1>2, CallFacts, ZenonT(60) DEF InsertHop, JobOK, Acquiring
<1>5. Becomes("orch", [q EXCEPT !.pc = "hops", !.rif = None, !.oid = 0, !.held = WithHop(@, r)])
  BY Zenon DEF InsertHop
<1>6. [q EXCEPT !.pc = "hops", !.rif = None, !.oid = 0, !.held = WithHop(@, r)] = k
  BY <1>2, Zenon DEF Job
<1>7. Becomes("orch", k)
  BY <1>5, <1>6, Zenon
<1>8. q.held \in Held
  BY <1>2, Zenon DEF Job
<1>9. WithHop(q.held, r) \in Held
  BY <1>3, <1>8, Zenon DEF WithHop, Held
<1>10. l \in Job
  <2>1. "hops" \in JobPcs /\ None \in OrNone(Rifs) /\ 0 \in OidOrNone
    BY Zenon DEF JobPcs, OrchPcs, OrNone, OidOrNone
  <2> QED
    BY <1>2, <2>1, Zenon DEF Job
<1>11. /\ l.pc = "hops" /\ l.old = q.old /\ l.todo = q.todo /\ l.prefix = q.prefix
      /\ l.route = q.route
  BY <1>2, Zenon DEF Job
<1> HIDE DEF l
<1>12. k \in Job /\ k.held = WithHop(q.held, r)
  BY <1>9, <1>10, Zenon DEF Job
<1>13. /\ k.pc = "hops" /\ k.old = q.old /\ k.todo = q.todo /\ k.prefix = q.prefix
      /\ k.route = q.route
  BY <1>10, <1>11, Zenon DEF Job
<1>14. k.held.hops = q.held.hops \cup {r} /\ k.held.group = q.held.group
  BY <1>8, <1>12, Zenon DEF WithHop, Held
<1> HIDE DEF k
<1>15. e \in Entry /\ e.refs = 1 /\ e # None
  BY <1>4, NamesAreDistinct DEF Entry
<1> HIDE DEF e
<1>16. /\ tbl' \in TblType /\ tbl'.hops = [tbl.hops EXCEPT ![r] = e]
      /\ tbl'.routes = tbl.routes /\ tbl'.groups = tbl.groups /\ tbl'.l3 = tbl.l3
  <2>1. tbl \in TblType
    BY <1>1, CallFacts, Zenon
  <2> HIDE DEF r
  <2> QED
    BY <1>3, <1>4, <1>15, <2>1, Zenon DEF TblType
<1>17. /\ \A s \in Rifs : s # r => tbl'.hops[s] = tbl.hops[s]
       /\ tbl'.hops[r] = e
  <2>1. tbl.hops \in [Rifs -> Entry \cup {None}]
    BY <1>1, CallFacts, Zenon DEF TblType
  <2> HIDE DEF r
  <2> QED
    BY <1>3, <1>16, <2>1, Zenon
<1>18. JobOK("orch", k, tbl')
  <2>1. Ifaces(k.held.hops) = k.route.hops \ k.todo
    BY <1>3, <1>13, <1>14 DEF Ifaces
  <2> QED
    BY <1>3, <1>13, <1>14, <2>1, ZenonT(60)
       DEF JobOK, Plain, Owned, Acquiring, Replacing, Releasing, OrchPcs
<1>19. r \notin q.held.hops
  BY <1>3, Zenon DEF Ifaces
<1>20. /\ Hand(k, <<"hop", r>>) = Hand(q, <<"hop", r>>) + 1
       /\ \A x \in Objects : x # <<"hop", r>> => Hand(k, x) = Hand(q, x)
  <2> HIDE DEF q, r
  <2> QED
    BY <1>2, <1>3, <1>12, <1>13, <1>19, HopInHand
<1>21. n + Hand(q, <<"hop", r>>) = References("hop", r) + Hand(k, <<"hop", r>>)
       /\ n \in Nat /\ n # 0
  <2>1. Hand(q, <<"hop", r>>) \in 0..2
    BY HandIsNat, Zenon
  <2>2. References("hop", r) = 0
    BY <1>3, HopReferences, Zenon
  <2> QED
    BY <1>20, <2>1, <2>2
<1>22. e.refs = n /\ e # None /\ Becomes("orch", k) /\ r \in Rifs
  BY <1>3, <1>7, <1>15, Zenon
<1> HIDE DEF r, n
<1>23. HopMove("orch", k, r, n)
  BY <1>1, <1>4, <1>12, <1>16, <1>17, <1>18, <1>20, <1>21, <1>22, ZenonT(60) DEF HopMove
<1> QED
  BY <1>1, <1>4, <1>12, <1>16, <1>17, <1>18, <1>20, <1>21, <1>22, <1>23, HopStep, ZenonT(60)

\* The same for groups.
LEMMA GroupEntries ==
  ASSUME CountInv, NEW k \in Keys
  PROVE  /\ References("group", k) \in Nat /\ tbl.groups \subseteq Group
         /\ \A g \in tbl.groups : g.key = k => g.refs = References("group", k) /\ g.refs # 0
         /\ \A g, h \in tbl.groups : g.key = k /\ h.key = k => g = h
         /\ (\A g \in tbl.groups : g.key # k) => References("group", k) = 0
<1> DEFINE o == <<"group", k>>
<1>1. o \in Objects /\ FibTypeOK /\ GroupCounts
  BY Zenon DEF CountInv, Objects
<1>2. References(o[1], o[2]) \in Nat
  BY <1>1, ReferencesSplit, Zenon
<1>3. tbl.groups \subseteq Group
  BY <1>1, Zenon DEF FibTypeOK, TblType
<1> QED
  BY <1>1, <1>2, <1>3, Zenon DEF GroupCounts

\* A group with its count set, added, or taken out is a move of its key.
LEMMA GroupRecounted ==
  ASSUME NEW gs \in SUBSET Group, NEW k \in Keys, NEW n \in Nat \ {0}, NEW g \in gs,
         g.key = k, \A h \in gs : h.key = k => h = g
  PROVE  LET f == [g EXCEPT !.refs = n]
         IN  f \in Group /\ GroupsMove(gs, (gs \ {g}) \cup {f}, k, n)
<1> DEFINE f == [g EXCEPT !.refs = n]
<1>1. f \in Group /\ f.key = k /\ f.refs = n
  BY Zenon DEF Group
<1> HIDE DEF f
<1>2. GroupsMove(gs, (gs \ {g}) \cup {f}, k, n)
  BY <1>1, Zenon DEF GroupsMove
<1> QED
  BY <1>1, <1>2, Zenon DEF f

LEMMA GroupAdded ==
  ASSUME NEW gs \in SUBSET Group, NEW k \in Keys, NEW o \in Oids, \A h \in gs : h.key # k
  PROVE  LET f == [key |-> k, oid |-> o, refs |-> 1]
         IN  f \in Group /\ GroupsMove(gs, gs \cup {f}, k, 1)
<1> DEFINE f == [key |-> k, oid |-> o, refs |-> 1]
<1>1. f \in Group /\ f.key = k /\ f.refs = 1
  BY Zenon DEF Group
<1> HIDE DEF f
<1>2. GroupsMove(gs, gs \cup {f}, k, 1)
  BY <1>1 DEF GroupsMove
<1> QED
  BY <1>1, <1>2, Zenon DEF f

LEMMA GroupDropped ==
  ASSUME NEW gs \in SUBSET Group, NEW k \in Keys, NEW g \in gs, g.key = k,
         \A h \in gs : h.key = k => h = g
  PROVE  GroupsMove(gs, gs \ {g}, k, 0)
BY Zenon DEF GroupsMove

\* The next hops in hand are in the table, so they make a group.
LEMMA HeldKey ==
  ASSUME CountInv, job["orch"].pc = "hops", ~(Cardinality(job["orch"].held.hops) < 2)
  PROVE  GroupKey(job["orch"].held) \in Keys
<1> DEFINE h == job["orch"].held
<1>1. "orch" \in Clients
  BY Zenon DEF Clients
<1>2. h \in Held
  BY <1>1, CallFacts, Zenon DEF Job
<1>3. h.hops # {}
  <2>1. Cardinality({}) = 0 /\ 0 < 2
    <3>1. Cardinality({}) = 0
      BY <1>1, CallFacts, Zenon DEF DestsCount
    <3> QED
      BY <3>1
  <2> QED
    BY <2>1, Zenon
<1>4. \A r \in h.hops : tbl.hops[r] # None /\ tbl.hops[r].oid \in Oids
  <2> TAKE r \in h.hops
  <2> DEFINE o == <<"hop", r>>
  <2>1. r \in Rifs /\ o \in Objects /\ Holds(h, o[1], o[2])
    BY <1>2, Zenon DEF Objects, Held, Holds
  <2>2. References("hop", r) # 0
    BY <1>1, <2>1, HeldCounts, Zenon DEF CountInv
  <2>3. tbl.hops[r] # None /\ tbl.hops[r] \in Entry
    BY <2>1, <2>2, HopReferences, Zenon
  <2> QED
    BY <2>3, Zenon DEF Entry
<1> HIDE DEF h
<1>5. GroupKey(h) \subseteq Oids /\ GroupKey(h) # {}
  BY <1>3, <1>4, Zenon DEF GroupKey
<1> QED
  BY <1>5, Zenon DEF Keys, h

\* A reference on the group taken, with the table that shows it.
LEMMA GroupTaken ==
  ASSUME CountInv, NEW k \in Job, NEW key \in Keys, NEW n \in Nat,
         \/ job["orch"].pc = "hops" /\ job["orch"].todo = {}
         \/ job["orch"].pc = "add_member",
         n = References("group", key) + 1, Becomes("orch", k),
         k.pc = "replace", k.held = WithGroup(job["orch"].held, key), k.old = job["orch"].old,
         k.prefix = job["orch"].prefix, k.route = job["orch"].route,
         tbl' \in TblType, tbl'.routes = tbl.routes, tbl'.hops = tbl.hops,
         tbl'.l3 = tbl.l3, GroupsMove(tbl.groups, tbl'.groups, key, n),
         asic' \in AsicType, made' = made, faults' \in Nat
  PROVE  CountInv'
<1> DEFINE q == job["orch"]
<1>1. "orch" \in Clients
  BY Zenon DEF Clients
<1>2. q \in Job /\ JobOK("orch", q, tbl) /\ q.held \in Held /\ q.held.group = {}
  BY <1>1, CallFacts, ZenonT(60) DEF JobOK, Acquiring, Job
<1>3. /\ q.old = Nothing /\ q.prefix \in Dests /\ Sane(q.route)
      /\ Ifaces(q.held.hops) = q.route.hops
  BY <1>2, ZenonT(60) DEF JobOK, Acquiring
<1>4. k.held.hops = q.held.hops
  BY <1>2, Zenon DEF WithGroup, Held
<1>5. JobOK("orch", k, tbl')
  BY <1>3, <1>4, Zenon DEF JobOK, Plain, Owned, Acquiring, Replacing, Releasing, OrchPcs
<1>6. /\ Hand(k, <<"group", key>>) = Hand(q, <<"group", key>>) + 1
      /\ \A x \in Objects : x # <<"group", key>> => Hand(k, x) = Hand(q, x)
  BY <1>2, GroupInHand, Zenon
<1>7. n + Hand(q, <<"group", key>>) = References("group", key) + Hand(k, <<"group", key>>)
  <2>1. Hand(q, <<"group", key>>) \in 0..2 /\ References("group", key) \in Nat
    BY HandIsNat, GroupEntries, Zenon
  <2> QED
    BY <1>6, <2>1
<1>8. KeyMove("orch", k, key, n)
  BY <1>1, <1>6, <1>7, GroupEntries, Zenon DEF KeyMove
<1> QED
  BY <1>1, <1>5, <1>8, GroupStep, Zenon

LEMMA TakeGroupKeeps ==
  ASSUME CountInv, TakeGroup
  PROVE  CountInv'
<1> DEFINE q == job["orch"]
           key == GroupKey(q.held)
           w == WithGroup(q.held, key)
           taken == [q EXCEPT !.pc = "replace", !.held = w]
           making == [q EXCEPT !.pc = "create_group", !.key = key]
           n == References("group", key) + 1
<1>1. "orch" \in Clients
  BY Zenon DEF Clients
<1>2. q.pc = "hops" /\ q.todo = {} /\ q \in Job /\ JobOK("orch", q, tbl)
  BY <1>1, CallFacts, Zenon DEF TakeGroup, At
<1>3. made' = made /\ asic' = asic /\ faults' = faults
  BY Zenon DEF TakeGroup
<1>4. \/ Goto("orch", "replace") /\ tbl' = tbl
      \/ /\ ~(Cardinality(q.held.hops) < 2) /\ \E g \in tbl.groups : g.key = key
         /\ tbl' = [tbl EXCEPT !.groups = {IF g.key = key THEN Shared(g) ELSE g : g \in @}]
         /\ Becomes("orch", taken)
      \/ /\ ~(Cardinality(q.held.hops) < 2) /\ \A g \in tbl.groups : g.key # key
         /\ Becomes("orch", making) /\ tbl' = tbl
  BY Zenon DEF TakeGroup
<1>5. tbl \in TblType /\ asic \in AsicType /\ faults \in Nat
  BY <1>1, CallFacts, Zenon
<1> HIDE DEF key
<1>6. ~(Cardinality(q.held.hops) < 2) => key \in Keys
  BY <1>2, HeldKey, Zenon DEF key
<1>a. CASE Goto("orch", "replace") /\ tbl' = tbl
  <2> DEFINE k == [q EXCEPT !.pc = "replace"]
  <2>1. k \in Job
    BY <1>2, Zenon DEF Job, JobPcs, OrchPcs
  <2>2. /\ k.pc = "replace" /\ k.held = q.held /\ k.old = q.old /\ k.prefix = q.prefix
        /\ k.route = q.route
    BY <1>2, Zenon DEF Job
  <2>3. job' = [job EXCEPT !["orch"] = k]
    BY <1>a, Zenon DEF Goto, Becomes
  <2> HIDE DEF k
  <2>4. JobOK("orch", k, tbl')
    BY <1>2, <2>2, ZenonT(60) DEF JobOK, Plain, Owned, Acquiring, Replacing, Releasing, OrchPcs
  <2>5. RifsOK' /\ \A o \in Objects : Hand(k, o) = Hand(q, o)
    BY <1>1, <1>a, <2>2, CallFacts, ZenonT(60) DEF RifsOK, Hand
  <2> QED
    BY <1>1, <1>3, <1>a, <2>1, <2>3, <2>4, <2>5, CallFacts, QuietStep, ZenonT(60)
<1>b. CASE /\ ~(Cardinality(q.held.hops) < 2) /\ \E g \in tbl.groups : g.key = key
           /\ tbl' = [tbl EXCEPT !.groups = {IF g.key = key THEN Shared(g) ELSE g : g \in @}]
           /\ Becomes("orch", taken)
  <2>1. PICK g \in tbl.groups : g.key = key
    BY <1>b, Zenon
  <2> DEFINE f == [g EXCEPT !.refs = n]
             hs == (tbl.groups \ {g}) \cup {f}
  <2>2. /\ References("group", key) \in Nat /\ tbl.groups \in SUBSET Group
        /\ g.refs = References("group", key) /\ \A h \in tbl.groups : h.key = key => h = g
    BY <1>6, <1>b, <2>1, GroupEntries, Zenon
  <2>3. n \in Nat /\ n # 0 /\ f = Shared(g)
    BY <2>2 DEF Shared
  <2>4. /\ f \in Group /\ f.key = key /\ GroupsMove(tbl.groups, hs, key, n)
        /\ {IF h.key = key THEN f ELSE h : h \in tbl.groups} = hs
    <3>1. f.key = key
      BY <2>1, <2>2, Zenon DEF Group
    <3>2. n \in Nat \ {0} /\ key \in Keys
      BY <1>6, <1>b, <2>3, Zenon
    <3> HIDE DEF n
    <3>3. f \in Group /\ GroupsMove(tbl.groups, hs, key, n)
      BY <2>1, <2>2, <3>2, GroupRecounted, Zenon
    <3>4. {IF h.key = key THEN f ELSE h : h \in tbl.groups} = hs
      <4> HIDE DEF f
      <4> QED
        BY <2>1, <2>2, Zenon
    <3> QED
      BY <3>1, <3>3, <3>4, ZenonT(60)
  <2>5. {IF h.key = key THEN Shared(h) ELSE h : h \in tbl.groups}
           = {IF h.key = key THEN f ELSE h : h \in tbl.groups}
    BY <2>2, <2>3, Zenon
  <2>6. tbl' = [tbl EXCEPT !.groups = hs]
    BY <1>b, <2>4, <2>5, Zenon
  <2>7. hs \in SUBSET Group
    BY <2>2, <2>4, Zenon
  <2> HIDE DEF hs, n
  <2>8. /\ tbl' \in TblType /\ tbl'.groups = hs /\ tbl'.hops = tbl.hops
        /\ tbl'.routes = tbl.routes /\ tbl'.l3 = tbl.l3
    BY <1>5, <2>6, <2>7, Zenon DEF TblType
  <2>9. n = References("group", key) + 1 /\ key \in Keys /\ Becomes("orch", taken)
        /\ asic' \in AsicType /\ faults' \in Nat
    BY <1>3, <1>5, <1>6, <1>b, Zenon DEF n
  <2>10. /\ taken \in Job /\ taken.held = w /\ taken.old = q.old
         /\ taken.pc = "replace" /\ taken.prefix = q.prefix /\ taken.route = q.route
    <3>1. w \in Held /\ "replace" \in JobPcs
      BY <1>2, <2>9, Zenon DEF WithGroup, Held, Keys, JobPcs, OrchPcs, Job
    <3> HIDE DEF w
    <3> QED
      BY <1>2, <3>1, Zenon DEF Job
  <2> HIDE DEF taken
  <2> QED
    BY <1>2, <1>3, <2>3, <2>4, <2>8, <2>9, <2>10, GroupTaken, ZenonT(60)
<1>c. CASE /\ ~(Cardinality(q.held.hops) < 2) /\ \A g \in tbl.groups : g.key # key
           /\ Becomes("orch", making) /\ tbl' = tbl
  <2>1. making \in Job
    BY <1>2, <1>6, <1>c, Zenon DEF Job, JobPcs, OrchPcs, Keys
  <2>2. /\ making.pc = "create_group" /\ making.key = key /\ making.held = q.held
        /\ making.old = q.old /\ making.prefix = q.prefix /\ making.route = q.route
    BY <1>2, Zenon DEF Job
  <2>3. job' = [job EXCEPT !["orch"] = making] /\ key \in Keys
    BY <1>6, <1>c, Zenon DEF Becomes
  <2> HIDE DEF making
  <2>4. JobOK("orch", making, tbl')
    BY <1>2, <1>c, <2>2, <2>3, ZenonT(60)
       DEF JobOK, Plain, Owned, Acquiring, Replacing, Releasing, OrchPcs
  <2>5. RifsOK' /\ \A o \in Objects : Hand(making, o) = Hand(q, o)
    BY <1>1, <1>c, <2>2, CallFacts, ZenonT(60) DEF RifsOK, Hand
  <2> QED
    BY <1>1, <1>3, <1>c, <2>1, <2>3, <2>4, <2>5, CallFacts, QuietStep, ZenonT(60)
<1> QED
  BY <1>4, <1>a, <1>b, <1>c, ZenonT(60)

LEMMA CreateGroupKeeps ==
  ASSUME CountInv, CreateGroup
  PROVE  CountInv'
<1> DEFINE q == job["orch"]
           a == [oid |-> Fresh, members |-> {}]
           j == [q EXCEPT !.key = {}]
           k == [q EXCEPT !.pc = "add_member", !.oid = Fresh, !.parts = q.key]
<1>1. "orch" \in Clients
  BY Zenon DEF Clients
<1>2. q.pc = "create_group" /\ q \in Job /\ JobOK("orch", q, tbl)
  BY <1>1, CallFacts, Zenon DEF CreateGroup, At
<1>3. made' = made /\ tbl' = tbl /\ faults' \in Nat /\ Fresh \in Oids
  BY <1>1, CallFacts, SaiFaults, FreshIsOid, Zenon DEF CreateGroup
<1>4. \/ asic' = [asic EXCEPT !.groups = @ \cup {a}] /\ Becomes("orch", k)
      \/ Becomes("orch", ReleaseThen(j, "done", FALSE)) /\ asic' = asic
  BY Zenon DEF CreateGroup
<1>a. CASE Becomes("orch", ReleaseThen(j, "done", FALSE)) /\ asic' = asic
  <2>1. j \in Job /\ j.held = q.held /\ j.old = q.old
    BY <1>2, Zenon DEF Job
  <2> HIDE DEF j
  <2> QED
    BY <1>1, <1>3, <1>a, <2>1, CallFacts, GivingUp, ZenonT(60) DEF Becomes
<1>b. CASE asic' = [asic EXCEPT !.groups = @ \cup {a}] /\ Becomes("orch", k)
  <2>1. asic' \in AsicType
    <3>1. asic \in AsicType /\ a \in [oid : Oids, members : SUBSET Oids]
      BY <1>1, <1>3, CallFacts, Zenon
    <3> HIDE DEF a
    <3> QED
      BY <1>b, <3>1, Zenon DEF AsicType
  <2>2. k \in Job
    <3>1. "add_member" \in JobPcs /\ Fresh \in OidOrNone /\ q.key \in SUBSET Oids
      BY <1>2, <1>3, Zenon DEF JobPcs, OrchPcs, OidOrNone, Job
    <3> QED
      BY <1>2, <3>1, Zenon DEF Job
  <2>3. /\ k.pc = "add_member" /\ k.oid = Fresh /\ k.held = q.held /\ k.old = q.old
        /\ k.prefix = q.prefix /\ k.route = q.route /\ k.key = q.key
    BY <1>2, Zenon DEF Job
  <2>4. Becomes("orch", k)
    BY <1>b, Zenon
  <2> HIDE DEF k
  <2>5. JobOK("orch", k, tbl')
    BY <1>2, <1>3, <2>3, ZenonT(60)
       DEF JobOK, Plain, Owned, Acquiring, Replacing, Releasing, OrchPcs
  <2>6. RifsOK' /\ \A o \in Objects : Hand(k, o) = Hand(q, o)
    BY <1>1, <1>3, <2>3, CallFacts, Zenon DEF RifsOK, Hand
  <2> QED
    BY <1>1, <1>3, <2>1, <2>2, <2>4, <2>5, <2>6, CallFacts, QuietStep, ZenonT(60) DEF Becomes
<1> QED
  BY <1>4, <1>a, <1>b, Zenon

LEMMA AddMemberKeeps ==
  ASSUME CountInv, AddMember
  PROVE  CountInv'
<1> DEFINE q == job["orch"]
           o == CHOOSE x \in q.parts : TRUE
           k == [q EXCEPT !.parts = @ \ {o}]
           u == [q EXCEPT !.pc = "free_group", !.parts = q.key \ @, !.key = {},
                          !.then = "done", !.ok = FALSE]
<1>1. "orch" \in Clients
  BY Zenon DEF Clients
<1>2. q.pc = "add_member" /\ q.parts # {} /\ q \in Job /\ JobOK("orch", q, tbl)
  BY <1>1, CallFacts, Zenon DEF AddMember, At
<1>3. made' = made /\ tbl' = tbl /\ faults' \in Nat
  BY <1>1, CallFacts, SaiFaults, Zenon DEF AddMember
<1>4. \/ asic' = [asic EXCEPT !.groups = With(@, q.oid, o)] /\ Becomes("orch", k)
      \/ asic' = asic /\ Becomes("orch", u)
  BY Zenon DEF AddMember
<1>5. o \in Oids
  BY <1>2, Zenon DEF Job
<1> HIDE DEF o
<1>6. asic' \in AsicType
  <2>1. [asic EXCEPT !.groups = With(@, q.oid, o)] \in AsicType /\ asic \in AsicType
    BY <1>1, <1>5, CallFacts, RegroupedType, Zenon
  <2> QED
    BY <1>4, <2>1, Zenon
<1>7. /\ k \in Job /\ k.pc = "add_member" /\ k.oid = q.oid /\ k.held = q.held /\ k.old = q.old
      /\ k.prefix = q.prefix /\ k.route = q.route /\ k.key = q.key
  BY <1>2, Zenon DEF Job
<1>8. /\ u \in Job /\ u.pc = "free_group" /\ u.oid = q.oid /\ u.held = q.held /\ u.old = q.old
      /\ u.then = "done"
  BY <1>2, ZenonT(60) DEF Job, JobPcs, OrchPcs, Thens
<1> HIDE DEF k, u
<1>9. JobOK("orch", k, tbl')
  BY <1>2, <1>3, <1>7, ZenonT(60)
     DEF JobOK, Plain, Owned, Acquiring, Replacing, Releasing, OrchPcs
<1>10. JobOK("orch", u, tbl')
  BY <1>2, <1>3, <1>8, ZenonT(60)
     DEF JobOK, Plain, Owned, Acquiring, Replacing, Releasing, OrchPcs
<1>11. /\ RifsOK' /\ \A x \in Objects : Hand(k, x) = Hand(q, x)
       /\ \A x \in Objects : Hand(u, x) = Hand(q, x)
  BY <1>1, <1>3, <1>7, <1>8, CallFacts, Zenon DEF RifsOK, Hand
<1>12. PICK l \in {k, u} : Becomes("orch", l)
  BY <1>4, Zenon
<1> QED
  BY <1>1, <1>3, <1>6, <1>7, <1>8, <1>9, <1>10, <1>11, <1>12, CallFacts, QuietStep, ZenonT(60)
     DEF Becomes

LEMMA InsertGroupKeeps ==
  ASSUME CountInv, InsertGroup
  PROVE  CountInv'
<1> DEFINE q == job["orch"]
           f == [key |-> q.key, oid |-> q.oid, refs |-> 1]
           hs == tbl.groups \cup {f}
           w == WithGroup(q.held, q.key)
           k == [q EXCEPT !.pc = "replace", !.oid = 0, !.key = {}, !.held = w]
           n == References("group", q.key) + 1
<1>1. "orch" \in Clients
  BY Zenon DEF Clients
<1>2. q.pc = "add_member" /\ q \in Job /\ JobOK("orch", q, tbl)
  BY <1>1, CallFacts, Zenon DEF InsertGroup, At
<1>3. q.oid \in Oids /\ q.key \in Keys /\ \A g \in tbl.groups : g.key # q.key
  BY <1>2, ZenonT(60) DEF JobOK, Acquiring
<1>4. /\ tbl' = [tbl EXCEPT !.groups = hs] /\ Becomes("orch", k)
      /\ asic' = asic /\ made' = made /\ faults' = faults
  BY Zenon DEF InsertGroup
<1>5. tbl \in TblType /\ asic' \in AsicType /\ faults' \in Nat
  BY <1>1, <1>4, CallFacts, Zenon
<1>6. References("group", q.key) = 0 /\ tbl.groups \in SUBSET Group
  BY <1>3, GroupEntries, Zenon
<1>7. f \in Group /\ GroupsMove(tbl.groups, hs, q.key, 1)
  BY <1>3, <1>6, GroupAdded, ZenonT(60)
<1>8. n = 1 /\ n \in Nat
  BY <1>6
<1>9. hs \in SUBSET Group /\ GroupsMove(tbl.groups, hs, q.key, n)
  BY <1>6, <1>7, <1>8, Zenon
<1>10. w \in Held /\ "replace" \in JobPcs /\ 0 \in OidOrNone
  BY <1>2, <1>3, Zenon DEF WithGroup, Held, Keys, JobPcs, OrchPcs, Job, OidOrNone
<1>11. w = WithGroup(q.held, q.key) /\ n = References("group", q.key) + 1
  BY Zenon
<1> HIDE DEF hs, n, w
<1>12. /\ tbl' \in TblType /\ tbl'.groups = hs /\ tbl'.hops = tbl.hops
       /\ tbl'.routes = tbl.routes /\ tbl'.l3 = tbl.l3
  BY <1>4, <1>5, <1>9, Zenon DEF TblType
<1>13. /\ k \in Job /\ k.held = w /\ k.old = q.old /\ k.pc = "replace"
       /\ k.prefix = q.prefix /\ k.route = q.route
  BY <1>2, <1>10, ZenonT(60) DEF Job
<1> HIDE DEF k
<1> QED
  BY <1>2, <1>3, <1>4, <1>5, <1>8, <1>9, <1>11, <1>12, <1>13, GroupTaken, ZenonT(60)

\* What a call about to free an object is like.
LEMMA FreeingIsOK ==
  ASSUME NEW c \in Clients, NEW j \in Job, NEW t, NEW o \in Oids,
         NEW pc \in {"free_hop", "free_group"}, NEW ms \in SUBSET Oids, Owned(c, j),
         j.then = IF c = "orch" THEN "done" ELSE "teardown"
  PROVE  LET k == Freeing(j, pc, o, ms)
         IN  k \in Job /\ JobOK(c, k, t) /\ \A x : Hand(k, x) = Hand(j, x)
<1> DEFINE k == Freeing(j, pc, o, ms)
<1>1. k \in Job
  <2>1. pc \in JobPcs /\ o \in OidOrNone
    BY Zenon DEF JobPcs, OrchPcs, OidOrNone
  <2> QED
    BY <2>1, Zenon DEF Job, Freeing
<1>2. /\ k.pc = pc /\ k.oid = o /\ k.held = j.held /\ k.old = j.old /\ k.then = j.then
      /\ k.iface = j.iface /\ k.rif = j.rif /\ k.todo = j.todo
  BY Zenon DEF Job, Freeing
<1> HIDE DEF k
<1>3. JobOK(c, k, t)
  BY <1>2, ZenonT(60) DEF JobOK, Plain, Owned, Acquiring, Replacing, Releasing, OrchPcs, MgmtdPcs,
              Clients
<1>4. \A x : Hand(k, x) = Hand(j, x)
  BY <1>2, Zenon DEF Hand
<1> QED
  BY <1>1, <1>3, <1>4, Zenon DEF k

\* What a call at its releases has in hand before and after one of them.
LEMMA OwedIsHeld ==
  ASSUME CountInv, NEW c \in Clients, job[c].pc = "release"
  PROVE  /\ Owed(job[c]) \in Held /\ Owed(job[c]) # Nothing
         /\ job[c] \in Job /\ Owned(c, job[c])
         /\ job[c].then = IF c = "orch" THEN "done" ELSE "teardown"
         /\ \A o \in Objects :
              Holds(Owed(job[c]), o[1], o[2]) => References(o[1], o[2]) # 0
<1>1. /\ job[c] \in Job /\ Owned(c, job[c]) /\ Owed(job[c]) # Nothing
      /\ job[c].then = IF c = "orch" THEN "done" ELSE "teardown"
  BY CallFacts, Zenon DEF JobOK, Plain, Releasing
<1>2. Owed(job[c]) \in Held /\ Owed(job[c]) \in {job[c].held, job[c].old}
  BY <1>1, Zenon DEF Owed, Job
<1>3. \A o \in Objects : Holds(Owed(job[c]), o[1], o[2]) => References(o[1], o[2]) # 0
  BY <1>2, HeldCounts, Zenon DEF CountInv
<1> QED
  BY <1>1, <1>2, <1>3, Zenon

LEMMA HopPaid ==
  ASSUME NEW c \in Clients, NEW j \in Job, Owned(c, j), Owed(j) \in Held,
         NEW r \in Owed(j).hops
  PROVE  LET k == Paid(j, WithoutHop(Owed(j), r))
         IN  /\ k \in Job /\ Owned(c, k) /\ k.then = j.then
             /\ Hand(k, <<"hop", r>>) + 1 = Hand(j, <<"hop", r>>)
             /\ \A x \in Objects : x # <<"hop", r>> => Hand(k, x) = Hand(j, x)
<1> DEFINE rec == WithoutHop(Owed(j), r)
           k == Paid(j, rec)
<1>1. rec \in Held /\ rec.hops = Owed(j).hops \ {r} /\ rec.group = Owed(j).group
  BY Zenon DEF WithoutHop, Held
<1> HIDE DEF rec
<1>2. /\ k \in Job /\ Owned(c, k) /\ k.then = j.then
      /\ \A o : Hand(k, o) + One(Holds(Owed(j), o[1], o[2]))
                  = Hand(j, o) + One(Holds(rec, o[1], o[2]))
  BY <1>1, PaidHand, Zenon
<1> HIDE DEF k
<1>3. \A o : Hand(k, o) \in 0..2 /\ Hand(j, o) \in 0..2
  BY HandIsNat, Zenon
<1>4. Hand(k, <<"hop", r>>) + 1 = Hand(j, <<"hop", r>>)
  <2> DEFINE o == <<"hop", r>>
  <2>1. Hand(k, o) + One(Holds(Owed(j), o[1], o[2])) = Hand(j, o) + One(Holds(rec, o[1], o[2]))
    BY <1>2, Zenon
  <2>2. Holds(Owed(j), o[1], o[2]) /\ ~Holds(rec, o[1], o[2])
    BY <1>1, Zenon DEF Holds
  <2>3. Hand(k, o) + 1 = Hand(j, o) + 0
    BY <2>1, <2>2, Zenon DEF One
  <2> HIDE DEF o
  <2>4. Hand(k, o) + 1 = Hand(j, o)
    BY <1>3, <2>3
  <2> QED
    BY <2>4, Zenon DEF o
<1>5. \A x \in Objects : x # <<"hop", r>> => Hand(k, x) = Hand(j, x)
  <2> SUFFICES ASSUME NEW x \in Objects, x # <<"hop", r>>
               PROVE  Hand(k, x) = Hand(j, x)
    BY Zenon
  <2>1. Holds(Owed(j), x[1], x[2]) <=> Holds(rec, x[1], x[2])
    BY <1>1 DEF Holds, Objects
  <2>2. One(Holds(Owed(j), x[1], x[2])) = One(Holds(rec, x[1], x[2]))
        /\ One(Holds(rec, x[1], x[2])) \in {0, 1}
    BY <2>1, Zenon DEF One
  <2> QED
    BY <1>2, <1>3, <2>2
<1> QED
  BY <1>2, <1>4, <1>5, Zenon DEF k, rec

LEMMA GroupPaid ==
  ASSUME NEW c \in Clients, NEW j \in Job, Owned(c, j), Owed(j) \in Held,
         NEW key \in Keys, key = Owed(j).group
  PROVE  LET k == Paid(j, WithGroup(Owed(j), {}))
         IN  /\ k \in Job /\ Owned(c, k) /\ k.then = j.then
             /\ Hand(k, <<"group", key>>) + 1 = Hand(j, <<"group", key>>)
             /\ \A x \in Objects : x # <<"group", key>> => Hand(k, x) = Hand(j, x)
<1> DEFINE rec == WithGroup(Owed(j), {})
           k == Paid(j, rec)
<1>1. rec \in Held /\ rec.hops = Owed(j).hops /\ rec.group = {}
  BY Zenon DEF WithGroup, Held
<1> HIDE DEF rec
<1>2. /\ k \in Job /\ Owned(c, k) /\ k.then = j.then
      /\ \A o : Hand(k, o) + One(Holds(Owed(j), o[1], o[2]))
                  = Hand(j, o) + One(Holds(rec, o[1], o[2]))
  BY <1>1, PaidHand, Zenon
<1> HIDE DEF k
<1>3. \A o : Hand(k, o) \in 0..2 /\ Hand(j, o) \in 0..2
  BY HandIsNat, Zenon
<1>4. Hand(k, <<"group", key>>) + 1 = Hand(j, <<"group", key>>)
  <2> DEFINE o == <<"group", key>>
  <2>1. Hand(k, o) + One(Holds(Owed(j), o[1], o[2])) = Hand(j, o) + One(Holds(rec, o[1], o[2]))
    BY <1>2, Zenon
  <2>2. Holds(Owed(j), o[1], o[2]) /\ ~Holds(rec, o[1], o[2])
    BY <1>1, Zenon DEF Holds, Keys
  <2>3. Hand(k, o) + 1 = Hand(j, o) + 0
    BY <2>1, <2>2, Zenon DEF One
  <2> HIDE DEF o
  <2>4. Hand(k, o) + 1 = Hand(j, o)
    BY <1>3, <2>3
  <2> QED
    BY <2>4, Zenon DEF o
<1>5. \A x \in Objects : x # <<"group", key>> => Hand(k, x) = Hand(j, x)
  <2> SUFFICES ASSUME NEW x \in Objects, x # <<"group", key>>
               PROVE  Hand(k, x) = Hand(j, x)
    BY Zenon
  <2>1. Holds(Owed(j), x[1], x[2]) <=> Holds(rec, x[1], x[2])
    BY <1>1 DEF Holds, Objects, Keys
  <2>2. One(Holds(Owed(j), x[1], x[2])) = One(Holds(rec, x[1], x[2]))
        /\ One(Holds(rec, x[1], x[2])) \in {0, 1}
    BY <2>1, Zenon DEF One
  <2> QED
    BY <1>2, <1>3, <2>2
<1> QED
  BY <1>2, <1>4, <1>5, Zenon DEF k, rec

\* The two ways on from a release.
LEMMA AfterRelease ==
  ASSUME NEW c \in Clients, NEW rest \in Job, NEW t, NEW o \in Oids,
         NEW pc \in {"free_hop", "free_group"}, NEW ms \in SUBSET Oids, Owned(c, rest),
         rest.then = IF c = "orch" THEN "done" ELSE "teardown",
         NEW k \in {Continue(rest), Freeing(rest, pc, o, ms)}
  PROVE  k \in Job /\ JobOK(c, k, t) /\ \A x \in Objects : Hand(k, x) = Hand(rest, x)
<1> DEFINE f == Freeing(rest, pc, o, ms)
<1>1. f \in Job /\ JobOK(c, f, t) /\ \A x : Hand(f, x) = Hand(rest, x)
  BY FreeingIsOK, ZenonT(60)
<1> HIDE DEF f
<1>2. k = f \/ k = Continue(rest)
  BY Zenon DEF f
<1> QED
  BY <1>1, <1>2, Continues

LEMMA ReleaseHopKeeps ==
  ASSUME CountInv, NEW c \in Clients, job[c].pc = "release",
         NEW r \in Owed(job[c]).hops,
         ReleaseHop(c, r, Paid(job[c], WithoutHop(Owed(job[c]), r))),
         asic' = asic, made' = made, faults' = faults
  PROVE  CountInv'
<1> DEFINE q == job[c]
           rest == Paid(q, WithoutHop(Owed(q), r))
           e == tbl.hops[r]
           o == <<"hop", r>>
           last == Freeing(rest, "free_hop", e.oid, {})
           n == References("hop", r) - 1
           f == IF n = 0 THEN None ELSE Unshared(e)
           k == IF n = 0 THEN last ELSE Continue(rest)
<1>1. /\ q \in Job /\ Owned(c, q) /\ Owed(q) \in Held
      /\ q.then = IF c = "orch" THEN "done" ELSE "teardown"
      /\ \A x \in Objects : Holds(Owed(q), x[1], x[2]) => References(x[1], x[2]) # 0
  BY OwedIsHeld, Zenon
<1>2. r \in Rifs /\ o \in Objects /\ Holds(Owed(q), o[1], o[2])
  BY <1>1, Zenon DEF Held, Objects, Holds
<1>3. References("hop", r) \in Nat \ {0}
  BY <1>1, <1>2, HopReferences, Zenon
<1>4. e # None /\ e.refs = References("hop", r) /\ e \in Entry
  BY <1>2, <1>3, HopReferences, ZenonT(60)
<1>5. n \in Nat /\ e.oid \in Oids
  BY <1>3, <1>4 DEF Entry
<1>6. LastReference(e) <=> n = 0
  BY <1>3, <1>4 DEF LastReference
<1>7. tbl' = [tbl EXCEPT !.hops[r] = f] /\ Becomes(c, k)
  BY <1>4, <1>6, Zenon DEF ReleaseHop
<1>8. n # 0 => Unshared(e) \in Entry /\ Unshared(e).refs = n
  BY <1>3, <1>4, <1>5, Zenon DEF Unshared, Entry
<1>9. f \in Entry \cup {None} /\ (IF n = 0 THEN f = None ELSE f # None /\ f.refs = n)
  <2>1. None \notin Entry
    BY NamesAreDistinct, Zenon DEF Entry
  <2> QED
    BY <1>8, <2>1, Zenon
<1>10. /\ rest \in Job /\ Owned(c, rest) /\ rest.then = q.then
       /\ Hand(rest, o) + 1 = Hand(q, o)
       /\ \A x \in Objects : x # o => Hand(rest, x) = Hand(q, x)
  BY <1>1, HopPaid, Zenon
<1> HIDE DEF rest
<1>11. k \in Job /\ JobOK(c, k, tbl') /\ \A x \in Objects : Hand(k, x) = Hand(rest, x)
  <2>1. /\ k \in {Continue(rest), last} /\ {} \in SUBSET Oids
        /\ rest.then = IF c = "orch" THEN "done" ELSE "teardown"
    BY <1>1, <1>10, Zenon
  <2> HIDE DEF k, e
  <2> QED
    BY <1>5, <1>10, <2>1, AfterRelease, ZenonT(60)
<1>12. n + Hand(q, o) = References("hop", r) + Hand(k, o)
  <2>1. Hand(rest, o) \in 0..2
    BY HandIsNat, Zenon
  <2>2. Hand(k, o) = Hand(rest, o)
    BY <1>2, <1>11, Zenon
  <2> QED
    BY <1>3, <1>10, <2>1, <2>2
<1>13. \A x \in Objects : x # o => Hand(k, x) = Hand(q, x)
  BY <1>10, <1>11, Zenon
<1> HIDE DEF f, k, n
<1>14. /\ tbl' \in TblType /\ tbl'.hops = [tbl.hops EXCEPT ![r] = f]
       /\ tbl'.routes = tbl.routes /\ tbl'.groups = tbl.groups /\ tbl'.l3 = tbl.l3
  <2>1. tbl \in TblType
    BY CallFacts, Zenon
  <2> QED
    BY <1>2, <1>7, <1>9, <2>1, ZenonT(60) DEF TblType
<1>15. (\A s \in Rifs : s # r => tbl'.hops[s] = tbl.hops[s]) /\ tbl'.hops[r] = f
  <2>1. tbl.hops \in [Rifs -> Entry \cup {None}]
    BY CallFacts, Zenon DEF TblType
  <2> QED
    BY <1>2, <1>14, <2>1, ZenonT(60)
<1>16. IF n = 0 THEN tbl'.hops[r] = None ELSE tbl'.hops[r] # None /\ tbl'.hops[r].refs = n
  BY <1>9, <1>15, Zenon
<1>17. tbl.hops[r] # None /\ asic' \in AsicType /\ faults' \in Nat /\ Becomes(c, k)
  BY <1>4, <1>7, CallFacts, ZenonT(60)
<1>20. HopMove(c, k, r, n)
  BY <1>2, <1>5, <1>11, <1>12, <1>13, <1>14, <1>15, <1>16, <1>17, ZenonT(60) DEF HopMove
<1> QED
  BY <1>2, <1>5, <1>11, <1>12, <1>13, <1>14, <1>15, <1>16, <1>17, <1>20, HopStep, Zenon

LEMMA ReleaseGroupKeeps ==
  ASSUME CountInv, NEW c \in Clients, job[c].pc = "release", Owed(job[c]).group # {},
         ReleaseGroup(c, Owed(job[c]).group, Paid(job[c], WithGroup(Owed(job[c]), {}))),
         asic' = asic, made' = made, faults' = faults
  PROVE  CountInv'
<1> DEFINE q == job[c]
           key == Owed(q).group
           mine == {x \in tbl.groups : x.key = key}
           g == CHOOSE x \in mine : TRUE
           rest == Paid(q, WithGroup(Owed(q), {}))
           o == <<"group", key>>
           last == Freeing(rest, "free_group", g.oid, key)
           n == References("group", key) - 1
           f == [g EXCEPT !.refs = n]
           hs == IF n = 0 THEN tbl.groups \ {g} ELSE (tbl.groups \ {g}) \cup {f}
           k == IF n = 0 THEN last ELSE Continue(rest)
<1>1. /\ q \in Job /\ Owned(c, q) /\ Owed(q) \in Held
      /\ q.then = IF c = "orch" THEN "done" ELSE "teardown"
      /\ \A x \in Objects : Holds(Owed(q), x[1], x[2]) => References(x[1], x[2]) # 0
  BY OwedIsHeld, Zenon
<1>2. key \in Keys /\ o \in Objects /\ Holds(Owed(q), o[1], o[2])
  BY <1>1, Zenon DEF Held, Objects, Holds, Keys
<1>3. References("group", key) # 0
  BY <1>1, <1>2, Zenon
<1>4. /\ References("group", key) \in Nat /\ tbl.groups \in SUBSET Group
      /\ \A x \in tbl.groups : x.key = key => x.refs = References("group", key)
      /\ \A x, y \in tbl.groups : x.key = key /\ y.key = key => x = y
      /\ (\A x \in tbl.groups : x.key # key) => References("group", key) = 0
  BY <1>2, GroupEntries, Zenon
<1>5. mine # {}
  BY <1>3, <1>4, Zenon
<1>6. g \in tbl.groups /\ g.key = key /\ \A x \in tbl.groups : x.key = key => x = g
  BY <1>4, <1>5, Zenon
<1>7. tbl' = [tbl EXCEPT !.groups = hs] /\ Becomes(c, k)
  <2>1. \/ /\ ~LastReference(g) /\ Becomes(c, Continue(rest))
           /\ tbl' = [tbl EXCEPT !.groups = (@ \ {g}) \cup {Unshared(g)}]
        \/ /\ LastReference(g) /\ Becomes(c, last)
           /\ tbl' = [tbl EXCEPT !.groups = @ \ {g}]
    BY <1>5, Zenon DEF ReleaseGroup
  <2> HIDE DEF g
  <2>2. g.refs = References("group", key)
    BY <1>4, <1>6, ZenonT(60)
  <2>3. Unshared(g) = f /\ (LastReference(g) <=> n = 0)
    <3>1. LastReference(g) <=> n = 0
      BY <1>3, <1>4, <2>2 DEF LastReference
    <3> QED
      BY <2>2, <3>1, Zenon DEF Unshared
  <2> QED
    BY <2>1, <2>3, Zenon
<1> HIDE DEF g, key
<1>8. n \in Nat /\ g.oid \in Oids
  BY <1>3, <1>4, <1>6 DEF Group
<1>9. hs \in SUBSET Group /\ GroupsMove(tbl.groups, hs, key, n)
  <2>1. CASE n = 0
    <3>1. hs = tbl.groups \ {g}
      BY <2>1, Zenon
    <3> HIDE DEF n, hs
    <3> QED
      BY <1>2, <1>4, <1>6, <2>1, <3>1, GroupDropped, ZenonT(60)
  <2>2. CASE n # 0
    <3>1. hs = (tbl.groups \ {g}) \cup {f} /\ n \in Nat \ {0}
      BY <1>8, <2>2, Zenon
    <3> HIDE DEF n, hs
    <3>2. f \in Group /\ GroupsMove(tbl.groups, (tbl.groups \ {g}) \cup {f}, key, n)
      BY <1>2, <1>4, <1>6, <3>1, GroupRecounted, ZenonT(60)
    <3> QED
      BY <1>4, <3>1, <3>2, ZenonT(60)
  <2> QED
    BY <2>1, <2>2, Zenon
<1>10. /\ rest \in Job /\ Owned(c, rest) /\ rest.then = q.then
       /\ Hand(rest, o) + 1 = Hand(q, o)
       /\ \A x \in Objects : x # o => Hand(rest, x) = Hand(q, x)
  BY <1>1, <1>2, GroupPaid, ZenonT(60) DEF key
<1> HIDE DEF rest
<1>11. k \in Job /\ JobOK(c, k, tbl') /\ \A x \in Objects : Hand(k, x) = Hand(rest, x)
  <2>1. /\ k \in {Continue(rest), last} /\ key \in SUBSET Oids
        /\ rest.then = IF c = "orch" THEN "done" ELSE "teardown"
    BY <1>1, <1>2, <1>10, Zenon DEF Keys
  <2> HIDE DEF k
  <2> QED
    BY <1>8, <1>10, <2>1, AfterRelease, ZenonT(60)
<1>12. n + Hand(q, o) = References("group", key) + Hand(k, o)
  <2>1. Hand(rest, o) \in 0..2
    BY HandIsNat, Zenon
  <2>2. Hand(k, o) = Hand(rest, o)
    BY <1>2, <1>11, Zenon
  <2> QED
    BY <1>3, <1>4, <1>10, <2>1, <2>2
<1>13. \A x \in Objects : x # o => Hand(k, x) = Hand(q, x)
  BY <1>10, <1>11, Zenon
<1> HIDE DEF hs, k, n
<1>14. /\ tbl' \in TblType /\ tbl'.groups = hs /\ tbl'.hops = tbl.hops
       /\ tbl'.routes = tbl.routes /\ tbl'.l3 = tbl.l3
  <2>1. tbl \in TblType
    BY CallFacts, Zenon
  <2> QED
    BY <1>7, <1>9, <2>1, ZenonT(60) DEF TblType
<1>15. asic' \in AsicType /\ faults' \in Nat /\ Becomes(c, k)
  BY <1>7, CallFacts, Zenon
<1>16. KeyMove(c, k, key, n)
  BY <1>6, <1>9, <1>12, <1>13, <1>14, ZenonT(60) DEF KeyMove
<1> QED
  BY <1>2, <1>8, <1>11, <1>14, <1>15, <1>16, GroupStep, ZenonT(60)

LEMMA ReleaseKeeps ==
  ASSUME CountInv, NEW c \in Clients, Release(c)
  PROVE  CountInv'
<1> DEFINE rec == Owed(job[c])
           x == Releases(rec)
<1>1. job[c].pc = "release" /\ asic' = asic /\ made' = made /\ faults' = faults
  BY Zenon DEF Release, At
<1>2. rec \in Held /\ rec # Nothing
  BY <1>1, OwedIsHeld, Zenon
<1>3. \/ x[1] = "hop" /\ ReleaseHop(c, x[2], Paid(job[c], WithoutHop(rec, x[2])))
      \/ x[1] = "group" /\ ReleaseGroup(c, x[2], Paid(job[c], WithGroup(rec, {})))
  BY Zenon DEF Release
<1>4. CASE rec.group # {}
  <2>1. x[1] = "group" /\ x[2] = rec.group
    BY <1>4, Zenon DEF Releases
  <2>2. ReleaseGroup(c, rec.group, Paid(job[c], WithGroup(rec, {})))
    BY <1>3, <2>1, Zenon
  <2> QED
    BY <1>1, <1>4, <2>2, ReleaseGroupKeeps, ZenonT(60)
<1>5. CASE rec.group = {}
  <2>1. rec.hops # {}
    BY <1>2, <1>5, Zenon DEF Held, Nothing
  <2> DEFINE r == CHOOSE y \in rec.hops : TRUE
  <2>2. r \in rec.hops
    BY <2>1, Zenon
  <2>3. x[1] = "hop" /\ x[2] = r
    BY <1>5, Zenon DEF Releases
  <2>4. ReleaseHop(c, r, Paid(job[c], WithoutHop(rec, r)))
    BY <1>3, <2>3, Zenon
  <2> HIDE DEF r
  <2> QED
    BY <1>1, <2>2, <2>4, ReleaseHopKeeps, ZenonT(60)
<1> QED
  BY <1>4, <1>5, Zenon

-----------------------------------------------------------------------------
(* Together                                                                *)

\* Every step of syncd keeps the counts exact.
LEMMA SyncdStepKeeps ==
  ASSUME CountInv, SyncdStep
  PROVE  CountInv'
<1>1. ASSUME NEW c \in Clients, HandlerStep(c)
      PROVE  CountInv'
  BY <1>1, ReleaseKeeps, FreeHopKeeps, FreeMemberKeeps, FreeGroupKeeps, WithdrawKeeps,
     DropNeighborKeeps, ZenonT(60)
     DEF HandlerStep
<1>2. CASE RouteStep
  BY <1>2, TakeHopKeeps, CreateHopKeeps, InsertHopKeeps, TakeGroupKeeps, CreateGroupKeeps,
     AddMemberKeeps, InsertGroupKeeps, ReplaceKeeps, UnrouteKeeps,
     CreateRouteKeeps, RecordRouteKeeps, ZenonT(60) DEF RouteStep
<1>3. CASE NeighborStep
  BY <1>3, StaleNeighborKeeps, CreateNeighborKeeps, ZenonT(60) DEF NeighborStep
<1>4. CASE AddressStep
  BY <1>4, TeardownRouteKeeps, TeardownNeighborKeeps, RemoveRifKeeps, BindKeeps, ZenonT(60)
     DEF AddressStep
<1> QED
  BY <1>1, <1>2, <1>3, <1>4, Zenon DEF SyncdStep

\* A call of orch with nothing in hand ends.
LEMMA OrchEndsKeeps ==
  ASSUME CountInv, job["orch"].pc \in {"idle", "done"}, Becomes("orch", Idle),
         asic' = asic, tbl' = tbl, made' = made, faults' = faults
  PROVE  CountInv'
<1>1. "orch" \in Clients
  BY Zenon DEF Clients
<1>2. EmptyHanded(job["orch"])
  BY <1>1, CallFacts, ZenonT(60) DEF JobOK, Plain
<1>3. Idle \in Job /\ EmptyHanded(Idle) /\ JobOK("orch", Idle, tbl')
  BY <1>1, IdleIsOK, Zenon
<1> QED
  BY <1>1, <1>2, <1>3, CallFacts, SameTable, NbrStep, ZenonT(60) DEF Becomes

LEMMA CountStutter ==
  ASSUME CountInv, UNCHANGED fibVars
  PROVE  CountInv'
<1>1. FibTypeOK' /\ JobsOK' /\ RifsOK'
  BY Zenon DEF CountInv, FibTypeOK, JobsOK, RifsOK, fibVars
<1>2. \A kind, x : References(kind, x)' = References(kind, x)
  BY Zenon DEF References, fibVars
<1>3. HopCounts' /\ GroupCounts'
  BY <1>2, Zenon DEF CountInv, HopCounts, GroupCounts, fibVars
<1> QED
  BY <1>1, <1>3, Zenon DEF CountInv

LEMMA InitCounts ==
  ASSUME DestsCount, FibInit
  PROVE  CountInv
<1>1. /\ asic = [rifs |-> {<<i, 1>> : i \in Interfaces}, hops |-> {}, groups |-> {},
                 fwd |-> [p \in Dests |-> None], nbrs |-> {}]
      /\ tbl = [l3 |-> [i \in Interfaces |-> <<i, 1>>], hops |-> [r \in Rifs |-> None],
                groups |-> {}, routes |-> [p \in Dests |-> None],
                nbrs |-> [i \in Interfaces |-> None]]
      /\ job = [c \in Clients |-> Idle] /\ made = [i \in Interfaces |-> 1] /\ faults = 0
  BY Zenon DEF FibInit
<1>2. \A i \in Interfaces : <<i, 1>> \in Rifs
  BY FibAssumption DEF Rifs
<1>3. asic \in AsicType
  BY <1>1, <1>2, Zenon DEF AsicType
<1>4. tbl \in TblType
  BY <1>1, <1>2, ZenonT(60) DEF TblType
<1>5. job \in [Clients -> Job] /\ made \in [Interfaces -> 1..MaxRifs] /\ faults \in Nat
  BY <1>1, FibAssumption, IdleIsOK
<1>6. FibTypeOK
  BY <1>3, <1>4, <1>5, Zenon DEF FibTypeOK
<1>7. JobsOK
  BY <1>1, IdleIsOK, Zenon DEF JobsOK
<1>8. RifsOK
  BY <1>1, Zenon DEF RifsOK
<1>9. \A o \in Objects : References(o[1], o[2]) = 0
  <2> TAKE o \in Objects
  <2>1. Hand(job["orch"], o) = 0 /\ Hand(job["mgmtd"], o) = 0
    BY <1>1, IdleIsOK, EmptyHand, Zenon DEF Clients
  <2>2. {p \in Dests : tbl.routes[p] # None /\ Holds(tbl.routes[p], o[1], o[2])} = {}
    BY <1>1, Zenon
  <2>3. Recorded(tbl, o) = 0
    BY <2>2, Zenon DEF Recorded, DestsCount
  <2> QED
    BY <1>6, <2>1, <2>3, ReferencesSplit
<1>10. HopCounts
  <2> SUFFICES ASSUME NEW r \in Rifs
               PROVE  References("hop", r) = 0 /\ tbl.hops[r] = None
    BY Zenon DEF HopCounts
  <2>1. <<"hop", r>> \in Objects
    BY Zenon DEF Objects
  <2> QED
    BY <1>1, <1>9, <2>1, Zenon
<1>11. GroupCounts
  <2>1. \A k \in Keys : References("group", k) = 0
    <3> TAKE k \in Keys
    <3>1. <<"group", k>> \in Objects
      BY Zenon DEF Objects
    <3> QED
      BY <1>9, <3>1, Zenon
  <2> QED
    BY <1>1, <2>1, Zenon DEF GroupCounts
<1> QED
  BY <1>6, <1>7, <1>8, <1>10, <1>11, ZenonT(60) DEF CountInv

\* The counts are what the invariant of the runs asks for.
LEMMA CountsAreExact ==
  ASSUME CountInv
  PROVE  ReferencesAreCounted
<1>1. asic.fwd \in [Dests -> Targets \cup {None}] /\ tbl.routes \in [Dests -> Held \cup {None}]
  BY Zenon DEF CountInv, FibTypeOK, AsicType, TblType
<1> QED
  BY <1>1, ZenonT(60) DEF CountInv, HopCounts, GroupCounts, ReferencesAreCounted

LEMMA NextKeepsCounts ==
  ASSUME CountInv, [FibNext]_fibVars
  PROVE  CountInv'
<1>1. CASE SyncdStep
  BY <1>1, SyncdStepKeeps, Zenon
<1>2. CASE OrchCalls
  <2>1. ASSUME NEW i \in Interfaces, EnsureNeighbor(i) \/ RemoveNeighbor(i)
        PROVE  CountInv'
    BY <2>1, EnsureNeighborKeeps, RemoveNeighborKeeps, Zenon
  <2>2. ASSUME NEW p \in Dests, RemoveRoute(p) \/ \E w \in Route : Sane(w) /\ EnsureRoute(p, w)
        PROVE  CountInv'
    BY <2>2, RemoveRouteKeeps, EnsureRouteKeeps, Zenon
  <2> QED
    BY <1>2, <2>1, <2>2, Zenon DEF OrchCalls
<1>3. CASE OrchEnds
  BY <1>3, OrchEndsKeeps, Zenon DEF OrchEnds
<1>4. CASE MgmtdSets
  BY <1>4, SetAddressKeeps, ClearAddressKeeps, Zenon DEF MgmtdSets
<1> QED
  BY <1>1, <1>2, <1>3, <1>4, CountStutter, Zenon DEF FibNext

INSTANCE FiniteSetTheorems

\* Sets of destinations are finite, which is how they count.
LEMMA DestsAreCounted == DestsCount
<1>1. Cardinality({}) = 0
  BY FS_EmptySet, ZenonT(60)
<1>2. ASSUME NEW S \in SUBSET Dests
      PROVE  /\ Cardinality(S) \in Nat /\ (Cardinality(S) = 0 => S = {})
             /\ \A p \in S : Cardinality(S \ {p}) = Cardinality(S) - 1
  <2>1. IsFiniteSet(S)
    BY FibAssumption, FS_Subset, ZenonT(60)
  <2> QED
    BY <2>1, FS_CardinalityType, FS_EmptySet, FS_RemoveElement, ZenonT(60)
<1> QED
  BY <1>1, <1>2, ZenonT(60) DEF DestsCount

\* The counts of next hops and groups in syncd's forwarding table are exact,
\* whatever the calls of orch (ensure_route, remove_route and their kin) and of
\* mgmtd (set and clear address) interleave with, whichever SAI calls fail, and
\* for any number of destinations, interfaces and next hops, as long as no
\* client drops a call it has begun (FibPipelineProofs: orch does not, when it
\* restarts between its passes).
THEOREM CountsAreAlwaysExact == FibSpec => []ReferencesAreCounted
<1>1. FibInit => CountInv
  BY DestsAreCounted, InitCounts
<1>2. CountInv /\ [FibNext]_fibVars => CountInv'
  BY NextKeepsCounts
<1>3. CountInv => ReferencesAreCounted
  BY CountsAreExact
<1> QED
  BY <1>1, <1>2, <1>3, PTL DEF FibSpec
=============================================================================
