--------------------------- MODULE SnoopSecProofs ---------------------------
(***************************************************************************)
(* Proofs about DHCP snooping, ARP inspection and the redirects, for every *)
(* set of hosts, addresses, configurations and views and any number of     *)
(* messages, crashes and failures.                                         *)
(***************************************************************************)
EXTENDS SnoopSec, TLAPS

\* A table of bindings, in memory or in the file.
BindingsOK(table) ==
    /\ DOMAIN table \subseteq Hosts
    /\ \A h \in DOMAIN table : table[h].ip \in Addresses /\ table[h].until \in Nat

\* What the content of a file is read as, before load_bindings() drops what expired.
Read(content) == IF content = None THEN NoHosts ELSE Head(content)
Kept == Read(file)

Live(table, h) == h \in DOMAIN table /\ table[h].until > now

FileTyped ==
    /\ saveFailed \in BOOLEAN
    /\ BindingsOK(Kept) /\ (saving # None => BindingsOK(Read(Head(saving))))

LeaseType == [ip : Addresses \cup {NoLease.ip}, since : Nat, until : Nat]

LeasesTyped ==
    /\ now \in Nat /\ swept \in BOOLEAN
    /\ granted \in [Hosts -> LeaseType]
    /\ BindingsOK(dynamics) /\ FileTyped

\* The table and the servers agree; only an expired lease, before the next sweep,
\* is in the table and no longer granted, or one granted since for no time.
TableFollowsLeases ==
    /\ \A h \in Hosts : granted[h].until > now => h \in DOMAIN dynamics
    /\ \A h \in DOMAIN dynamics :
          granted[h].ip = dynamics[h].ip /\ granted[h].until = dynamics[h].until
    /\ swept => \A h \in DOMAIN dynamics : dynamics[h].until > now \/ granted[h].since = now

\* The file holds what is live, unless it is being written or could not be.
FileFollowsTable ==
    saving = None /\ ~saveFailed => \A h \in Hosts :
        /\ Live(Kept, h) <=> Live(dynamics, h)
        /\ Live(Kept, h) => Kept[h] = dynamics[h]

\* The inductive invariant for ARP inspection.
LeasesInv == LeasesTyped /\ TableFollowsLeases /\ FileFollowsTable

\* The program that was sent last: the one at the end of the queue, or the one that
\* arrived.
LastSent ==
    IF redirectQueue = <<>> THEN redirects ELSE redirectQueue[Len(redirectQueue)]

Configs == SnoopSecConfigs \cup {DefaultConfig}
Views == L2Views \cup {NoView}
Programs == {ComputeRedirects(c, v) : c \in Configs, v \in Views} \cup {NoRedirects}

RedirectsTyped ==
    /\ secConfig \in Configs /\ view \in Views
    /\ pushThread \in [Feeders -> [pc : {"idle", "compute", "send"}, program : Programs]]
    /\ redirectQueue \in Seq(Programs)

\* The change gate: with no feeder between its change and its computation, what is
\* remembered is what the configuration and the view ask for.
GateIsCurrent ==
    (\A t \in Feeders : pushThread[t].pc # "compute") =>
        pushed \in {None, Some(ComputeRedirects(secConfig, view))}

\* With no feeder between its computation and its send, what was sent last is what
\* is remembered.
SentIsCurrent ==
    (\A t \in Feeders : pushThread[t].pc # "send") /\ ~outOfStep =>
        pushed \in {None, Some(LastSent)}

\* The inductive invariant for the redirects.
RedirectsInv == RedirectsTyped /\ GateIsCurrent /\ SentIsCurrent

-----------------------------------------------------------------------------
(* Optional values                                                         *)

LEMMA SomeFacts == \A x, y : Some(x) # None /\ Head(Some(x)) = x /\ (Some(x) = Some(y) <=> x = y)
  BY DEF Some, None

-----------------------------------------------------------------------------
(* Redirects                                                               *)

\* The queue of the pusher: sending makes a program the last one, and taking the
\* first away changes the last one only if there was one.
LEMMA QueueFacts ==
    ASSUME NEW S, NEW q \in Seq(S)
    PROVE  /\ \A x \in S : /\ Append(q, x) \in Seq(S) /\ Append(q, x) # <<>>
                           /\ Append(q, x)[Len(Append(q, x))] = x
           /\ q # <<>> => /\ Tail(q) \in Seq(S) /\ Head(q) \in S
                          /\ Tail(q) = <<>> => Head(q) = q[Len(q)]
                          /\ Tail(q) # <<>> => Tail(q)[Len(Tail(q))] = q[Len(q)]
  OBVIOUS

LEMMA ProgramFacts ==
    /\ NoRedirects \in Programs
    /\ secConfig \in Configs /\ view \in Views => ComputeRedirects(secConfig, view) \in Programs
    /\ IdlePush \in [pc : {"idle", "compute", "send"}, program : Programs] /\ IdlePush.pc = "idle"
<1>1. NoRedirects \in Programs
  BY DEF Programs
<1> QED BY <1>1 DEF Programs, IdlePush

LEMMA RedirectsInitInv == SecInit => RedirectsInv
<1> SUFFICES ASSUME SecInit PROVE RedirectsInv
  BY Zenon
<1>1. RedirectsTyped
  BY ProgramFacts DEF SecInit, RedirectsTyped, Configs, Views
<1>2. GateIsCurrent
  BY Zenon DEF SecInit, GateIsCurrent
<1>3. SentIsCurrent
  BY Zenon DEF SecInit, SentIsCurrent, LastSent
<1> QED BY <1>1, <1>2, <1>3, Zenon DEF RedirectsInv

\* A feeder that goes on is at its next step with its program; the other stays.
LEMMA FeederFacts ==
    ASSUME RedirectsTyped, NEW t \in Feeders,
           NEW push \in [pc : {"idle", "compute", "send"}, program : Programs],
           pushThread' = [pushThread EXCEPT ![t] = push]
    PROVE  /\ pushThread' \in [Feeders -> [pc : {"idle", "compute", "send"}, program : Programs]]
           /\ pushThread'[t] = push
           /\ \A u \in Feeders \ {t} : pushThread'[u] = pushThread[u]
  BY Zenon DEF RedirectsTyped

LEMMA ChangeFacts ==
    ASSUME RedirectsTyped, NEW t \in Feeders,
           pushThread' = [pushThread EXCEPT ![t].pc = "compute"]
    PROVE  /\ pushThread' \in [Feeders -> [pc : {"idle", "compute", "send"}, program : Programs]]
           /\ pushThread'[t].pc = "compute"
           /\ \A u \in Feeders \ {t} : pushThread'[u] = pushThread[u]
  BY Zenon DEF RedirectsTyped

\* What the steps outside the redirects leave alone.
redirectState ==
    <<secConfig, view, pushed, pushThread, redirectQueue, redirects, outOfStep>>

LEMMA RedirectsInvKept == RedirectsInv /\ [SecNext]_secVars => RedirectsInv'
<1> SUFFICES ASSUME RedirectsInv, [SecNext]_secVars PROVE RedirectsInv'
  BY Zenon
<1>a. RedirectsTyped /\ GateIsCurrent /\ SentIsCurrent
  BY Zenon DEF RedirectsInv
<1>1. ASSUME NEW c \in SnoopSecConfigs, SetSecConfig(c) PROVE RedirectsInv'
  <2> DEFINE t == "config"
  <2>1. /\ pushThread' \in [Feeders -> [pc : {"idle", "compute", "send"}, program : Programs]]
        /\ pushThread'[t].pc = "compute" /\ pushThread[t].pc = "idle" /\ t \in Feeders
        /\ \A u \in Feeders \ {t} : pushThread'[u] = pushThread[u]
    BY <1>1, <1>a, ChangeFacts, Zenon DEF SetSecConfig, Feeders
  <2>2. SentIsCurrent'
    BY <1>1, <1>a, <2>1, Zenon DEF SetSecConfig, SentIsCurrent, LastSent, worldState
  <2>3. GateIsCurrent'
    BY <2>1, Zenon DEF GateIsCurrent
  <2>4. RedirectsTyped'
    BY <1>1, <1>a, <2>1, Zenon DEF SetSecConfig, RedirectsTyped, Configs
  <2> QED BY <2>2, <2>3, <2>4, Zenon DEF RedirectsInv
<1>2. ASSUME NEW v \in L2Views, SetL2View(v) PROVE RedirectsInv'
  <2> DEFINE t == "view"
  <2>1. /\ pushThread' \in [Feeders -> [pc : {"idle", "compute", "send"}, program : Programs]]
        /\ pushThread'[t].pc = "compute" /\ pushThread[t].pc = "idle" /\ t \in Feeders
        /\ \A u \in Feeders \ {t} : pushThread'[u] = pushThread[u]
    BY <1>2, <1>a, ChangeFacts, Zenon DEF SetL2View, Feeders
  <2>2. SentIsCurrent'
    BY <1>2, <1>a, <2>1, Zenon DEF SetL2View, SentIsCurrent, LastSent, worldState
  <2>3. GateIsCurrent'
    BY <2>1, Zenon DEF GateIsCurrent
  <2>4. RedirectsTyped'
    BY <1>2, <1>a, <2>1, Zenon DEF SetL2View, RedirectsTyped, Views
  <2> QED BY <2>2, <2>3, <2>4, Zenon DEF RedirectsInv
<1>3. ASSUME NEW t \in Feeders, PushRedirects(t) PROVE RedirectsInv'
  <2> DEFINE program == ComputeRedirects(secConfig, view)
             push == IF pushed = Some(program) THEN IdlePush
                     ELSE [pc |-> "send", program |-> program]
  <2>1. program \in Programs
    BY <1>a, ProgramFacts, Zenon DEF RedirectsTyped
  <2>2. pushed' = Some(program) /\ pushThread' = [pushThread EXCEPT ![t] = push]
        /\ UNCHANGED <<secConfig, view, redirectQueue, redirects, outOfStep>>
    BY <1>3, Zenon DEF PushRedirects, worldState
  <2>3. ComputeRedirects(secConfig, view)' = program
    BY <2>2, Zenon DEF ComputeRedirects, ExpandTrusted
  <2> HIDE DEF program
  <2>4. push \in [pc : {"idle", "compute", "send"}, program : Programs]
    BY <2>1, ProgramFacts, Zenon
  <2>5. /\ pushThread' \in [Feeders -> [pc : {"idle", "compute", "send"}, program : Programs]]
        /\ pushThread'[t] = push
        /\ \A u \in Feeders \ {t} : pushThread'[u] = pushThread[u]
    BY <1>a, <2>2, <2>4, FeederFacts, Zenon
  <2>6. SentIsCurrent'
    <3>1. CASE pushed = Some(program)
      <4>1. pushThread[t].pc # "send" /\ pushThread'[t].pc # "send" /\ pushed' = pushed
        BY <1>3, <2>2, <2>5, <3>1, ProgramFacts, Zenon DEF PushRedirects
      <4> QED BY <1>a, <2>2, <2>5, <4>1, Zenon DEF SentIsCurrent, LastSent
    <3>2. CASE pushed # Some(program)
      <4>1. pushThread'[t].pc = "send"
        BY <2>5, <3>2
      <4> QED BY <4>1, Zenon DEF SentIsCurrent
    <3> QED BY <3>1, <3>2, Zenon
  <2>7. GateIsCurrent'
    BY <2>2, <2>3, Zenon DEF GateIsCurrent
  <2>8. RedirectsTyped'
    BY <1>a, <2>2, <2>5, Zenon DEF RedirectsTyped
  <2> QED BY <2>6, <2>7, <2>8, Zenon DEF RedirectsInv
<1>4. ASSUME NEW t \in Feeders, SendRedirects(t) PROVE RedirectsInv'
  <2> DEFINE program == pushThread[t].program
  <2>1. program \in Programs /\ redirectQueue \in Seq(Programs)
    BY <1>a, Zenon DEF RedirectsTyped
  <2>2. /\ redirectQueue' = Append(redirectQueue, program) /\ UNCHANGED <<secConfig, view, pushed>>
        /\ pushThread' = [pushThread EXCEPT ![t] = IdlePush]
        /\ outOfStep' = (pushed # Some(program)) /\ pushThread[t].pc = "send"
    BY <1>4, Zenon DEF SendRedirects, engineState
  <2>3. /\ pushThread' \in [Feeders -> [pc : {"idle", "compute", "send"}, program : Programs]]
        /\ pushThread'[t].pc = "idle"
        /\ \A u \in Feeders \ {t} : pushThread'[u] = pushThread[u]
    BY <1>a, <2>2, FeederFacts, ProgramFacts, Zenon
  <2> HIDE DEF program
  <2>4. redirectQueue' \in Seq(Programs) /\ LastSent' = program
    BY <2>1, <2>2, QueueFacts DEF LastSent
  <2>5. SentIsCurrent'
    BY <2>2, <2>4, Zenon DEF SentIsCurrent
  <2>6. GateIsCurrent'
    <3>1. ComputeRedirects(secConfig, view)' = ComputeRedirects(secConfig, view)
      BY <2>2, Zenon DEF ComputeRedirects, ExpandTrusted
    <3> QED BY <1>a, <2>2, <2>3, <3>1, Zenon DEF GateIsCurrent
  <2>7. RedirectsTyped'
    BY <1>a, <2>2, <2>3, <2>4, Zenon DEF RedirectsTyped
  <2> QED BY <2>5, <2>6, <2>7, Zenon DEF RedirectsInv
<1>5. ASSUME PushArrives \/ PushFails \/ SyncdForgets PROVE RedirectsInv'
  <2>1. UNCHANGED <<secConfig, view, pushed, pushThread>>
    BY <1>5, Zenon DEF PushArrives, PushFails, SyncdForgets, engineState
  <2>2. redirectQueue \in Seq(Programs)
    BY <1>a, Zenon DEF RedirectsTyped
  <2>3. redirectQueue' \in Seq(Programs) /\ (~outOfStep' => ~outOfStep /\ LastSent' = LastSent)
    <3>1. CASE PushArrives
      BY <3>1, <2>2, QueueFacts, Zenon DEF PushArrives, LastSent, worldState
    <3>2. CASE PushFails
      BY <3>2, <2>2, QueueFacts, ZenonT(60) DEF PushFails, LastSent
    <3>3. CASE SyncdForgets
      BY <3>3, <2>2, Zenon DEF SyncdForgets, LastSent
    <3> QED BY <1>5, <3>1, <3>2, <3>3, Zenon
  <2>4. ComputeRedirects(secConfig, view)' = ComputeRedirects(secConfig, view)
    BY <2>1, Zenon DEF ComputeRedirects, ExpandTrusted
  <2> QED BY <1>a, <2>1, <2>3, <2>4, Zenon DEF RedirectsInv, RedirectsTyped, GateIsCurrent, SentIsCurrent
<1>6. ASSUME RestartEngine PROVE RedirectsInv'
  <2>1. /\ pushed' = None /\ redirectQueue' = <<>> /\ secConfig' = DefaultConfig /\ view' = NoView
        /\ pushThread' = [t \in Feeders |-> IdlePush]
    BY <1>6, Zenon DEF RestartEngine
  <2>2. RedirectsTyped'
    BY <2>1, ProgramFacts DEF RedirectsTyped, Configs, Views
  <2> QED BY <2>1, <2>2, Zenon DEF RedirectsInv, GateIsCurrent, SentIsCurrent
<1>7. ASSUME UNCHANGED redirectState PROVE RedirectsInv'
  <2>1. ComputeRedirects(secConfig, view)' = ComputeRedirects(secConfig, view)
    BY <1>7, Zenon DEF redirectState, ComputeRedirects, ExpandTrusted
  <2> QED BY <1>a, <1>7, <2>1, Zenon DEF redirectState, RedirectsInv, RedirectsTyped, GateIsCurrent,
             SentIsCurrent, LastSent
<1>8. ASSUME \/ SaveEnds \/ SaveFails \/ Messages \/ ExpireLeases \/ SecTick \/ SecRest
             \/ \E hosts \in {{h} : h \in Hosts} \cup {Hosts} : ClearBindings(hosts)
             \/ UNCHANGED secVars
      PROVE  UNCHANGED redirectState
  BY <1>8, Zenon DEF SaveEnds, SaveFails, Messages, ClientMessage, ServerMessage, RelayReply, BindingsOnly,
     ExpireLeases, SecTick, SecRest, ClearBindings, secVars, engineState, pusherState, worldState,
     redirectState
<1> QED BY <1>1, <1>2, <1>3, <1>4, <1>5, <1>6, <1>7, <1>8, Zenon DEF SecNext

\* push_redirects() and its pusher: at rest and in step, syncd traps what the
\* configuration and the ports ask for, for every sequence of changes, sends,
\* failing calls and restarts.
THEOREM RedirectsAlwaysFollow == SecSpec => []RedirectsFollow
<1>1. RedirectsInv => RedirectsFollow
  <2> SUFFICES ASSUME RedirectsInv, RedirectsAtRest, ~outOfStep
               PROVE  redirects = ComputeRedirects(secConfig, view)
    BY Zenon DEF RedirectsFollow
  <2>1. pushed = Some(ComputeRedirects(secConfig, view))
    BY Zenon DEF RedirectsInv, GateIsCurrent, RedirectsAtRest
  <2>2. pushed = Some(redirects)
    BY Zenon DEF RedirectsInv, SentIsCurrent, RedirectsAtRest, LastSent
  <2> QED BY <2>1, <2>2, SomeFacts, Zenon
<1> QED BY <1>1, RedirectsInitInv, RedirectsInvKept, PTL DEF SecSpec

-----------------------------------------------------------------------------
(* Leases                                                                  *)

LEMMA NoHostsFacts == DOMAIN NoHosts = {} /\ BindingsOK(NoHosts)
  BY Zenon DEF NoHosts, BindingsOK

\* What expire_leases() and load_bindings() keep.
LEMMA UnexpiredFacts ==
    ASSUME NEW table
    PROVE  /\ DOMAIN Unexpired(table) = {h \in DOMAIN table : table[h].until > now}
           /\ \A k \in DOMAIN Unexpired(table) : Unexpired(table)[k] = table[k]
  BY Zenon DEF Unexpired

\* A file that is being written is excused.
LEMMA SavingIsExcused ==
    ASSUME BeginSave, LeasesTyped
    PROVE  FileFollowsTable' /\ FileTyped'
<1>1. Kept' = NoHosts
  BY Zenon DEF BeginSave, Kept, Read
<1>2. BindingsOK(Kept)'
  BY <1>1, NoHostsFacts, Zenon DEF BindingsOK
<1>3. saving' # None /\ Read(Head(saving))' = Kept /\ saveFailed' = saveFailed
  BY SomeFacts, Zenon DEF BeginSave, Kept, Read
<1>4. BindingsOK(Read(Head(saving)))'
  BY <1>3, Zenon DEF LeasesTyped, FileTyped, BindingsOK
<1> QED BY <1>2, <1>3, <1>4, Zenon DEF FileFollowsTable, LeasesTyped, FileTyped

LEMMA LeasesInitInv == SecInit => LeasesInv
<1> SUFFICES ASSUME SecInit PROVE LeasesInv
  BY Zenon
<1>1. Kept = NoHosts /\ dynamics = NoHosts
  BY SomeFacts, Zenon DEF SecInit, Kept, Read
<1>2. LeasesTyped
  BY <1>1, NoHostsFacts DEF SecInit, LeasesTyped, LeaseType, FileTyped, NoLease
<1>3. TableFollowsLeases
  BY <1>1, NoHostsFacts DEF SecInit, TableFollowsLeases, NoLease
<1>4. FileFollowsTable
  BY <1>1, Zenon DEF FileFollowsTable
<1> QED BY <1>2, <1>3, <1>4, Zenon DEF LeasesInv

\* An acknowledgement binds a host and a server grants it: the two agree.
LEMMA ReplyKeepsLeases ==
    ASSUME LeasesInv, NEW h \in Hosts, NEW kind, NEW ip \in Addresses, Reply(h, kind, ip),
           now' = now, swept' = swept
    PROVE  LeasesInv'
<1>a. LeasesTyped /\ TableFollowsLeases /\ FileFollowsTable
  BY Zenon DEF LeasesInv
<1>1. CASE UNCHANGED <<dynamics, granted, disk>>
  BY <1>1, <1>a, Zenon
     DEF disk, LeasesInv, LeasesTyped, FileTyped, BindingsOK, TableFollowsLeases,
         FileFollowsTable, Kept, Read, Live
<1>2. CASE ~UNCHANGED <<dynamics, granted, disk>>
  <2>1. PICK lease \in Leases : \E port :
          /\ dynamics' = With(dynamics, h, [ip |-> ip, interface |-> port, until |-> now + lease])
          /\ granted' = [granted EXCEPT ![h] = [ip |-> ip, since |-> now, until |-> now + lease]]
    BY <1>2, Zenon DEF Reply
  <2>2. BeginSave /\ lease \in Nat
    BY <1>2, <2>1, LeasesAreTimes, Zenon DEF Reply
  <2>3. FileFollowsTable' /\ FileTyped'
    BY <1>a, <2>2, SavingIsExcused, Zenon
  <2>4. /\ DOMAIN dynamics' = DOMAIN dynamics \cup {h}
        /\ dynamics'[h].ip = ip /\ dynamics'[h].until = now + lease
        /\ \A k \in DOMAIN dynamics \ {h} : dynamics'[k] = dynamics[k]
    <3>1. PICK port : dynamics' = With(dynamics, h, [ip |-> ip, interface |-> port,
                                                      until |-> now + lease])
      BY <2>1, Zenon
    <3> QED BY <3>1, Zenon DEF With
  <2>5. /\ granted' \in [Hosts -> LeaseType]
        /\ granted'[h].ip = ip /\ granted'[h].since = now /\ granted'[h].until = now + lease
        /\ \A k \in Hosts \ {h} : granted'[k] = granted[k]
    BY <1>a, <2>1, <2>2 DEF LeasesTyped, LeaseType
  <2>6. BindingsOK(dynamics)'
    BY <1>a, <2>2, <2>4 DEF LeasesTyped, BindingsOK
  <2>7. LeasesTyped'
    BY <1>a, <2>3, <2>5, <2>6, Zenon DEF LeasesTyped
  <2>8. TableFollowsLeases'
    BY <1>a, <2>2, <2>4, <2>5 DEF TableFollowsLeases, LeasesTyped, BindingsOK
  <2> QED BY <2>3, <2>7, <2>8, Zenon DEF LeasesInv
<1> QED BY <1>1, <1>2, Zenon

\* Bindings are dropped together with the leases they stand for.
LEMMA DropKeepsLeases ==
    ASSUME LeasesInv, NEW hosts \in SUBSET Hosts, now' = now, swept' = swept,
           DOMAIN dynamics' = DOMAIN dynamics \ hosts,
           \A k \in DOMAIN dynamics \ hosts : dynamics'[k] = dynamics[k],
           granted' = [h \in Hosts |-> IF h \in hosts THEN NoLease ELSE granted[h]]
    PROVE  TableFollowsLeases' /\ BindingsOK(dynamics)'
           /\ granted' \in [Hosts -> LeaseType]
<1>a. LeasesTyped /\ TableFollowsLeases
  BY Zenon DEF LeasesInv
<1>1. granted' \in [Hosts -> LeaseType]
  BY <1>a DEF LeasesTyped, LeaseType, NoLease
<1>2. BindingsOK(dynamics)'
  BY <1>a, Zenon DEF LeasesTyped, BindingsOK
<1>3. NoLease.until = 0
  BY Zenon DEF NoLease
<1>4. TableFollowsLeases'
  BY <1>a, <1>1, <1>3 DEF LeasesTyped, LeaseType, BindingsOK, TableFollowsLeases
<1> QED BY <1>1, <1>2, <1>4, Zenon

LEMMA LeasesInvKept == LeasesInv /\ [SecNext]_secVars => LeasesInv'
<1> SUFFICES ASSUME LeasesInv, [SecNext]_secVars PROVE LeasesInv'
  BY Zenon
<1>a. LeasesTyped /\ TableFollowsLeases /\ FileFollowsTable
  BY Zenon DEF LeasesInv
<1>1. ASSUME UNCHANGED <<dynamics, granted, disk, now, swept>> PROVE LeasesInv'
  BY <1>1, <1>a, Zenon
     DEF disk, LeasesInv, LeasesTyped, FileTyped, BindingsOK, TableFollowsLeases,
         FileFollowsTable, Kept, Read, Live
<1>2. ASSUME \/ \E c \in SnoopSecConfigs : SetSecConfig(c)
             \/ \E v \in L2Views : SetL2View(v)
             \/ \E t \in Feeders : PushRedirects(t) \/ SendRedirects(t)
             \/ PushArrives \/ PushFails \/ SyncdForgets \/ SecRest \/ UNCHANGED secVars
      PROVE  UNCHANGED <<dynamics, granted, disk, now, swept>>
  BY <1>2, Zenon DEF SetSecConfig, SetL2View, PushRedirects, SendRedirects, PushArrives, PushFails,
     SyncdForgets, SecRest, secVars, engineState, worldState, leases
<1>3. ASSUME SaveEnds PROVE LeasesInv'
  <2>1. /\ Kept' = dynamics' /\ saving' = None /\ saveFailed' = FALSE
        /\ UNCHANGED <<dynamics, granted, now, swept>>
    BY <1>3, SomeFacts, Zenon DEF SaveEnds, Kept, Read, engineState, worldState, leases
  <2>2. FileFollowsTable'
    BY <2>1, Zenon DEF FileFollowsTable
  <2> QED BY <1>a, <2>1, <2>2, Zenon DEF LeasesInv, LeasesTyped, FileTyped, TableFollowsLeases, BindingsOK
<1>4. ASSUME SaveFails PROVE LeasesInv'
  <2>1. UNCHANGED <<dynamics, granted, now, swept>> /\ saving' = None /\ saveFailed' = TRUE
    BY <1>4, Zenon DEF SaveFails, engineState, worldState, leases
  <2>2. BindingsOK(Kept)'
    <3>1. Kept' \in {NoHosts, Read(Head(saving))}
      BY <1>4, Zenon DEF SaveFails, Kept, Read
    <3> QED BY <1>4, <1>a, <3>1, NoHostsFacts, Zenon DEF SaveFails, LeasesTyped, FileTyped, BindingsOK
  <2>3. FileFollowsTable'
    BY <2>1, Zenon DEF FileFollowsTable
  <2> QED BY <1>a, <2>1, <2>2, <2>3, Zenon DEF LeasesInv, LeasesTyped, FileTyped, TableFollowsLeases,
          BindingsOK
<1>5. ASSUME Messages PROVE LeasesInv'
  <2>1. now' = now /\ swept' = swept
    BY <1>5, Zenon DEF Messages, ClientMessage, ServerMessage, RelayReply, BindingsOnly
  <2>2. ASSUME NEW h \in Hosts, NEW g \in Hosts, NEW p, NEW k, ClientMessage(h, g, p, k)
        PROVE  LeasesInv'
    <3>1. CASE k \in {"release", "decline"}
      <4>1. /\ dynamics' = Without(dynamics, g) /\ BeginSave
            /\ granted' = [granted EXCEPT ![g] = NoLease]
        BY <2>2, <3>1, Zenon DEF ClientMessage
      <4>2. /\ DOMAIN dynamics' = DOMAIN dynamics \ {g}
            /\ \A i \in DOMAIN dynamics \ {g} : dynamics'[i] = dynamics[i]
        BY <4>1, Zenon DEF Without
      <4>3. granted' = [i \in Hosts |-> IF i \in {g} THEN NoLease ELSE granted[i]]
        BY <1>a, <4>1, Zenon DEF LeasesTyped
      <4>4. TableFollowsLeases' /\ BindingsOK(dynamics)'
            /\ granted' \in [Hosts -> LeaseType]
        BY <2>1, <4>2, <4>3, DropKeepsLeases, Zenon
      <4> QED BY <1>a, <2>1, <4>1, <4>4, SavingIsExcused, Zenon DEF LeasesInv, LeasesTyped
    <3>2. CASE k \notin {"release", "decline"}
      BY <1>1, <2>1, <2>2, <3>2, Zenon DEF ClientMessage
    <3> QED BY <3>1, <3>2, Zenon
  <2>3. ASSUME NEW h \in Hosts, NEW k, NEW ip \in Addresses, Reply(h, k, ip) PROVE LeasesInv'
    BY <2>1, <2>3, ReplyKeepsLeases, Zenon
  <2> QED BY <1>5, <2>2, <2>3, Zenon DEF Messages, ServerMessage, RelayReply
<1>6. ASSUME ExpireLeases PROVE LeasesInv'
  <2>1. dynamics' = Unexpired(dynamics) /\ now' = now /\ granted' = granted /\ swept' = TRUE
    BY <1>6, Zenon DEF ExpireLeases
  <2>2. /\ DOMAIN dynamics' = {h \in DOMAIN dynamics : dynamics[h].until > now}
        /\ \A h \in DOMAIN dynamics' : dynamics'[h] = dynamics[h]
    BY <2>1, UnexpiredFacts, Zenon
  <2>3. BindingsOK(dynamics)'
    BY <1>a, <2>2, Zenon DEF LeasesTyped, BindingsOK
  <2>4. TableFollowsLeases'
    BY <1>a, <2>1, <2>2, ZenonT(60) DEF TableFollowsLeases, LeasesTyped, BindingsOK
  <2>5. FileFollowsTable' /\ FileTyped'
    <3>1. CASE dynamics' = dynamics
      BY <1>6, <1>a, <2>1, <3>1, Zenon DEF ExpireLeases, disk, FileFollowsTable, LeasesTyped, FileTyped,
         BindingsOK, Kept, Read, Live
    <3>2. CASE dynamics' # dynamics
      BY <1>6, <1>a, <3>2, SavingIsExcused, Zenon DEF ExpireLeases
    <3> QED BY <3>1, <3>2, Zenon
  <2> QED BY <1>a, <2>1, <2>3, <2>4, <2>5, Zenon DEF LeasesInv, LeasesTyped
<1>7. ASSUME NEW hosts \in {{h} : h \in Hosts} \cup {Hosts}, ClearBindings(hosts) PROVE LeasesInv'
  <2>1. /\ dynamics' = [h \in DOMAIN dynamics \ hosts |-> dynamics[h]]
        /\ granted' = [h \in Hosts |-> IF h \in hosts THEN NoLease ELSE granted[h]]
        /\ now' = now /\ swept' = swept /\ hosts \in SUBSET Hosts
    BY <1>7 DEF ClearBindings
  <2>2. TableFollowsLeases' /\ BindingsOK(dynamics)'
        /\ granted' \in [Hosts -> LeaseType]
    BY <2>1, DropKeepsLeases, Zenon
  <2>3. FileFollowsTable' /\ FileTyped'
    <3>1. CASE dynamics' = dynamics
      BY <1>7, <1>a, <2>1, <3>1, ZenonT(60) DEF ClearBindings, disk, FileFollowsTable, LeasesTyped, FileTyped,
         BindingsOK, Kept, Read, Live
    <3>2. CASE dynamics' # dynamics
      BY <1>7, <1>a, <3>2, SavingIsExcused, Zenon DEF ClearBindings
    <3> QED BY <3>1, <3>2, Zenon
  <2> QED BY <1>a, <2>1, <2>2, <2>3, Zenon DEF LeasesInv, LeasesTyped
<1>8. ASSUME SecTick PROVE LeasesInv'
  <2>1. /\ now' = now + 1 /\ swept' = FALSE
        /\ UNCHANGED <<dynamics, granted, saving, file, saveFailed>>
    BY <1>8, Zenon DEF SecTick, engineState, disk
  <2>2. FileFollowsTable'
    <3> SUFFICES ASSUME saving = None, ~saveFailed, NEW h \in Hosts
                 PROVE  /\ Live(Kept, h)' <=> Live(dynamics, h)'
                        /\ Live(Kept, h)' => (Kept[h] = dynamics[h])'
      BY <2>1, Zenon DEF FileFollowsTable
    <3>1. Kept' = Kept
      BY <2>1, Zenon DEF Kept, Read
    <3>2. /\ Live(Kept, h) <=> Live(dynamics, h)
          /\ Live(Kept, h) => Kept[h] = dynamics[h]
      BY <1>a, Zenon DEF FileFollowsTable
    <3>3. now \in Nat /\ BindingsOK(Kept) /\ BindingsOK(dynamics)
      BY <1>a, Zenon DEF LeasesTyped, FileTyped
    <3> QED BY <2>1, <3>1, <3>2, <3>3 DEF Live, BindingsOK
  <2>3. TableFollowsLeases'
    BY <1>a, <2>1, SMTT(60) DEF TableFollowsLeases, LeasesTyped, LeaseType, BindingsOK
  <2>4. FileTyped' /\ BindingsOK(dynamics)'
    <3>1. Kept' = Kept /\ Read(Head(saving))' = Read(Head(saving))
      BY <2>1, Zenon DEF Kept, Read
    <3> QED BY <1>a, <2>1, <3>1, Zenon DEF LeasesTyped, FileTyped, BindingsOK
  <2>5. now' \in Nat
    BY <1>a, <2>1 DEF LeasesTyped
  <2>6. swept' \in BOOLEAN
    BY <2>1, Zenon
  <2>7. granted' \in [Hosts -> LeaseType]
    BY <1>a, <2>1, Zenon DEF LeasesTyped
  <2>8. LeasesTyped'
    BY <2>4, <2>5, <2>6, <2>7, Zenon DEF LeasesTyped
  <2> QED BY <2>2, <2>3, <2>8, Zenon DEF LeasesInv
<1>9. ASSUME RestartEngine PROVE LeasesInv'
  <2>1. /\ dynamics' = LoadBindings(file) /\ UNCHANGED <<file, now, swept>>
        /\ saving' = None /\ saveFailed' = FALSE
    BY <1>9, Zenon DEF RestartEngine
  <2>2. /\ DOMAIN dynamics' = {h \in DOMAIN Kept : Kept[h].until > now}
        /\ \A h \in DOMAIN dynamics' : dynamics'[h] = Kept[h]
    BY <2>1, UnexpiredFacts, NoHostsFacts, Zenon DEF LoadBindings, Kept, Read
  <2>3. Kept' = Kept /\ BindingsOK(Kept) /\ now \in Nat
    BY <1>a, <2>1, Zenon DEF Kept, Read, LeasesTyped, FileTyped
  <2>4. BindingsOK(dynamics)' /\ BindingsOK(Kept)'
    BY <2>2, <2>3, Zenon DEF BindingsOK
  <2>5. FileFollowsTable'
    BY <2>1, <2>2, <2>3, Zenon DEF FileFollowsTable, Live, BindingsOK
  <2>6. /\ granted' \in [Hosts -> LeaseType]
        /\ TableFollowsLeases'
    <3>1. CASE saving = None /\ ~saveFailed
      <4>1. granted' = granted
        BY <1>9, <3>1, Zenon DEF RestartEngine
      <4>2. \A h \in Hosts : /\ Live(Kept, h) <=> Live(dynamics, h)
                             /\ Live(Kept, h) => Kept[h] = dynamics[h]
        BY <1>a, <3>1, Zenon DEF FileFollowsTable
      <4>3. \A h \in DOMAIN dynamics' : h \in DOMAIN dynamics /\ dynamics'[h] = dynamics[h]
                                        /\ dynamics'[h].until > now
        BY <2>2, <2>3, <4>2, Zenon DEF Live, BindingsOK
      <4>4. \A h \in Hosts : granted[h].until > now => h \in DOMAIN dynamics'
        BY <1>a, <2>2, <4>2, Zenon DEF Live, TableFollowsLeases
      <4> QED BY <1>a, <2>1, <4>1, <4>3, <4>4, ZenonT(60) DEF TableFollowsLeases, LeasesTyped
    <3>2. CASE ~(saving = None /\ ~saveFailed)
      <4>1. granted' = [h \in Hosts |-> IF h \in DOMAIN dynamics'
                                        THEN [ip |-> dynamics'[h].ip, since |-> now,
                                              until |-> dynamics'[h].until]
                                        ELSE NoLease]
        BY <1>9, <3>2, Zenon DEF RestartEngine
      <4>2. granted' \in [Hosts -> LeaseType]
        BY <2>3, <2>4, <4>1 DEF BindingsOK, LeaseType, NoLease
      <4>3. TableFollowsLeases'
        BY <2>1, <2>2, <2>3, <2>4, <4>1 DEF TableFollowsLeases, BindingsOK, NoLease
      <4> QED BY <4>2, <4>3, Zenon
    <3> QED BY <3>1, <3>2, Zenon
  <2> QED BY <1>a, <2>1, <2>4, <2>5, <2>6, Zenon DEF LeasesInv, LeasesTyped, FileTyped
<1> QED BY <1>1, <1>2, <1>3, <1>4, <1>5, <1>6, <1>7, <1>8, <1>9, Zenon DEF SecNext

\* The lease-tracked binding table and its file (snoopsec.rs): ARP inspection lets
\* a host speak for the address it was granted, and between sweeps for no other,
\* across releases, clearing, expiry, failing writes and restarts of orch.
THEOREM InspectionAlwaysFollowsLeases == SecSpec => []InspectionFollowsLeases
<1>1. LeasesInv => InspectionFollowsLeases
  <2> SUFFICES ASSUME LeasesInv, secConfig.inspect, NEW h \in Hosts
               PROVE  /\ Leased(h) => Passes(h, granted[h].ip)
                      /\ swept => \A ip \in Addresses : Passes(h, ip) =>
                            \/ granted[h].ip = ip /\ (Leased(h) \/ granted[h].since = now)
                            \/ h \in DOMAIN secConfig.statics /\ secConfig.statics[h] = ip
    BY Zenon DEF InspectionFollowsLeases
  <2>1. LeasesTyped /\ TableFollowsLeases /\ NoLease.until = 0
    BY Zenon DEF LeasesInv, NoLease
  <2>2. Leased(h) => Passes(h, granted[h].ip)
    BY <2>1, Zenon DEF TableFollowsLeases, Leased, Passes
  <2>3. ASSUME swept, NEW ip \in Addresses, h \in DOMAIN dynamics, Passes(h, ip)
        PROVE  granted[h].ip = ip /\ (Leased(h) \/ granted[h].since = now)
    BY <2>1, <2>3 DEF TableFollowsLeases, LeasesTyped, LeaseType, Leased, Passes
  <2> QED BY <2>2, <2>3, Zenon DEF Passes
<1> QED BY <1>1, LeasesInitInv, LeasesInvKept, PTL DEF SecSpec
=============================================================================
