------------------------------ MODULE SnoopSec ------------------------------
(***************************************************************************)
(* DHCP snooping, relay and dynamic ARP inspection in one VLAN: the engine *)
(* of hemlock-orch (snoopsec.rs), the file that keeps its bindings, the    *)
(* two tasks that feed it a configuration and a view of the ports, and the *)
(* pusher of its redirects (main.rs).                                      *)
(*                                                                         *)
(* A handler runs under the engine's mutex and is one step, except that    *)
(* writing the file truncates it before it is filled, and a crash may come *)
(* in between.  push_redirects() runs on the thread of whoever changed the *)
(* configuration or the view; it computes under the mutex and sends after  *)
(* giving it up.  Messages are reduced to the fields parse_dhcp,           *)
(* parse_bootp and parse_arp take out of them, and counters are left out.  *)
(***************************************************************************)
EXTENDS Integers, Sequences, FiniteSets

CONSTANTS
    Hosts,              \* MAC addresses of clients
    Addresses,          \* the addresses a server hands out
    Faceplate,          \* the physical ports
    SnoopSecConfigs, L2Views,   \* what mgmtd and syncd may say
    Leases,             \* the leases an acknowledgement may have, in sweeps
    MaxNow,             \* the bound on time
    MaxRedirectAttempts,\* 5 in main.rs
    MaxSecEvents,       \* bounds configurations, views and messages
    MaxSecFaults        \* bounds crashes and failing writes and calls

ASSUME LeasesAreTimes == Leases \subseteq Nat

VARIABLES
    secConfig,      \* inner.config
    view,           \* inner.view
    dynamics,       \* inner.dynamics: host -> binding
    pending,        \* inner.pending: host -> port
    pushed,         \* inner.pushed_redirects
    saving,         \* Some(what the file held before), while it is being written
    file,           \* dhcp-bindings.json: Some(table), or None when it is not JSON
    pushThread,     \* where push_redirects() is, on the thread of each feeder
    redirectQueue, redirectTries,   \* the pusher
    redirects,      \* the program syncd holds
    now, swept,     \* time in sweeps, and whether expire_leases() ran in this one
    granted,        \* the lease each host has from a server, and when it got it
    outOfStep,      \* a history: orch and syncd may differ since orch started
    saveFailed,     \* a history: the file is not what the last write was of
    secEvents, secFaults

engineState == <<secConfig, view, dynamics, pending, pushed>>
pusherState == <<pushThread, redirectQueue, redirectTries, redirects>>
leases == <<now, swept, granted>>
worldState == <<leases, outOfStep>>
disk == <<saving, file, saveFailed>>
secVars == <<engineState, pusherState, worldState, disk, secEvents, secFaults>>

NoLease == [ip |-> "none", since |-> 0, until |-> 0]
Nowhere == "nowhere"            \* the empty interface name
None == <<>>
Some(x) == <<x>>
NoHosts == [h \in {} |-> {}]    \* an empty map

DefaultConfig == [snoop |-> FALSE, inspect |-> FALSE, trusted |-> {}, arpTrusted |-> {},
                  statics |-> NoHosts, relay |-> FALSE]
NoView == [ports |-> {}, members |-> NoHosts]
NoRedirects == [dhcp |-> None, arp |-> None]
IdlePush == [pc |-> "idle", program |-> NoRedirects]
Feeders == {"config", "view"}

Without(table, h) == [k \in DOMAIN table \ {h} |-> table[k]]
With(table, h, v) == [k \in DOMAIN table \cup {h} |-> IF k = h THEN v ELSE table[k]]
Unexpired(table) ==
    LET live == {h \in DOMAIN table : table[h].until > now}
    IN  [h \in live |-> table[h]]

-----------------------------------------------------------------------------
(* Redirects                                                               *)

\* The trusted physical ports: the named ports, and the members of a named
\* Port-Channel.
ExpandTrusted(v, names) ==
    UNION {IF n \in DOMAIN v.members THEN v.members[n] ELSE {n} : n \in names}

\* compute_redirects(): DHCP is trapped from untrusted ports and copied from
\* trusted ones, ARP is trapped from untrusted ports.
ComputeRedirects(c, v) ==
    LET trusted == ExpandTrusted(v, c.trusted)
        arpTrusted == ExpandTrusted(v, c.arpTrusted)
    IN  [dhcp |-> IF c.snoop
                  THEN Some([trap |-> v.ports \ trusted, copy |-> v.ports \cap trusted]) ELSE None,
         arp |-> IF c.inspect THEN Some(v.ports \ arpTrusted) ELSE None]

SecEvent == secEvents < MaxSecEvents /\ secEvents' = secEvents + 1
Unlocked == saving = None

\* set_config() and set_l2_view(): a value that does not change anything is
\* ignored; otherwise it is stored, and push_redirects() follows without the lock.
SetSecConfig(c) ==
    /\ Unlocked /\ SecEvent /\ pushThread["config"].pc = "idle" /\ c # secConfig
    /\ secConfig' = c
    /\ pushThread' = [pushThread EXCEPT !["config"].pc = "compute"]
    /\ UNCHANGED <<view, dynamics, pending, pushed, redirectQueue, redirectTries, redirects,
                   worldState, disk, secFaults>>

SetL2View(v) ==
    /\ Unlocked /\ SecEvent /\ pushThread["view"].pc = "idle" /\ v # view
    /\ view' = v
    /\ pushThread' = [pushThread EXCEPT !["view"].pc = "compute"]
    /\ UNCHANGED <<secConfig, dynamics, pending, pushed, redirectQueue, redirectTries, redirects,
                   worldState, disk, secFaults>>

\* Mutant: the gate compares with what syncd holds.
PushRedirectsByArrival(t) ==
    /\ Unlocked /\ pushThread[t].pc = "compute"
    /\ LET program == ComputeRedirects(secConfig, view)
       IN  /\ pushed' = Some(program)
           /\ pushThread' = [pushThread EXCEPT ![t] =
                 IF redirects = program THEN IdlePush
                 ELSE [pc |-> "send", program |-> program]]
    /\ UNCHANGED <<secConfig, view, dynamics, pending, redirectQueue, redirectTries, redirects,
                   worldState, disk, secEvents, secFaults>>

\* push_redirects(), under the lock: compute, and remember what will be sent.
PushRedirects(t) ==
    /\ Unlocked /\ pushThread[t].pc = "compute"
    /\ LET program == ComputeRedirects(secConfig, view)
       IN  /\ pushed' = Some(program)
           /\ pushThread' = [pushThread EXCEPT ![t] =
                 IF pushed = Some(program) THEN IdlePush
                 ELSE [pc |-> "send", program |-> program]]
    /\ UNCHANGED <<secConfig, view, dynamics, pending, redirectQueue, redirectTries, redirects,
                   worldState, disk, secEvents, secFaults>>

\* ... and after it, the send.
SendRedirects(t) ==
    /\ pushThread[t].pc = "send"
    /\ redirectQueue' = Append(redirectQueue, pushThread[t].program)
    /\ pushThread' = [pushThread EXCEPT ![t] = IdlePush]
    /\ outOfStep' = (pushed # Some(pushThread[t].program))
    /\ UNCHANGED <<engineState, redirectTries, redirects, leases, disk,
                   secEvents, secFaults>>

\* push_snoop_redirects(): syncd takes the program ...
PushArrives ==
    /\ redirectQueue # <<>>
    /\ redirects' = Head(redirectQueue)
    /\ redirectQueue' = Tail(redirectQueue) /\ redirectTries' = 0
    /\ UNCHANGED <<engineState, pushThread, worldState, disk, secEvents, secFaults>>

\* ... or the call fails, with the program taken or not, and is tried again up to
\* five times, or no more if syncd refused it (FailedPrecondition).
PushFails ==
    /\ redirectQueue # <<>> /\ secFaults < MaxSecFaults
    /\ redirects' \in {redirects, Head(redirectQueue)}
    /\ \/ /\ redirectTries + 1 < MaxRedirectAttempts
          /\ redirectTries' = redirectTries + 1 /\ UNCHANGED redirectQueue
       \/ redirectTries' = 0 /\ redirectQueue' = Tail(redirectQueue)
    /\ outOfStep' = (outOfStep \/ redirectQueue' = <<>>)
    /\ secFaults' = secFaults + 1
    /\ UNCHANGED <<engineState, pushThread, leases, disk, secEvents>>

\* syncd restarts without any redirect.  Nobody tells the engine: mgmtd's replay
\* brings the configuration it has, which changes nothing.
SyncdForgets ==
    /\ secFaults < MaxSecFaults /\ secFaults' = secFaults + 1
    /\ redirects' = NoRedirects
    /\ outOfStep' = (outOfStep \/ redirectQueue = <<>>)
    /\ UNCHANGED <<engineState, pushThread, redirectQueue, redirectTries, leases, disk,
                   secEvents>>

-----------------------------------------------------------------------------
(* Bindings                                                                *)

\* save_bindings() is called at the end of a handler, with the lock held.
BeginSave == saving' = Some(file) /\ file' = None /\ UNCHANGED saveFailed

\* The file is complete, and the handler gives up the lock.
SaveEnds ==
    /\ saving # None
    /\ file' = Some(dynamics) /\ saving' = None /\ saveFailed' = FALSE
    /\ UNCHANGED <<engineState, pusherState, worldState, secEvents, secFaults>>

\* The file cannot be opened, or the disk is full: that is logged.
SaveFails ==
    /\ saving # None /\ secFaults < MaxSecFaults
    /\ file' \in {None, Head(saving)} /\ saving' = None /\ saveFailed' = TRUE
    /\ secFaults' = secFaults + 1
    /\ UNCHANGED <<engineState, pusherState, worldState, secEvents>>

\* Handlers of DHCP messages change nothing else.
BindingsOnly ==
    UNCHANGED <<secConfig, view, pushed, pusherState, now, swept, outOfStep, secFaults>>

\* A client message.  One whose chaddr is not its source is dropped, as is any
\* in a VLAN that is not snooped.  RELEASE and DECLINE drop the binding; any other
\* message is remembered with its port.
ClientMessage(src, chaddr, port, kind) ==
    /\ Unlocked /\ SecEvent /\ secConfig.snoop
    /\ chaddr = src
    /\ IF kind \in {"release", "decline"}
       THEN /\ dynamics' = Without(dynamics, chaddr) /\ BeginSave
            /\ granted' = [granted EXCEPT ![chaddr] = NoLease]
            /\ UNCHANGED pending
       ELSE /\ pending' = With(pending, chaddr, port)
            /\ UNCHANGED <<dynamics, granted, disk>>
    /\ BindingsOnly

\* An ACK binds the address to the port the client last spoke from, or to the one
\* it was bound to, for its lease (86400 s if it names none, nothing if it is of 0 s).
\* A NAK ends the transaction.
Reply(h, kind, ip) ==
    \/ /\ kind = "ack"
       /\ LET port == IF h \in DOMAIN pending THEN pending[h]
                      ELSE IF h \in DOMAIN dynamics THEN dynamics[h].interface ELSE Nowhere
          IN  \E lease \in Leases :
                /\ dynamics' = With(dynamics, h, [ip |-> ip, interface |-> port,
                                                  until |-> now + lease])
                /\ granted' = [granted EXCEPT ![h] = [ip |-> ip, since |-> now,
                                                      until |-> now + lease]]
       /\ pending' = Without(pending, h)
       /\ BeginSave
    \/ /\ kind = "nak"
       /\ pending' = Without(pending, h)
       /\ UNCHANGED <<dynamics, granted, disk>>

\* A copied server message: taken from a trusted port only.
ServerMessage(h, port, kind, ip) ==
    /\ Unlocked /\ SecEvent /\ secConfig.snoop
    /\ port \in ExpandTrusted(view, secConfig.trusted) \cup secConfig.trusted
    /\ Reply(h, kind, ip)
    /\ BindingsOnly

\* A server's reply on the relay socket, for a VLAN that is relayed.
RelayReply(h, kind, ip) ==
    /\ Unlocked /\ SecEvent /\ secConfig.relay
    /\ Reply(h, kind, ip)
    /\ BindingsOnly

\* expire_leases(), every five seconds.
ExpireLeases ==
    /\ Unlocked /\ ~swept
    /\ swept' = TRUE
    /\ dynamics' = Unexpired(dynamics)
    /\ IF dynamics' # dynamics THEN BeginSave ELSE UNCHANGED disk
    /\ UNCHANGED <<secConfig, view, pending, pushed, pusherState, now, granted, outOfStep,
                   secEvents, secFaults>>

\* Mutant: clearing forgets to write the file.
ClearBindingsUnsaved(hosts) ==
    /\ Unlocked /\ SecEvent
    /\ dynamics' = [h \in DOMAIN dynamics \ hosts |-> dynamics[h]]
    /\ granted' = [h \in Hosts |-> IF h \in hosts THEN NoLease ELSE granted[h]]
    /\ UNCHANGED <<secConfig, view, pending, pushed, pusherState, now, swept, outOfStep,
                   disk, secFaults>>

\* clear_bindings(): one host's or all.
ClearBindings(hosts) ==
    /\ Unlocked /\ SecEvent
    /\ dynamics' = [h \in DOMAIN dynamics \ hosts |-> dynamics[h]]
    /\ granted' = [h \in Hosts |-> IF h \in hosts THEN NoLease ELSE granted[h]]
    /\ IF dynamics' # dynamics THEN BeginSave ELSE UNCHANGED disk
    /\ UNCHANGED <<secConfig, view, pending, pushed, pusherState, now, swept, outOfStep,
                   secFaults>>

SecTick ==
    /\ swept /\ now < MaxNow
    /\ now' = now + 1 /\ swept' = FALSE
    /\ UNCHANGED <<engineState, pusherState, granted, outOfStep, disk, secEvents,
                   secFaults>>

\* load_bindings(): what is unexpired in a readable file.
LoadBindings(content) == IF content = None THEN NoHosts ELSE Unexpired(Head(content))

\* orch restarts.  A crash inside a write loses the table, as does one after a
\* write that failed; the servers' leases that are lost with it are forgotten here.
RestartEngine ==
    /\ secFaults < MaxSecFaults /\ secFaults' = secFaults + 1
    /\ dynamics' = LoadBindings(file)
    /\ granted' = IF saving = None /\ ~saveFailed THEN granted
                  ELSE [h \in Hosts |-> IF h \in DOMAIN dynamics'
                                        THEN [ip |-> dynamics'[h].ip, since |-> now,
                                              until |-> dynamics'[h].until]
                                        ELSE NoLease]
    /\ secConfig' = DefaultConfig /\ view' = NoView /\ pending' = NoHosts /\ pushed' = None
    /\ pushThread' = [t \in Feeders |-> IdlePush]
    /\ redirectQueue' = <<>> /\ redirectTries' = 0
    /\ outOfStep' = FALSE
    /\ saving' = None /\ saveFailed' = FALSE
    /\ UNCHANGED <<file, redirects, now, swept, secEvents>>

\* The daemons are up: mgmtd and syncd have spoken, and syncd has its program.
SecInit ==
    /\ secConfig \in SnoopSecConfigs /\ view \in L2Views
    /\ pushed = Some(ComputeRedirects(secConfig, view))
    /\ redirects = ComputeRedirects(secConfig, view)
    /\ dynamics = NoHosts /\ pending = NoHosts
    /\ saving = None /\ file = Some(NoHosts) /\ saveFailed = FALSE
    /\ pushThread = [t \in Feeders |-> IdlePush]
    /\ redirectQueue = <<>> /\ redirectTries = 0
    /\ now = 0 /\ swept = TRUE
    /\ granted = [h \in Hosts |-> NoLease]
    /\ outOfStep = FALSE
    /\ secEvents = 0 /\ secFaults = 0

Messages ==
    \/ \E h, g \in Hosts, p \in Faceplate, k \in {"request", "release"} : ClientMessage(h, g, p, k)
    \/ \E h \in Hosts, k \in {"ack", "nak"}, ip \in Addresses :
          \/ \E p \in Faceplate : ServerMessage(h, p, k, ip)
          \/ RelayReply(h, k, ip)

\* Nothing to do is not a deadlock.
SecRest == Unlocked /\ UNCHANGED secVars

SecNext ==
    \/ \E c \in SnoopSecConfigs : SetSecConfig(c)
    \/ \E v \in L2Views : SetL2View(v)
    \/ \E t \in Feeders : PushRedirects(t) \/ SendRedirects(t)
    \/ PushArrives \/ PushFails \/ SyncdForgets
    \/ SaveEnds \/ SaveFails
    \/ Messages
    \/ ExpireLeases \/ SecTick
    \/ \E hosts \in {{h} : h \in Hosts} \cup {Hosts} : ClearBindings(hosts)
    \/ RestartEngine
    \/ SecRest

SecSpec == SecInit /\ [][SecNext]_secVars

-----------------------------------------------------------------------------
(* Properties                                                              *)

\* The binding check of handle_arp(): may this sender speak for the address?  A
\* dynamic binding decides if there is one, otherwise a static one.  The checks
\* before it (ValidateSrcMac and its kin) look at the message alone, and refuse
\* what does not agree with itself.
Passes(h, ip) ==
    /\ secConfig.inspect
    /\ IF h \in DOMAIN dynamics THEN dynamics[h].ip = ip
       ELSE h \in DOMAIN secConfig.statics /\ secConfig.statics[h] = ip

Leased(h) == granted[h] # NoLease /\ granted[h].until > now

\* The state of the engine, the file and the pusher is of its type.
SecTypeOK ==
    /\ DOMAIN dynamics \subseteq Hosts /\ DOMAIN pending \subseteq Hosts
    /\ \A h \in DOMAIN dynamics :
          /\ dynamics[h].ip \in Addresses /\ dynamics[h].interface \in Faceplate \cup {Nowhere}
          /\ \E lease \in Leases : dynamics[h].until \in 0 .. MaxNow + lease
    /\ \A h \in DOMAIN pending : pending[h] \in Faceplate
    /\ \A t \in Feeders : pushThread[t].pc \in {"idle", "compute", "send"}
    /\ redirectTries \in 0 .. MaxRedirectAttempts - 1 /\ now \in 0 .. MaxNow

\* ARP inspection passes what the servers granted, across releases, expiry,
\* clearing and restarts of orch ("the lease-tracked binding table (persisted across
\* restarts ...)"): a host with a lease can speak for its address, and after a sweep
\* nobody speaks for an address without a static binding or a lease that runs or was
\* granted since (a lease of no time is bound until the next sweep).  A crash inside
\* a write of the file, or after one that failed, is excused.
InspectionFollowsLeases ==
    secConfig.inspect => \A h \in Hosts :
        /\ Leased(h) => Passes(h, granted[h].ip)
        /\ swept => \A ip \in Addresses : Passes(h, ip) =>
              \/ granted[h].ip = ip /\ (Leased(h) \/ granted[h].since = now)
              \/ h \in DOMAIN secConfig.statics /\ secConfig.statics[h] = ip

RedirectsAtRest ==
    /\ \A t \in Feeders : pushThread[t].pc = "idle"
    /\ redirectQueue = <<>> /\ pushed # None

\* "Recompute and (change-gated) emit the redirect program": whatever order the
\* configuration and the view change in, and however often orch restarts, at rest
\* syncd traps what the two ask for.  Three troubles are excused until a newer
\* program is sent or orch restarts: the pusher gave up, syncd restarted, or, as the
\* program is sent without the lock, an older one was sent last.
RedirectsFollow ==
    RedirectsAtRest /\ ~outOfStep => redirects = ComputeRedirects(secConfig, view)

\* The same without the last excuse; it does not hold.
NewestIsSentLast ==
    RedirectsAtRest /\ secFaults = 0 => redirects = ComputeRedirects(secConfig, view)

\* The ports a relayed reply without the broadcast flag goes to.
RelayTargets(h) ==
    IF h \in DOMAIN dynamics /\ dynamics[h].interface # Nowhere
    THEN {dynamics[h].interface} ELSE view.ports

\* "a station that has no address cannot receive a unicast": a client that asks
\* for an address hears the offer.  It does not hold for one that is bound to the
\* port it was on before.
OfferIsHeard ==
    \A h \in DOMAIN pending : view.ports # {} /\ pending[h] \in view.ports =>
        pending[h] \in RelayTargets(h)

\* "the sender (MAC, VLAN) must hold sender IP per the snooping table or a static":
\* it does not hold, a dynamic binding hides the static one of its host.
StaticIsHonoured ==
    secConfig.inspect => \A h \in DOMAIN secConfig.statics : Passes(h, secConfig.statics[h])
=============================================================================
