# Hemlock in TLA+

This directory specifies and verifies parts of Hemlock, a network operating system for
whitebox switches. Each module is a translation of the Rust sources named beside it; each run
is a TLC model check of a small instance; the `*Proofs` modules hold TLAPS proofs for every
instance. `PROJECT.json` maps every definition to the source lines it stands for.

## The system

| Part | What it does | Modelled in |
|---|---|---|
| `hemlock-mgmtd` store | candidate, running configuration and rollback ring as files | `Store`, `CalmStore`, `RollbackRing` |
| `hemlock-mgmtd` engine | commit, commit-confirm, rollback, apply to the daemons and the kernel, replay at start | `CommitEngine`; call by call in `ApplyPlan` |
| `hemlock-mgmtd` intents and appliers | configuration text to typed intents, files of other daemons | what validation accepts and the differences of the syncd families, in `L2Pipeline` and `ApplyPlan` |
| `hemlock-syncd` layer 2 | VLANs, switchports, routed ports, LAGs, L2 multicast | `SyncdL2`; multicast groups in `Snoop` |
| `hemlock-syncd` FIB | routes, next hops, ECMP groups, neighbours | `SyncdFib` |
| `hemlock-syncd` security and QoS | access lists, 802.1X and redirect entries; maps, schedulers, WRED | `SyncdAcl`, `SyncdQos` |
| `hemlock-sai` | the SAI trait; mock, vendor and OpenBCM backends | the mock's contract, in the syncd modules |
| `hemlock-orch` LACP and its pusher | bundles and their gates | `Lacp`; static bundles with the pusher in `L2Pipeline` |
| `hemlock-orch` spanning tree | roles and states of ports | `Stp` |
| `hemlock-orch` IGMP/MLD snooping | multicast groups and their pushers | `Snoop` |
| `hemlock-orch` DHCP snooping, relay, ARP inspection | bindings, their file, redirects | `SnoopSec` |
| `hemlock-orch` RIB and its pusher | kernel routes to the FIB | `FibPipeline` |
| image install (`hemlock-common`, mgmtd, webd, `hemlockctl`) | replacing the system image in place | `ImageInstall` |
| `hemlock-pmon`, `hemlock-config`, `hemlock-platform`, installer, the rest of webd and `hemlockctl` | environment, language, libraries, CLI | not modelled |

mgmtd and orch call syncd over gRPC, concurrently. syncd's handlers read a table, await the
ASIC actor at every SAI call with no lock held, and write the table afterwards, so calls of the
two daemons interleave at SAI calls. orch's engines decide and separate pusher tasks carry the
decisions to syncd. mgmtd serialises its own operations with one mutex. The store, the boot
files and orch's DHCP bindings are persistent; after a restart mgmtd replays the running
configuration, and orch re-derives its state from the kernel and from syncd's dump.

## Modules

**`Store`** (`store.rs`). The variables are the files (`running.conf`, `running.json`,
`candidate.conf`, the ring's `N.conf` and `N.json`) and the program counter of the one call in
progress. One action per file operation; a write truncates before it fills, a rename is atomic;
`Abort`, a crash or an I/O error, may come between any two. `before` remembers what a reader
saw when the call began. **`RollbackRing`** is what the store promises: a commit and a change of
the candidate as single steps. **`CalmStore`** chooses at the start whether a behaviour may abort
and states the refinement, `ImplementsRing`, of those that may not: the contents at the start of
the call are mapped to the abstract state, so the abstract step is taken when the call returns.

**`CommitEngine`** (`service.rs`, `main.rs`). A configuration is a value for each of a set of
keys, and each key belongs to a family of the apply order. `BeginCommit`, `PushSucceeds`,
`PushFails`, `Persist` are the steps of `apply_and_persist` under the mutex; `TimerFires` and
`TimerRuns` are the sleep of a confirmation task and its taking of the mutex, which come apart;
`BeginReplay`, `EndReplay` and `ReplayOs` are the replay task; mgmtd, syncd, orch or the whole box
may restart at any point. `dev` is what the devices and the kernel hold, `dirty` what a failure, a
crash or a restart has touched since it was last pushed.

**`ApplyPlan`** (`service.rs` of mgmtd and of syncd). The single calls of a commit and of a replay,
in the order of `apply_and_persist` and `replay_running`, with what syncd refuses: a reference to
what is not there, the removal of what is in use. A call is one step here. `halfway` holds the
configurations a commit was cut off on, `scars` the parts a commit is known to leave behind wrong.

**`SyncdL2`** (`service.rs`, `state.rs`, `mock.rs`). A handler is the sequence of table and SAI
operations it computes from the tables when it starts; each operation is a step, accepted or
refused by the ASIC. **`L2Pipeline`** composes it with mgmtd's commit plan for these families,
orch's LACP engine for static bundles, and `push_gates` with its retries. `lost` are the LAGs an
update of which was given up or met a `remove_lag`.

**`SyncdFib`** (`service.rs`, `mock.rs`). Next hops are keyed by router interface (RIF) and
counted; groups are keyed by their members and counted. `job[c]` is where the call of a client
is: `ensure_route` takes its next hops, then its group, takes the old record, removes and
creates the route, writes the record and releases what the old one held. A SAI call and the write
of the table after it are two steps: a next hop or a group that was created is in nobody's table until it
is inserted, the members of a group are added one by one, and a group that cannot be completed is taken
apart again. Clearing an address
tears down what rides the RIF first. One gateway per interface stands for all; connected routes
and My-MAC entries are left out. A refused `create_route` changes nothing here, as on hardware;
the mock overwrites the route before it returns its error. `FibSpec` is the table under any calls
its two clients may make, one at a time each.
**`FibPipeline`** (`rib.rs`, `main.rs`) adds the kernel's tables, the wanted program, the mirror
and the passes of `push_fib`, on a change and on the 30 s tick, and restarts of orch. The constant
`RestartInCall` says whether a restart may come inside a pass, where it also ends the handler of the
call in flight (tonic drops it with the connection; that is the library's behaviour, not this
repository's code), or only between passes.

**`SyncdAcl`** (`security.rs`). Access lists and bindings (mgmtd), 802.1X enforcement, snooping
redirects and Port-Channel membership (tasks of orch), each caller a lane. Every lock section is a step:
`bind_port_acl_impl` finds its ports under one lock and inserts the binding under another, `remove_lag` and
`set_lag_members` read the LAG and write it later, and `apply_port_stage` of a slot, a port and a stage,
resolves the list (`ResolveSlot`), takes a snapshot (`StartSlot`) and makes one SAI call or table write per
step; `Work` computes the steps from the snapshot. `MaxMeetings` bounds how often two handlers may be inside
one slot. `excuse` marks slots the code leaves behind (*stale*: a failing call never reached them, their
Port-Channel was removed, or they joined or left it between the two locks of a call) and those two handlers met
in or a SAI call failed in (*damaged*).

**`SyncdQos`** (`qos.rs`). The global maps, the per-port programs, schedulers shared by value and
WRED profiles shared by name, by lock sections and SAI calls. A visit of a port is four sections before its first
SAI call: the program it resolves to (`VisitPort`), the maps it should have (`WantMaps`), the objects of the maps
(`CopyMaps`) and what was applied before (`ComparePort`). `qosOutdated`, `qosDamaged` and `qosTrouble` are the like
of `excuse`.

**`Stp`**, **`Lacp`**, **`Snoop`** (`stp.rs`, `lacp.rs`, `snoop.rs`, `main.rs`). Each engine against its
peers: bridges exchanging BPDUs over cables, two switches at the ends of a port-channel, hosts and
routers on the ports of a VLAN. Every event ends with the evaluation pass of the code, `step()`. Time
is discrete; a unit ends when every engine has ticked and every frame and link event of the unit was
handled or lost, while pushers may lag behind. Ages are counted up to the bound where the code stops
telling them apart. `Snoop` includes the two pushers and syncd's L2 multicast handlers, which work from what their
table says (`l2mcTable`), not from what the ASIC holds (`l2mc`). One host per port stands for all that listen there,
and `Slack` is the 10 s both hold times add.

**`SnoopSec`** (`snoopsec.rs`, `main.rs`). A handler runs under the engine's mutex and is one step;
writing the file of bindings truncates it before it is filled; `push_redirects` computes under the mutex
and sends after giving it up, on two threads. `granted` is what the servers granted and when, as the clients
know it; a lease may be of no duration, which binds its host until the next sweep. Of `handle_arp` the check against
the bindings is modelled; the `validate` checks before it look at the message alone.

**`ImageInstall`** (`image.rs`, `maint.rs`, mgmtd's `install_image`). The boot files, `<file>.new`, the
overlay and its two neighbours, webd's staging area, and the requests of the operators. A power cut
tears what is being written and what was not yet written back. `cutShort` counts the installs that ended between
copying and placing an overlay since one was placed, and `cutTore` says that a power cut tore one. `MayCancel` says whether a caller may
go away during its install.

The `MC*` modules instantiate these. `MCFlash` joins the store and the install, `MCProtocols` the three
timed protocols, `MCPolicies` access lists, QoS, plan and `SnoopSec`: the joined parts share no
state, so each behaviour is about one of them, chosen in the initial state.

## Runs

| Run | Shows |
|---|---|
| `store_crash` | with crashes anywhere and a ring of 3: the previous configuration and every rollback point but the oldest survive, and without them the files implement `RollbackRing`; boot files are whole at every moment; a whole overlay is in place or moved aside during an install and after the first one cut short, unless a power cut tore it |
| `engine_faults` | two timers, three configurations, two faults: divergence of the devices is confined to what a fault touched; an expired timer never rolls back a confirmed configuration, and restores the text its commit replaced unless an older window's task still waits |
| `engine_replay` | every confirmation window closes; the replay ends and what the configuration mentions was in place |
| `engine_lost_window` | *violated* by one fault: a later commit that is rejected or fails, or a restart of mgmtd, drops the pending confirmation and the unconfirmed configuration stays |
| `l2_pipeline` | commits and link events in four scenarios (without faults, with failing SAI calls, a port that joins, leaves, is routed or gets a switchport, port-channels that go): tables and ASIC agree between calls, nothing bridges untagged frames in two VLANs of its programs even within a call, nor in the default VLAN beside one except where leaving a LAG put it there, once settled bridging and bundles are as configured, a dead link keeps its gate open only while the closing update is queued or was given up, and commits and pushes end |
| `fib_pipeline` | an address goes and comes back and, once, the kernel's tables change, orch restarts **between passes** or a SAI call fails: reference counts are exact on every error path, a recorded route is installed over exactly its interfaces, and without SAI faults nothing leaks and between passes the ASIC ends up forwarding what is asked |
| `fib_restart_in_call` | *violated*: orch restarts inside an `ensure_route`, between `create_route` and the record; the route stays in the ASIC, no dump shows it and every later `ensure_route` of that destination is refused |
| `control_protocols` | spanning tree never closes a loop and comes to rest on one tree; a LACP cable that carries frames one way leaves the bundle in bounded time, gates open with min-links members or by fallback only, and bundles settle; multicast groups reach the ASIC, a listener is kept while fewer answers are lost than the robustness variable, a silent group goes |
| `policies` | access lists and QoS programs are in force and their objects counted and freed exactly, an 802.1X deny stays in force through edits, rules keep their counters; a commit's or replay's calls are accepted and lead to what is configured; ARP inspection follows the leases, those of no duration too, and redirects the configuration, through restarts |
| `acl_two_handlers` | *violated*: two handlers inside one slot each create a table, and one of the two stays in the ASIC for good |
| `plan_replay` | *violated*: a commit removes a VLAN under a static MAC entry that stays configured; every later replay is refused at that entry |
| `image_cancelled` | *violated*: an operator gives up during an install; a second install shares `<file>.new` with it and a boot file is a part of an image |

The violated properties state what a comment or document of the repository says; the findings in
`PROJECT.json` quote it.

`FibConverges` is checked twice. It holds in `fib_pipeline`, where `RestartInCall` is FALSE, and fails in
`fib_restart_in_call`, where it is TRUE; with FALSE the instance of the second run satisfies it too. With
`RestartInCall` TRUE, `ReferencesAreCounted` and `NothingLeaks` fail as well, for the same reason: the
dropped handler's references are in no record. What `fib_pipeline` shows is therefore limited to restarts
between passes. In the same way `BootFilesAreWhole` holds while no request is dropped (`store_crash`) and
fails when one may be (`image_cancelled`), and the slots of `PolicyInForce` are those two handlers did not
meet in, while `acl_two_handlers` is about the others.

### Bounds

Two ports, VLANs, destinations, interfaces or timers are enough for sharing, moving and racing;
three configurations for a commit that supersedes another; three bridges in a triangle for a loop. Faults
are counted (`MaxFaults` and its kin); one is enough to reach each error path, two to fault its repair.

- `store_crash`: a ring of 3 has a middle slot to rotate over. The two texts a commit can write are
  interchangeable together with their metadata, which `MCSwap` uses as a symmetry. Three requests and one
  trouble of an install let a retry follow a failure while a second operator waits.
- `engine_*`: a ring of 1, where its length matters only for what is kept; `MCSymmetry` swaps the timers.
- `l2_pipeline`: in the calm scenario commits and link events are three together; the configurations of each
  scenario are listed in `MCL2Pipeline`. Two attempts stand for the five of `push_gates`.
- `fib_*`: `MaxEvents` bounds kernel changes, restarts and faults together (one in `fib_pipeline`, so a fault
  and a restart are not combined; two in `fib_restart_in_call`, where no address changes), and `MaxRifs = 2`
  lets an address go and return once. `MaxOids` bounds simultaneous objects, leaked ones included: ids are
  reused when nothing mentions them, and `Fresh` never runs out in the runs.
- `control_protocols`: one event (a cable, a configuration, for LACP also a direction that fails) per protocol,
  two for snooping with one failing call, and frames lost at any time. Spanning tree starts from every
  bridge believing itself the root, and three configurations may replace the first one (spanning tree off, a guarded port, a better
  priority with an edge port); path costs are bounded by `MaxCost`. The hello
  time, the fast LACP interval and half a query interval are the units.
- `policies`: two operator or protocol events per behaviour for access lists and QoS, three for the plan and for
  `SnoopSec`, with one failing call; one list that is edited, changes family or goes, one WRED profile, three
  sets of maps, ten plan configurations, one host with two addresses and leases of none and one unit.

### Fairness

`CommitEngine`: the holder of the mutex goes on (weak); tokio's mutex is a FIFO queue, so a task
that keeps asking gets it (strong). `L2Pipeline` and `FibPipeline`: every task and handler keeps running
(weak); the 30 s interval is one branch of a `select!` whose branches are polled in random order,
so it is eventually taken although changes may always be ready too (strong). The timed protocols: time goes on
(`[]<><<StpTick>>` and its kin), which makes the engines tick and frames arrive or be lost, since a unit ends
only then; snooping's pushers keep running (weak). Nothing is assumed of operators, links, the kernel, losses
or failures. The counters that bound those make them finite.

### What the properties leave out

Some of what the code does is worded around in the passing properties, or disagrees with a comment or a
document and has no run of its own. Where a definition is named, it states the expectation and is
found violated when added to a configuration of its module.

- Store: a crash between `running.conf` and `running.json` leaves a text with the metadata of another
  commit. The proved invariants are about texts.
- Engine: a restart of syncd or orch alone is not followed by a replay, and `needs_syncd_replay` does not look
  at every family that is replayed. `ReplayConverges` is about restarts of mgmtd and of the box, and
  only where a replay was asked for. `ExpiryRestoresItsOwnCommit`: an expired task that waited for the mutex
  behind a newer confirmed commit takes that commit's confirmation and restores the text from before its own.
  `ExpiryUndoesItsCommit` says what it restores in all other cases. `WindowCloses` says only that a window closes.
- Plan: `Unreachable` lists the commits the order of the calls cannot carry out, `Scars` what an accepted one
  leaves wrong: a VLAN that moves to an MST instance with a lower number, a VLAN that returns under a switchport
  program or static entry that did not change, a mirror session that loses only its destination. A commit cut off
  half-way cannot repeat the removal of an access list.
- L2: taking a port out of a LAG puts it back in the default VLAN whatever the port is by then
  (`SwitchportIsAsApplied`). A port that leaves a LAG for a switchport of its own is then in both VLANs untagged:
  `UntaggedInOneVlan` allows that where `putBack` records it, and `BridgeMatchesConfig` sets such ports aside, with those
  that lose their address while in a LAG (`Strays`). `set_lag_members` that is refused half-way because a member is routed is dropped, although the comment at
  the pusher expects a retry, and one that overlaps a `remove_lag` leaves members in the ASIC that the
  tables forget: such a LAG is in `lost`. Suspending or removing a VLAN does not look at port-channels, and the
  configurations keep clear of that. A call that fails half-way leaves the tables as they were, so
  `BridgeMatchesConfig` and `TablesMatchAsic` are stated without SAI faults.
- FIB: `remove_route` drops its record and only logs a SAI error, so `FibConverges` and
  `NothingLeaks` are stated without SAI faults. Every 30 s tick removes and re-creates every route, so
  `FibConverges` speaks of the times between passes. `RifRemovedUnused`: an `ensure_route` in flight takes its
  next hop after `fib_teardown_rif` took its snapshot, and the RIF is removed under it.
- Access lists: `FormerMemberIsFree`: `remove_lag` refreshes neither lists nor QoS programs on its former members,
  which keep what they had (*stale*) until a later call reaches them. The same holds of a port that joins or leaves a
  Port-Channel between the lock under which a bind, an unbind or a QoS call finds its ports and the one under which it
  writes, or whose list or program is gone when the refresh looks for it.
- QoS: `FreedOnLastUnbind`: after `apply_port_qos` failed half-way the next visit releases the old profile a
  second time; counts are stated where that has not happened (`qosTrouble`).
- Spanning tree: `encode_bpdu` sends message age 0, so bridges refresh the vector of a root that is gone from each
  other, at rising cost. Path costs are bounded by the instance, and `TreeComesToRest` is not about a root that becomes
  worse, nor about bridges left with spanning tree off or with a guarded port.
- Snooping: `ScopeCoversMrouters`: the IGMP and the MLD engine push the scope of unknown multicast over each other's.
  The pushers try once, and a reconcile that fails half-way leaves the ASIC and the table different: `GroupsReachAsic`
  and `SilentGroupGoes` are about behaviours in which no push failed.
- DHCP and ARP: `NewestIsSentLast`, `OfferIsHeard` (a relayed offer goes to the port the client was bound to before)
  and `StaticIsHonoured` (a dynamic binding hides the static one of its host). `RedirectsFollow` excuses an older program
  sent last, a push given up and a restart of syncd (`outOfStep`). A crash while the file is being
  written, or after a write that failed, costs the bindings.
- Image: `OverlayStaysInPlace`: a failure between the two renames leaves no overlay in place; it is moved aside, and
  a second install removes it before it has copied its own, so a second failure may cost it. `copy_dir` syncs nothing:
  a power cut after the old overlay was removed may tear the new one. `OverlayIsKept` leaves out both.

## Proofs

Everything below is checked by `tlapm` to the last leaf and holds for every value of the constants that
satisfies the named assumptions of the modules (`StoreAssumption`, `EngineAssumption`, `LacpAssumption`,
`SnoopAssumption`, `LeasesAreTimes`, `FibAssumption`, `PipelineAssumption`, and, where absence has a name of
its own, `NamesAreDistinct`): any number of ports, timers, texts, hosts, events and faults, any ring size, any
timer values. None of the invariants is inductive as it stands; each proof goes through one that is.

| Module | Theorems | The inductive invariant, and why it is needed |
|---|---|---|
| `StoreProofs` | `StoreTypeOK`, `PreviousConfigAlwaysSurvives`, `RotationAlwaysLosesOnlyTheOldest` | `CommitProgress` says for each step of a commit what each file holds by then: which slots the rotation has moved, and that nothing is overwritten before it was copied |
| | `StoreImplementsRing` | `RingInv` adds what a call that will not be aborted still has to do (`CalmProgress`), so that its return is exactly one step of `RollbackRing` |
| `CommitEngineProofs` | `EngineTypeOK`, `ExpiryAlwaysUndoesItsCommit` | `WindowInv`: while a commit or an auto-rollback holds the engine no confirmation is pending, and a pending one is of an unconfirmed configuration whose predecessor is the newest rollback entry |
| | `DivergenceIsAlwaysExplained` | `JobOK`: the remaining pushes of an apply contain no kernel object, and the target of a replay is the running configuration |
| `ImageInstallProofs` | `InstallsAreSerialized`, `BootFilesAreAlwaysWhole`, `OverlayIsAlwaysKept`, assuming `~MayCancel`; `ImageTypes` without | `ImageInv`: who is past `read_header` holds the mutex, and what each step of an install has made sure of (`SureOf`) |
| `SnoopSecProofs` | `RedirectsAlwaysFollow`, `InspectionAlwaysFollowsLeases` | `RedirectsInv`: what was computed, pushed, queued and sent agree in that order; `LeasesInv`: memory and file against the leases, through the two phases of a write |
| `LacpProofs` | `OneWayIsAlwaysBounded`, `GatesAreAlwaysWhole` | `LacpInv` relates the time an end has been deaf, the age of what its partner heard, the SYNC bit on the wire and the age of what it heard itself: the bound is the sum of two hold times because the information travels twice |
| `SnoopProofs` | `GroupsAlwaysReachAsic` | `GroupsInv`: the last queued update, or the call in progress, or syncd's table, is what change detection compares with; `AsicAgrees`: until a call fails the ASIC holds what the table says |
| | `ListenerIsAlwaysKept` | `ListenersInv`: the age of a membership is bounded by the answers lost in a row and the time since the last query, below the hold time |
| `FibProofs` | `CountsAreAlwaysExact` | `CountInv`, below |
| `FibPipelineProofs` | `PipelineUsesTheTable`, assuming `~RestartInCall` | the mirror, the wanted program and the pushes of a pass are well formed (`PipelineTypeOK`), so each call is one of `FibSpec` |

`CountsAreAlwaysExact` is `FibSpec => []ReferencesAreCounted`: in the table under any interleaving of the calls
of two clients, and any SAI failures, each next hop and group counts exactly the records and calls that
hold it. The two clients' steps interleave between any two SAI calls, so the invariant has to say what is in whose hands at
every step: `CountInv` has the types, what each call has in hand at each program counter (`JobsOK`: in particular, a next
hop or a group that is being created has no recorded twin), that the RIF of an interface is its own (`RifsOK`), and the counts
themselves, with one group per key and a group for every counted key (`HopCounts`, `GroupCounts`). The proof classifies every step: it moves a reference from one hand to another (no count
changes), or takes or gives back one reference together with the count (`HopMove`, `KeyMove`), and counting over
`Dests` is reduced to lemmas on the cardinality of a set that gains or loses one element.

`PipelineUsesTheTable` is `PipelineSpec => FibSpec` under `~RestartInCall`: every step of the pipeline is a step of the
table's specification or leaves it unchanged. Together the two give `ReferencesAreCounted` for the pipeline of
`fib_pipeline`, for all its constants. The assumption is needed: with `RestartInCall` the counts are not exact,
as said above.

Liveness (`WindowCloses`, `ReplayConverges`, `WorkEnds`, `FibConverges`, `TreeComesToRest`, `LagComesToRest`,
`SilentGroupGoes`) is out of the prover's reach and stays with TLC. Only model-checked so far, because
their inductive invariants are large, are also:

- `TablesMatchAsic`, `UntaggedInOneVlan`, `BridgeMatchesConfig`, `DownLinkClosesGate`: a handler is a
  computed sequence of operations here, so the invariant would have to describe every suffix of every sequence;
- `RecordedRouteIsInstalled` and `NothingLeaks`, which need the ASIC's objects beside the counts;
- `PolicyInForce`, `AclNothingLeaks`, `EnforcementIsSteady`, `RuleKeepsItsCounter`, `QosInForce`,
  `SharedIsCounted`, `NothingIsRefused`: computed sequences again, with recursive definitions;
- `CallsAreAccepted`, `HeldAsConfigured`: statements about the order of a plan computed from two configurations;
- `NoForwardingLoop`: an argument over cycles of cables of any length, by induction over data;
- the type invariant of `MCPolicies`.

## What is not modelled

About 9000 source lines, a twelfth of the code base, are mapped: the code that keeps state, decides and
interleaves. Not modelled yet: sessions, 802.1X as a protocol, LLDP ageing, port security and control-plane policing,
SVI addresses and connected routes call by call, list-then-watch loops of orch (`follow_links` lists the ports and
subscribes afterwards, so a change in between is missed until the next one), the fan curve, configuration tree edits,
port-table expansion, the installer, web tokens.

Left out for good: encodings and output formats, packet sockets, sysfs and i2c access, the FFI into
vendor libraries, the web user interface.
