-------------------------------- MODULE Stp --------------------------------
(***************************************************************************)
(* The spanning-tree engine of hemlock-orch (stp.rs), run by several       *)
(* bridges that exchange BPDUs over cables.  The engine keeps a record per *)
(* port; every event (tick, link event, BPDU, configuration push) is       *)
(* followed by one evaluation pass, step(), over all the bridge's ports.   *)
(*                                                                         *)
(* Time is discrete: one StpTick is one hello time.  The engine ticks      *)
(* every 500 ms and its mailboxes are drained as they fill, so a unit of   *)
(* time ends only when every bridge has run its tick, every BPDU on the    *)
(* wire was delivered or lost and every link event was handled.  Within a  *)
(* unit the bridges run in any order.                                      *)
(*                                                                         *)
(* A bridge id is the number priority * 10 + bridge: ordered like the pair *)
(* (priority, MAC).  Traffic counters, topology-change counters and the    *)
(* MST region (which steers no transition) are left out.                   *)
(***************************************************************************)
EXTENDS Integers, FiniteSets

CONSTANTS
    Bridges,        \* positive integers below 10
    Cables,         \* sets of two ends; an end is <<bridge, port number>>
    PathCost,       \* cost of each end
    MaxAge,         \* max_age, in hello times
    ForwardTime,    \* forward_time, in hello times
    MaxCost,        \* where saturating_add stops
    StpConfigs,     \* the configurations a bridge may be given
    StartConfig,    \* the one every bridge starts with
    MaxEvents       \* flapping cables, lost BPDUs and configuration pushes

VARIABLES
    cable,          \* is this cable plugged and lit?
    port,           \* the engine's Port record of each end
    config,         \* inner.config of each bridge
    wire,           \* the BPDU in flight towards each end
    ticked,         \* the bridges whose tick of this unit has run
    steady,         \* every bridge has run spanning tree, without edge ports and
                    \* with no worse priority, since the start
    events          \* how many of MaxEvents have happened

stpVars == <<cable, port, config, wire, ticked, steady, events>>

Ends == UNION Cables
EndsOf == [b \in Bridges |-> {e \in Ends : e[1] = b}]
CableOf == [e \in Ends |-> CHOOSE c \in Cables : e \in c]
Peer == [e \in Ends |-> CHOOSE f \in CableOf[e] : f # e]

NoInfo == <<>>
\* The default priority of a port is 128 and every port keeps it, so a port id
\* orders like the port number.
BridgeId(b) == config[b].priority * 10 + b

\* Lexicographic order of equally long tuples: the derived Ord of
\* PriorityVector and of the tuples the engine compares.
Before(u, v) ==
    \E i \in DOMAIN u : u[i] < v[i] /\ \A j \in 1..(i - 1) : u[j] = v[j]

NewPort ==
    [up |-> FALSE, received |-> NoInfo, age |-> 0, role |-> "disabled",
     state |-> "discarding", since |-> 0, tx |-> 1, errdisabled |-> FALSE]

CostVia(e, info) ==
    IF info[2] + PathCost[e] > MaxCost THEN MaxCost ELSE info[2] + PathCost[e]

\* The ports whose current information names a better root than this bridge.
RootCandidates(b, ports) ==
    {e \in EndsOf[b] : /\ ports[e].up /\ ~ports[e].errdisabled
                       /\ ports[e].received # NoInfo
                       /\ ports[e].age < MaxAge
                       /\ ports[e].received[1] < BridgeId(b)}

RootKey(e, info) == <<info[1], CostVia(e, info), info[3], info[4], e[2]>>

\* compute_root: the root, our cost to it and the root port ({} when this
\* bridge is the root).  Ports are visited in name order and a later one must
\* be strictly better, hence the port number at the end of the key.
ComputeRoot(b, ports) ==
    LET candidates == RootCandidates(b, ports)
        Key(e) == RootKey(e, ports[e].received)
        best == {e \in candidates : \A f \in candidates \ {e} : Before(Key(e), Key(f))}
    IN  IF best = {} THEN [root |-> BridgeId(b), cost |-> 0, rootPort |-> {}]
        ELSE LET e == CHOOSE e \in best : TRUE
             IN  [root |-> ports[e].received[1],
                  cost |-> CostVia(e, ports[e].received),
                  rootPort |-> best]
-----------------------------------------------------------------------------
(* step(): one port of the evaluation pass. *)

\* Stale information is dropped.
AgeOut(p) ==
    IF p.received # NoInfo /\ p.age >= MaxAge
    THEN [p EXCEPT !.received = NoInfo, !.age = 0]
    ELSE p

\* The root port is the one compute_root chose; elsewhere what the bridge would
\* send is compared with what it hears.
RoleOf(b, e, p, tree) ==
    CASE e \in tree.rootPort -> "root"
      [] /\ e \notin tree.rootPort
         /\ p.received # NoInfo
         /\ Before(<<p.received[1], p.received[2], p.received[3]>>,
                   <<tree.root, tree.cost, BridgeId(b)>>) -> "alternate"
      [] OTHER -> "designated"

\* A new role starts from discarding.
TakeRole(p, role) ==
    IF p.role = role THEN p
    ELSE [p EXCEPT !.role = role, !.state = "discarding", !.since = 0]

\* Mutant: the forward delay is not waited for.
NextStateHasty(e, p, portfast) ==
    IF p.role \in {"alternate", "disabled"} THEN "discarding" ELSE "forwarding"

\* Mutant: a port stays learning.
NextStateStuck(e, p, portfast) ==
    IF p.role \in {"alternate", "disabled"} \/ p.since < ForwardTime THEN p.state
    ELSE "learning"

NextState(e, p, portfast) ==
    IF p.role \in {"alternate", "disabled"} THEN "discarding"
    ELSE IF portfast THEN "forwarding"
    ELSE IF p.since < ForwardTime THEN p.state
    ELSE CASE p.state = "discarding" -> "learning"
           [] p.state \in {"learning", "forwarding"} -> "forwarding"

Progress(e, p, portfast) ==
    LET next == NextState(e, p, portfast)
    IN  IF next = p.state THEN p ELSE [p EXCEPT !.state = next, !.since = 0]

StepPort(b, e, p, tree) ==
    IF ~p.up \/ p.errdisabled
    THEN [p EXCEPT !.role = "disabled", !.state = "discarding"]
    ELSE LET aged == AgeOut(p)
             roled == TakeRole(aged, RoleOf(b, e, aged, tree))
             moved == Progress(e, roled, e[2] \in config[b].portfast)
         IN  IF moved.role = "designated" /\ moved.tx >= 1 THEN [moved EXCEPT !.tx = 0]
             ELSE moved

\* Spanning tree off: everything with link forwards.
StepNone(p) ==
    [p EXCEPT !.role = "designated",
              !.state = IF p.up /\ ~p.errdisabled THEN "forwarding" ELSE "discarding"]

\* The priority vector encode_bpdu puts on the wire and decode_bpdu takes off it.
\* The message age is always sent as zero.
Bpdu(b, e, tree) == <<tree.root, tree.cost, BridgeId(b), e[2]>>

\* step() of bridge b over the port records `ports`: the new records, and on
\* the wire a BPDU from every designated port whose hello time is over.
Step(b, ports, flying) ==
    LET tree == ComputeRoot(b, ports)
        stepped == [e \in Ends |->
                       IF e \notin EndsOf[b] THEN ports[e]
                       ELSE IF config[b].mode = "none" THEN StepNone(ports[e])
                       ELSE StepPort(b, e, ports[e], tree)]
        sends == {e \in EndsOf[b] : ports[e].tx >= 1 /\ stepped[e].tx = 0}
    IN  /\ port' = stepped
        /\ wire' = [e \in Ends |-> IF Peer[e] \in sends /\ cable[CableOf[e]]
                                   THEN Bpdu(b, Peer[e], tree)
                                   ELSE flying[e]]
-----------------------------------------------------------------------------
(* Events. *)

\* The bridges have just handled the link events ListPorts seeds them with:
\* each takes itself for the root and has sent its first BPDUs.  A cable may
\* still be unplugged.
StpInit ==
    /\ cable \in {lit \in [Cables -> BOOLEAN] : Cardinality({c \in Cables : ~lit[c]}) <= 1}
    /\ config = [b \in Bridges |-> StartConfig]
    /\ port = [e \in Ends |->
                  IF cable[CableOf[e]]
                  THEN [NewPort EXCEPT !.up = TRUE, !.role = "designated", !.tx = 0]
                  ELSE NewPort]
    /\ wire = [e \in Ends |->
                  IF cable[CableOf[e]]
                  THEN LET id == BridgeId(Peer[e][1]) IN <<id, 0, id, Peer[e][2]>>
                  ELSE NoInfo]
    /\ ticked = {}
    /\ steady = TRUE
    /\ events = 0

\* The engine's interval tick, or the wake-up a configuration push sends it:
\* both only run step().
EngineTick(b) ==
    /\ b \notin ticked
    /\ ticked' = ticked \cup {b}
    /\ Step(b, port, wire)
    /\ UNCHANGED <<cable, config, steady, events>>

\* A link event: the port forgets what it heard and starts from discarding.
LinkEvent(e) ==
    /\ port[e].up # cable[CableOf[e]]
    /\ LET p == [port[e] EXCEPT !.up = cable[CableOf[e]],
                                !.received = NoInfo, !.age = 0,
                                !.state = "discarding", !.since = 0]
       IN  Step(e[1], [port EXCEPT ![e] = p], wire)
    /\ UNCHANGED <<cable, config, ticked, steady, events>>

\* What a BPDU does to the port it arrives on.
Hear(b, e, p) ==
    IF e[2] \in config[b].bpduguard /\ ~p.errdisabled
    THEN [p EXCEPT !.errdisabled = TRUE, !.state = "discarding"]
    ELSE IF ~p.errdisabled THEN [p EXCEPT !.received = wire[e], !.age = 0]
    ELSE p

Receive(e) ==
    /\ wire[e] # NoInfo
    /\ Step(e[1], [port EXCEPT ![e] = Hear(e[1], e, port[e])], [wire EXCEPT ![e] = NoInfo])
    /\ UNCHANGED <<cable, config, ticked, steady, events>>

\* set_config: the ports take their configuration, and errdisable is lifted
\* where the guard is gone.  The wake-up makes the engine run step() later.
SetStpConfig(b, c) ==
    /\ events < MaxEvents
    /\ config[b] # c
    /\ config' = [config EXCEPT ![b] = c]
    /\ port' = [e \in Ends |->
                   IF e \in EndsOf[b] /\ e[2] \notin c.bpduguard
                   THEN [port[e] EXCEPT !.errdisabled = FALSE] ELSE port[e]]
    /\ events' = events + 1
    /\ ticked' = ticked \ {b}
    /\ steady' = /\ steady /\ c.mode # "none" /\ c.portfast = {}
                  /\ c.priority <= config[b].priority
    /\ UNCHANGED <<cable, wire>>

\* The environment: a cable is pulled or plugged (between two units of time),
\* a BPDU is lost, time passes.
Flap(c) ==
    /\ events < MaxEvents
    /\ ticked = {} /\ \A e \in Ends : wire[e] = NoInfo
    /\ events' = events + 1
    /\ cable' = [cable EXCEPT ![c] = ~cable[c]]
    /\ wire' = [e \in Ends |-> IF e \in c THEN NoInfo ELSE wire[e]]
    /\ UNCHANGED <<port, config, ticked, steady>>

Lose(e) ==
    /\ events < MaxEvents
    /\ wire[e] # NoInfo
    /\ wire' = [wire EXCEPT ![e] = NoInfo]
    /\ events' = events + 1
    /\ UNCHANGED <<cable, port, config, ticked, steady>>

\* A clock that runs on to the last value anyone compares it with.
UpTo(limit, n) == IF n < limit THEN n + 1 ELSE limit

StpTick ==
    /\ ticked = Bridges
    /\ \A e \in Ends : wire[e] = NoInfo /\ port[e].up = cable[CableOf[e]]
    /\ ticked' = {}
    /\ port' = [e \in Ends |->
                   [port[e] EXCEPT !.age = IF port[e].received = NoInfo THEN 0
                                           ELSE UpTo(MaxAge, @),
                                   !.since = UpTo(ForwardTime, @),
                                   !.tx = UpTo(1, @)]]
    /\ UNCHANGED <<cable, config, wire, steady, events>>

\* What the engines and the passing of time do by themselves.
StpWork ==
    \/ \E b \in Bridges : EngineTick(b)
    \/ \E e \in Ends : LinkEvent(e)
    \/ \E e \in Ends : Receive(e)
    \/ StpTick

StpNext ==
    \/ StpWork
    \/ \E b \in Bridges, c \in StpConfigs : SetStpConfig(b, c)
    \/ \E c \in Cables : Flap(c)
    \/ \E e \in Ends : Lose(e)

\* Time passes.  A tick needs every engine to have run and every event to be
\* handled, and both are finitely many steps away at any moment, so this is
\* fairness of the engines' tasks and of delivery.  Cables need not flap, BPDUs
\* need not be lost and nobody has to reconfigure.
StpFairness == []<><<StpTick>>_stpVars

StpSpec == StpInit /\ [][StpNext]_stpVars /\ StpFairness
-----------------------------------------------------------------------------
(* Properties. *)

\* A cable that carries traffic: lit, and both its ends forward.
Carries(c) == cable[c] /\ \A e \in c : port[e].state = "forwarding"

\* Every set of cables has an end bridge that only one of them reaches.
Acyclic(cables) ==
    \A some \in SUBSET cables \ {{}} :
        \E c \in some : \E e \in c : \A d \in some \ {c} : \A f \in d : f[1] # e[1]

\* The loop is broken at all times, not only once the tree has settled: while
\* every bridge has run spanning tree without edge ports, no cycle of cables
\* forwards, through start-up, lost BPDUs, cables that come and go and
\* roles that change.  This is what the forward delay (stp.rs:645-656) is for.
\* It does not hold once a root has given up a better priority: its old vector
\* then goes round at a growing cost, and a loop can forward meanwhile.
NoForwardingLoop == steady => Acyclic({c \in Cables : Carries(c)})

\* The bridges a bridge reaches over lit cables.
Reach(b) ==
    LET Grow(set) == set \cup {x \in Bridges : \E c \in Cables :
                                   /\ cable[c] /\ \E e \in c : e[1] = x
                                   /\ \E e \in c : e[1] \in set}
        near[i \in 0..Cardinality(Bridges)] == IF i = 0 THEN {b} ELSE Grow(near[i - 1])
    IN  near[Cardinality(Bridges)]

\* A settled tree: every bridge takes the best bridge it can reach for the
\* root, and every lit cable either carries traffic or has exactly one blocked
\* end, whose other end is designated and forwards; the carrying cables reach
\* as far as the lit ones.
TreeSettled ==
    /\ \A c \in {d \in Cables : cable[d]} :
          \/ Carries(c)
          \/ \E e \in c : /\ port[e].role = "alternate" /\ port[e].state = "discarding"
                          /\ port[Peer[e]].role = "designated"
                          /\ port[Peer[e]].state = "forwarding"
    /\ \A b \in Bridges :
          LET ids == {BridgeId(x) : x \in Reach(b)}
          IN  ComputeRoot(b, port).root = CHOOSE i \in ids : \A j \in ids : i <= j
    /\ \A b \in Bridges : Cardinality({e \in EndsOf[b] : port[e].role = "root"})
                             = IF ComputeRoot(b, port).root = BridgeId(b) THEN 0 ELSE 1
    /\ Acyclic({c \in Cables : Carries(c)})

\* Once the cables rest, the bridges settle on one root and block each cycle
\* exactly once, for good: the test three_bridge_triangle_converges
\* (stp.rs:765) over every order of events, not the one schedule it runs.  The
\* bridges that are left with spanning tree off or with guarded ports make no
\* tree, and a root that gives up a better priority is left out: its old vector
\* may go round for ever, since the message age is always sent as zero.
TreeConverges ==
    <>[](\A b \in Bridges : /\ config[b].mode # "none" /\ config[b].bpduguard = {}
                            /\ config[b].priority <= StartConfig.priority)
        => <>[]TreeSettled
=============================================================================
