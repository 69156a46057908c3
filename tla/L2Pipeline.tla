----------------------------- MODULE L2Pipeline -----------------------------
(***************************************************************************)
(* From a commit to the ASIC: mgmtd applies the VLAN, switchport, address  *)
(* and port-channel differences of a commit through syncd and hands the    *)
(* port-channel configuration to orch; orch's LACP engine decides which    *)
(* members are in each LAG with an open gate, and its pusher task carries  *)
(* every decision to syncd (SyncdL2).  mgmtd and the pusher call syncd     *)
(* concurrently.                                                           *)
(*                                                                         *)
(* Port-channels are static here (mode on): the gate of a member follows   *)
(* its link.                                                               *)
(***************************************************************************)
EXTENDS SyncdL2

CONSTANTS
  Configs,       \* the configurations that are committed
  MaxCommits,    \* bound on commits
  MaxFlips,      \* bound on link events
  MaxAttempts    \* attempts the pusher makes for one update

\* A configuration: the VLANs, the switchport programs, the routed ports and
\* the port-channels.  Lags are group numbers.
Config == [vlans  : [Vlans -> {"absent", "active", "suspended"}],
           sw     : [PortLike -> Program \cup {None}],
           routed : SUBSET Ports,
           lags   : SUBSET Lags,
           group  : [Ports -> Lags \cup {None}]]

\* What configuration validation leaves through.
Valid(c) ==
  /\ \A p \in Ports : c.group[p] # None =>
       c.group[p] \in c.lags /\ c.sw[p] = None /\ p \notin c.routed
  /\ \A p \in c.routed : c.sw[p] = None
  /\ \A l \in Lags : c.sw[l] # None => l \in c.lags /\ ~c.sw[l].tunnel

ASSUME L2Assumption ==
  /\ Lags \subseteq Nat
  /\ \A c \in Configs : c \in Config /\ Valid(c)
  /\ {MaxCommits, MaxFlips, MaxFaults} \subseteq Nat
  /\ MaxAttempts \in Nat \ {0}

VARIABLES
  running, target,   \* the running configuration, and the one being committed
  plan,              \* the calls the commit still has to make
  committing,        \* a commit is being applied
  clean,             \* no commit has failed
  engine,            \* orch's LACP engine
  queue,             \* gate updates on their way to the pusher
  pushing,           \* the pusher is in the call for the first of them
  attempts,          \* how often it has failed
  lost,              \* LAGs with an update the tables and the ASIC lost track of
  commits, flips     \* commits and link events so far

mgmtdVars == <<running, target, plan, committing, clean, commits>>
orchVars == <<engine, queue, pushing, attempts, lost, flips>>
allVars == <<vars, mgmtdVars, orchVars>>

Empty == [vlans |-> [v \in Vlans |-> "absent"],
          sw |-> [x \in PortLike |-> None], routed |-> {}, lags |-> {},
          group |-> [p \in Ports |-> None]]

PipelineInit ==
  /\ Init
  /\ running = Empty /\ target = Empty /\ plan = <<>>
  /\ committing = FALSE /\ clean = TRUE /\ commits = 0
  /\ engine = [groups |-> {}, group |-> Empty.group,
               link |-> [p \in Ports |-> TRUE],
               last |-> [l \in Lags |-> None]]
  /\ queue = <<>> /\ pushing = FALSE /\ attempts = 0
  /\ lost = {} /\ flips = 0

-----------------------------------------------------------------------------
(* mgmtd                                                                   *)

Members(c, l) == {p \in Ports : c.group[p] = l}

Steps(S, name) == EachOf(S, LAMBDA x : <<name, x>>)

\* The parts of a commit's plan.
VlanSteps(old, new, gone) ==
  Steps({v \in Vlans : /\ new.vlans[v] # old.vlans[v]
                       /\ (new.vlans[v] = "absent") = gone},
        IF gone THEN "remove_vlan" ELSE "ensure_vlan")
SwitchportSteps(old, new) ==
  Steps({p \in Ports : new.sw[p] # old.sw[p]}, "switchport")
AddressSteps(old, new) ==
  Steps({p \in Ports : (p \in new.routed) # (p \in old.routed)}, "address")
LagSteps(old, new) ==
  LET ensured == {l \in new.lags :
                    \/ l \notin old.lags
                    \/ <<new.sw[l], Members(new, l)>>
                         # <<old.sw[l], Members(old, l)>>}
      deleted == old.lags \ new.lags
  IN FlattenSeq(EachOf(ensured, LAMBDA l :
       << <<"create_lag", l>>, <<"switchport", l>> >>))
       \o (IF ensured \cup deleted = {} THEN <<>> ELSE << <<"push", None>> >>)
       \o Steps(deleted, "remove_lag")

\* Mutant: VLANs are created after the switchports that use them.
PlanVlansLate(old, new) ==
  SwitchportSteps(old, new) \o VlanSteps(old, new, FALSE)
    \o VlanSteps(old, new, TRUE) \o AddressSteps(old, new) \o LagSteps(old, new)

\* The calls a commit makes, in order: VLANs before the switchports that use
\* them and removed after; addresses; port-channels with their programs, the
\* push to orch, and only then the removal of port-channels.
Plan(old, new) ==
  VlanSteps(old, new, FALSE) \o SwitchportSteps(old, new)
    \o VlanSteps(old, new, TRUE) \o AddressSteps(old, new) \o LagSteps(old, new)

\* The syncd handler a step calls.
Handler(step) ==
  LET x == step[2]
  IN CASE step[1] = "ensure_vlan" -> EnsureVlan(x, target.vlans[x])
       [] step[1] = "remove_vlan" -> RemoveVlan(x)
       [] step[1] = "switchport" ->
            IF target.sw[x] = None THEN ClearPortSwitchport(x)
            ELSE SetPortSwitchport(x, target.sw[x])
       [] step[1] = "address" ->
            IF x \in target.routed THEN SetInterfaceAddress(x)
            ELSE ClearInterfaceAddress(x)
       [] step[1] = "create_lag" -> CreateLag(x)
       [] step[1] = "remove_lag" -> RemoveLag(x)

CommitStarts ==
  /\ ~committing /\ commits < MaxCommits
  /\ \E c \in Configs :
       /\ target' = c
       /\ plan' = Plan(running, c)
  /\ committing' = TRUE
  /\ commits' = commits + 1
  /\ result' = [result EXCEPT !["mgmtd"] = "ok"]
  /\ UNCHANGED <<asic, tbl, call, faults, running, clean, orchVars>>

\* The next call of the commit goes to syncd.  remove_lag works on a copy of
\* the LAG: an update that is on its way meanwhile counts as lost.
CommitCalls ==
  /\ committing /\ ~Busy("mgmtd") /\ result["mgmtd"] = "ok"
  /\ plan # <<>> /\ Head(plan)[1] # "push"
  /\ Call("mgmtd", Handler(Head(plan)))
  /\ plan' = Tail(plan)
  /\ lost' = lost \cup {l \in Lags : /\ Head(plan) = <<"remove_lag", l>>
                                   /\ \E i \in DOMAIN queue : queue[i].lag = l}
  /\ UNCHANGED <<running, target, committing, clean, commits, engine, queue,
                 pushing, attempts, flips>>

\* orch takes the port-channel configuration whole: groups that are gone are
\* dropped with what they last decided.
CommitPushes ==
  /\ committing /\ ~Busy("mgmtd") /\ result["mgmtd"] = "ok"
  /\ plan # <<>> /\ Head(plan)[1] = "push"
  /\ engine' = [engine EXCEPT
       !.groups = target.lags, !.group = target.group,
       !.last = [l \in Lags |-> IF l \in target.lags THEN @[l] ELSE None]]
  /\ plan' = Tail(plan)
  /\ UNCHANGED <<vars, running, target, committing, clean, commits, queue,
                 pushing, attempts, lost, flips>>

CommitFails ==
  /\ committing /\ ~Busy("mgmtd") /\ result["mgmtd"] # "ok"
  /\ committing' = FALSE /\ clean' = FALSE
  /\ plan' = <<>> /\ target' = running
  /\ UNCHANGED <<vars, running, commits, orchVars>>

CommitEnds ==
  /\ committing /\ ~Busy("mgmtd") /\ result["mgmtd"] = "ok" /\ plan = <<>>
  /\ committing' = FALSE
  /\ running' = target
  /\ UNCHANGED <<vars, target, plan, clean, commits, orchVars>>

-----------------------------------------------------------------------------
(* orch                                                                    *)

\* The membership and the gates the engine wants for a group.
Gates(e, l) ==
  [p \in Ports |-> IF e.group[p] # l THEN "out"
                   ELSE IF e.link[p] THEN "open" ELSE "closed"]

Pending(e) == {l \in e.groups : e.last[l] # Gates(e, l)}

\* Mutant: a group that has an update in the queue gets no second one.
EvaluatedOnce(e) ==
  /\ queue' = queue \o
       LET s == SetToSortSeq({l \in Pending(e) : \A i \in DOMAIN queue : queue[i].lag # l}, <)
       IN [i \in DOMAIN s |-> [lag |-> s[i], want |-> Gates(e, s[i])]]
  /\ engine' = [e EXCEPT !.last =
       [l \in Lags |-> IF l \in e.groups THEN Gates(e, l) ELSE @[l]]]

\* One pass of the engine: an update for each group whose gates changed, in
\* the order of the group numbers.
Evaluated(e) ==
  /\ queue' = queue \o
       LET s == SetToSortSeq(Pending(e), <)
       IN [i \in DOMAIN s |-> [lag |-> s[i], want |-> Gates(e, s[i])]]
  /\ engine' = [e EXCEPT !.last =
       [l \in Lags |-> IF l \in e.groups THEN Gates(e, l) ELSE @[l]]]

\* The pass after a push of the configuration, or at the next tick.
EngineStep ==
  /\ Pending(engine) # {}
  /\ Evaluated(engine)
  /\ UNCHANGED <<vars, mgmtdVars, pushing, attempts, lost, flips>>

\* A link event, and the pass that follows it.
LinkFlips ==
  /\ flips < MaxFlips
  /\ flips' = flips + 1
  /\ \E p \in Ports : Evaluated([engine EXCEPT !.link[p] = ~@])
  /\ UNCHANGED <<vars, mgmtdVars, pushing, attempts, lost>>

PushStarts ==
  /\ queue # <<>> /\ ~pushing
  /\ pushing' = TRUE
  /\ Call("orch", SetLagMembers(Head(queue).lag, Head(queue).want))
  /\ UNCHANGED <<mgmtdVars, engine, queue, attempts, lost, flips>>

\* The first update leaves the queue.
Popped == queue' = Tail(queue) /\ attempts' = 0

\* Mutant: the pusher never gives up.
RetryForever ==
  attempts' = 1 /\ UNCHANGED <<queue, lost>>

\* After an error the pusher waits and tries again, until it gives up.
Retry ==
  IF attempts + 1 < MaxAttempts
  THEN attempts' = attempts + 1 /\ UNCHANGED <<queue, lost>>
  ELSE Popped /\ lost' = lost \cup {Head(queue).lag}

\* The call for the first update has ended.  An update that is delivered, or
\* refused by syncd, leaves the queue, also when it was refused half done; any
\* other error is retried.
PushEnds ==
  /\ pushing /\ ~Busy("orch")
  /\ pushing' = FALSE
  /\ CASE result["orch"] = "internal" -> Retry
       [] result["orch"] = "routed" ->
            Popped /\ lost' = lost \cup {Head(queue).lag}
       [] OTHER -> Popped /\ UNCHANGED lost
  /\ UNCHANGED <<vars, mgmtdVars, engine, flips>>

SyncdSteps ==
  /\ \E c \in Clients : Step(c)
  /\ UNCHANGED <<mgmtdVars, orchVars>>

\* All the work is done and no more is to come.
Finished ==
  /\ commits = MaxCommits /\ ~committing /\ queue = <<>> /\ ~pushing
  /\ Pending(engine) = {}
  /\ UNCHANGED allVars

PipelineNext ==
  \/ CommitStarts \/ CommitCalls \/ CommitPushes \/ CommitFails \/ CommitEnds
  \/ EngineStep \/ LinkFlips \/ PushStarts \/ PushEnds
  \/ SyncdSteps
  \/ Finished

PipelineSpec == PipelineInit /\ [][PipelineNext]_allVars

\* mgmtd, the engine, the pusher and syncd's handlers are tasks of a fair
\* scheduler; no one has to commit, and links do not have to change.
PipelineFairSpec ==
  /\ PipelineSpec
  /\ WF_allVars(CommitCalls \/ CommitPushes \/ CommitFails \/ CommitEnds)
  /\ WF_allVars(EngineStep) /\ WF_allVars(PushStarts \/ PushEnds)
  /\ \A c \in Clients :
       WF_allVars(Step(c) /\ UNCHANGED <<mgmtdVars, orchVars>>)

-----------------------------------------------------------------------------
(* Properties                                                              *)

\* No call is in flight.
Quiet == ~Busy("mgmtd") /\ ~Busy("orch")

\* Everything the last commit set off has been carried out.
Settled == Quiet /\ ~committing /\ queue = <<>> /\ Pending(engine) = {}

\* LAGs an update of which was carried out in part, or is to be tried again.
HalfDone ==
  lost \cup IF queue # <<>> /\ (attempts > 0 \/ (pushing /\ result["orch"] # "ok"))
            THEN {Head(queue).lag} ELSE {}

\* The tables and the ASIC hold objects of their kinds, and while no SAI call
\* fails for a reason of the hardware's they agree whenever no handler is
\* running, whatever calls were refused and however mgmtd and the pusher
\* interleaved (state.rs: a port's switchport program "as applied"); the
\* members of a LAG agree unless set_lag_members returned in the middle, or
\* remove_lag met it.
TablesMatchAsic ==
  /\ asic \in Asic /\ tbl \in Tables
  /\ Quiet /\ faults = 0 =>
    /\ asic.vlans = {v \in Vlans : tbl.vlans[v] # "absent"}
    /\ asic.members = {<<m[1], x, m[2]>> : <<x, m>> \in
                         {xm \in PortLike \X Membership :
                            xm[2] \in tbl.members[xm[1]]}}
    /\ asic.rifs = tbl.routed /\ asic.lags = tbl.lags
    /\ \A l \in Lags \ HalfDone, p \in Ports :
         /\ (asic.lagOf[p] = l) = (tbl.place[l][p] # "out")
         /\ asic.lagOf[p] = l =>
              (p \in asic.open) = (tbl.place[l][p] = "open")

\* While no SAI call fails, a port that is in no LAG, or a LAG, never bridges
\* untagged frames in two VLANs of its programs at once, not even in the middle
\* of a call, and in the default VLAN beside one of them only where
\* remove_lag_member put it back there after program_l2 had taken it out: a
\* port that leaves a LAG for a switchport of its own.  program_l2 drops the
\* stale membership and leaves the default VLAN before it adds the new one.
UntaggedInOneVlan ==
  faults = 0 =>
    \A x \in asic.lags \cup {p \in Ports : asic.lagOf[p] = None} :
      LET untagged == {v \in Vlans : <<v, x, FALSE>> \in asic.members}
      IN /\ Cardinality(untagged) <= 1
         /\ untagged # {} /\ x \in asic.default => x \in asic.putBack

Bridged(c) == {p \in Ports \ c.routed : c.group[p] = None} \cup c.lags
Untagged(c, x) == IF c.sw[x] = None THEN Default ELSE c.sw[x].untagged

\* Ports that are in a LAG in one configuration and have a program or an
\* address of their own in another.  Leaving the LAG puts such a port in the
\* default VLAN whatever it is by then, and losing its address does so although
\* it is in the LAG by then.
Strays == {p \in Ports : /\ \E c \in Configs : c.group[p] # None
                         /\ \E c \in Configs : c.sw[p] # None \/ p \in c.routed}

\* Once all is settled, no call failed and no update was lost, the ASIC does
\* what the running configuration says.  It bridges by memberships of the active
\* VLANs only, with the default VLAN and the PVID by the switchport program
\* (Strays apart), and routes on the routed ports; each port is in the LAG its
\* channel-group names, with its gate open exactly when its link is up (lacp.rs:
\* an update is "the full wanted membership of one LAG").
BridgeMatchesConfig ==
  Settled /\ clean /\ faults = 0 /\ lost = {} =>
    /\ asic.vlans = {v \in Vlans : running.vlans[v] # "absent"}
    /\ asic.members =
         {<<m[1], x, m[2]>> : <<x, m>> \in
            {xm \in PortLike \X Membership :
               /\ running.sw[xm[1]] # None
               /\ xm[2] \in Wanted(running.sw[xm[1]])
               /\ running.vlans[xm[2][1]] = "active"}}
    /\ asic.rifs = running.routed
    /\ \A x \in PortLike \ Strays :
         /\ (x \in asic.default) =
              (x \in Bridged(running) /\ Untagged(running, x) = Default)
         /\ x \in Bridged(running) => asic.pvid[x] = Untagged(running, x)
    /\ asic.lags = running.lags /\ asic.lagOf = running.group
    /\ asic.open = {p \in Ports : running.group[p] # None /\ engine.link[p]}

\* A member whose link is down keeps its gate open in the ASIC only while the
\* update that closes it is still to be decided or carried out, unless the
\* pusher lost an update of that LAG (lacp.rs emits on change; push_gates
\* retries) or the port-channel is no longer configured.
DownLinkClosesGate ==
  \A p \in asic.open :
    ~engine.link[p] /\ asic.lagOf[p] \in engine.groups \ Pending(engine) =>
      \/ \E i \in DOMAIN queue : queue[i].lag = asic.lagOf[p]
      \/ asic.lagOf[p] \in lost

\* Every commit comes to an end, and the pusher empties its queue: the calls of
\* mgmtd and of the pusher never wait for each other, and no update is tried
\* for ever.
WorkEnds == (committing ~> ~committing) /\ (queue # <<>> ~> queue = <<>>)

-----------------------------------------------------------------------------
(* What a comment of the code says, and the code does not do               *)

\* The switchport program in the tables is the one in the ASIC: PVID and
\* default VLAN included (state.rs: "A port's L2 switchport program, as
\* applied").  It does not hold of a port that leaves a port-channel for a
\* switchport: remove_lag_member puts it back in the default VLAN afterwards.
SwitchportIsAsApplied ==
  Quiet /\ faults = 0 =>
    \A p \in Ports : tbl.sw[p] # None =>
      /\ asic.pvid[p] = tbl.sw[p].untagged
      /\ (p \in asic.default) = (tbl.sw[p].untagged = Default)
=============================================================================
