---------------------------- MODULE FibPipeline ----------------------------
(***************************************************************************)
(* The routing pipeline: the kernel's routes and neighbours, orch's RIB    *)
(* engine that derives the wanted program from them, the task that pushes  *)
(* the difference between that program and its mirror of syncd's table one *)
(* call at a time (SyncdFib), and mgmtd adding and removing interface      *)
(* addresses under it.  Every 30 seconds the task re-anchors its mirror on *)
(* syncd's own dump.                                                       *)
(***************************************************************************)
EXTENDS SyncdFib, SequencesExt

CONSTANTS
  Start, Kernels, \* the tables the kernel can have
  Addressed,      \* the interfaces whose addresses come and go
  MaxEvents,      \* bound on kernel changes, restarts of orch and SAI faults
  RestartInCall   \* whether orch may stop inside a pass

KernelRoute == [blackhole : BOOLEAN, hops : SUBSET Interfaces]

ASSUME PipelineAssumption ==
  /\ Addressed \subseteq Interfaces
  /\ MaxEvents \in Nat /\ RestartInCall \in BOOLEAN
  /\ None \notin KernelRoute
  /\ \A k \in Kernels \cup {Start} :
       /\ k.routes \in [Dests -> KernelRoute \cup {None}]
       /\ k.nbrs \subseteq Interfaces

VARIABLES
  kernel,      \* the kernel's routes and resolved neighbours
  view,        \* the interfaces with an address, as orch last saw them
  haveKernel,  \* the engine has a snapshot of the kernel
  changed,     \* the engine has changed since the task last looked
  mirror,      \* what the task believes syncd has
  target,      \* the program of the pass
  ops,         \* the pushes of the pass that are left
  events       \* changes and restarts so far

orchVars == <<kernel, view, haveKernel, changed, mirror, target, ops, events>>
allVars == <<fibVars, orchVars>>

\* Stand-ins in a re-anchored mirror that match no wanted entry.
Unknown == [cpu |-> TRUE, drop |-> TRUE, hops |-> {}]
NoProgram == [routes |-> [p \in Dests |-> None], nbrs |-> [i \in Interfaces |-> None]]

PipelineInit ==
  /\ FibInit
  /\ kernel = Start
  /\ view = {} /\ haveKernel = FALSE /\ changed = FALSE
  /\ mirror = NoProgram /\ target = NoProgram /\ ops = <<>>
  /\ events = 0

-----------------------------------------------------------------------------
(* The RIB engine                                                          *)

\* The program for a kernel route: only next hops on ASIC interfaces count;
\* those whose neighbour is resolved forward, and with none of them packets
\* go to the CPU.  A route without ASIC next hops stays in the kernel.
WantedRoute(k, nbrs) ==
  LET asicHops == k.hops \cap view
  IN CASE k.blackhole -> [cpu |-> FALSE, drop |-> TRUE, hops |-> {}]
       [] ~k.blackhole /\ asicHops = {} -> None
       [] OTHER -> [cpu |-> asicHops \cap nbrs = {}, drop |-> FALSE,
                    hops |-> asicHops \cap nbrs]

Wanted ==
  LET nbrs == kernel.nbrs \cap view
  IN [routes |-> [p \in Dests |-> IF kernel.routes[p] = None THEN None
                                  ELSE WantedRoute(kernel.routes[p], nbrs)],
      nbrs |-> [i \in Interfaces |-> IF i \in nbrs THEN "mac" ELSE None]]

\* The kernel's tables change, and the monitor has them dumped anew.
KernelChanges ==
  /\ haveKernel /\ events < MaxEvents
  /\ kernel' \in Kernels \ {kernel}
  /\ changed' = TRUE
  /\ events' = events + 1
  /\ UNCHANGED <<fibVars, view, haveKernel, mirror, target, ops>>

\* The first dump after a start.
FirstDump ==
  /\ ~haveKernel
  /\ haveKernel' = TRUE /\ changed' = TRUE
  /\ UNCHANGED <<fibVars, kernel, view, mirror, target, ops, events>>

\* The poll of syncd's interfaces.
SetL3Interfaces ==
  /\ view' = {i \in Interfaces : tbl.l3[i] # None}
  /\ view' # view
  /\ changed' = TRUE
  /\ UNCHANGED <<fibVars, kernel, haveKernel, mirror, target, ops, events>>

-----------------------------------------------------------------------------
(* The pushing task                                                        *)

Pushes(S, name) == [n \in 1..Cardinality(S) |-> <<name, SetToSeq(S)[n]>>]

\* Neighbours before the routes that use them; stale routes before stale
\* neighbours.
DiffProgram(cur, want) ==
  Pushes({i \in Interfaces : want.nbrs[i] \notin {None, cur.nbrs[i]}}, "ensure_nbr")
    \o Pushes({p \in Dests : want.routes[p] \notin {None, cur.routes[p]}}, "ensure_route")
    \o Pushes({p \in Dests : cur.routes[p] # None /\ want.routes[p] = None}, "remove_route")
    \o Pushes({i \in Interfaces : cur.nbrs[i] # None /\ want.nbrs[i] = None}, "remove_nbr")

Quiet == ops = <<>> /\ At("orch", "idle")

Begin(m) ==
  /\ mirror' = m
  /\ ops' = DiffProgram(m, Wanted)
  /\ target' = IF ops' = <<>> THEN NoProgram ELSE Wanted

\* A change of the engine starts a pass.
PassOnChange ==
  /\ Quiet /\ changed
  /\ changed' = FALSE
  /\ IF haveKernel THEN Begin(mirror) ELSE UNCHANGED <<mirror, target, ops>>
  /\ UNCHANGED <<fibVars, kernel, view, haveKernel, events>>

\* Mutant: the periodic pass trusts the mirror.
DumpFibTrusts == mirror

\* syncd's dump names what it has, not where it leads.
DumpFib ==
  [routes |-> [p \in Dests |-> IF tbl.routes[p] = None THEN None ELSE Unknown],
   nbrs |-> [i \in Interfaces |-> IF tbl.nbrs[i] = None THEN None ELSE "unknown"]]

\* The periodic pass re-anchors the mirror first.
PassOnVerify ==
  /\ Quiet /\ haveKernel
  /\ Begin(DumpFib)
  /\ UNCHANGED <<fibVars, kernel, view, haveKernel, changed, events>>

\* The next push of the pass goes to syncd.
ApplyFibOp ==
  /\ ops # <<>> /\ At("orch", "idle")
  /\ LET op == Head(ops)
     IN CASE op[1] = "ensure_nbr" -> EnsureNeighbor(op[2])
          [] op[1] = "ensure_route" -> EnsureRoute(op[2], target.routes[op[2]])
          [] op[1] = "remove_route" -> RemoveRoute(op[2])
          [] op[1] = "remove_nbr" -> RemoveNeighbor(op[2])
  /\ UNCHANGED orchVars

\* The mirror follows a push that succeeded; one that failed is left for a
\* later pass.
FibOpReplies ==
  /\ At("orch", "done")
  /\ LET op == Head(ops)
     IN mirror' = IF ~job["orch"].ok THEN mirror
                  ELSE IF op[1] \in {"ensure_route", "remove_route"}
                  THEN [mirror EXCEPT !.routes[op[2]] = target.routes[op[2]]]
                  ELSE [mirror EXCEPT !.nbrs[op[2]] = target.nbrs[op[2]]]
  /\ ops' = Tail(ops)
  /\ target' = IF ops' = <<>> THEN NoProgram ELSE target
  /\ Becomes("orch", Idle)
  /\ UNCHANGED <<asic, tbl, made, faults, kernel, view, haveKernel, changed,
                 events>>

\* orch starts anew.  A call in flight ends with its connection: its handler
\* is dropped where it awaits the ASIC.
OrchRestarts ==
  /\ events < MaxEvents
  /\ RestartInCall \/ Quiet
  /\ Becomes("orch", Idle)
  /\ view' = {} /\ haveKernel' = FALSE /\ changed' = FALSE
  /\ mirror' = NoProgram /\ target' = NoProgram /\ ops' = <<>>
  /\ events' = events + 1
  /\ UNCHANGED <<asic, tbl, made, faults, kernel>>

MgmtdCalls == /\ \E i \in Addressed : SetAddress(i) \/ ClearAddress(i)
              /\ UNCHANGED orchVars
SyncdRuns == SyncdStep /\ UNCHANGED orchVars

Environment == KernelChanges \/ MgmtdCalls \/ OrchRestarts
Work == FirstDump \/ SetL3Interfaces \/ PassOnChange \/ PassOnVerify
          \/ ApplyFibOp \/ FibOpReplies \/ SyncdRuns
PipelineNext == (Environment \/ Work) /\ events' + faults' <= MaxEvents

PipelineSpec == PipelineInit /\ [][PipelineNext]_allVars

\* Every task of orch and every handler of syncd keeps running, and the
\* 30 s timer keeps firing.
PipelineFairness ==
  /\ WF_allVars(FirstDump) /\ WF_allVars(SetL3Interfaces)
  /\ WF_allVars(PassOnChange \/ PassOnVerify) /\ SF_allVars(PassOnVerify)
  /\ WF_allVars(ApplyFibOp) /\ WF_allVars(FibOpReplies) /\ WF_allVars(SyncdRuns)
PipelineFairSpec == PipelineSpec /\ PipelineFairness

-----------------------------------------------------------------------------
(* Properties                                                              *)

\* What the ASIC does with packets to p, as interfaces.
Forwards(p) ==
  LET t == asic.fwd[p]
      Over(o) == {h.rif[1] : h \in {x \in asic.hops : x.oid = o /\ x.rif \in asic.rifs}}
  IN IF t = None THEN None
     ELSE [cpu |-> t = Cpu, drop |-> t = Drop,
           hops |-> CASE t.kind = "hop" -> Over(t.oid)
                      [] t.kind = "group" -> UNION {Over(o) : o \in
                           UNION {g.members : g \in {x \in asic.groups : x.oid = t.oid}}}
                      [] OTHER -> {}]

\* What the kernel's tables and the interfaces' addresses ask for now.
Asked(p) ==
  LET l3 == {i \in Interfaces : tbl.l3[i] # None}
  IN IF kernel.routes[p] = None THEN None
     ELSE LET k == kernel.routes[p]
              up == k.hops \cap l3
          IN IF k.blackhole THEN [cpu |-> FALSE, drop |-> TRUE, hops |-> {}]
             ELSE IF up = {} THEN None
             ELSE [cpu |-> up \cap kernel.nbrs = {}, drop |-> FALSE,
                   hops |-> up \cap kernel.nbrs]

\* Without SAI faults, and once nothing changes any more, the ASIC forwards
\* between passes exactly what the kernel and the addresses ask for, whatever
\* was in flight when they changed and whenever orch restarted (push_fib: "so a
\* restart on either side converges (add missing, delete stale)").  It holds
\* when orch restarts between passes; it does not when RestartInCall lets a
\* restart drop the handler of a call after its SAI call and before its record.
FibConverges ==
  [](faults = 0) => <>[](Quiet /\ At("mgmtd", "idle") => \A p \in Dests : Forwards(p) = Asked(p))

\* A router interface is removed only when no next hop of the ASIC rides it
\* (clear_interface_address: "Transit routes/neighbors riding this RIF go
\* first, or the RIF removal would find the ASIC objects still in use").  It
\* does not hold: an ensure_route in flight takes its next hop after
\* fib_teardown_rif took its snapshot.
RifRemovedUnused ==
  [][\A r \in asic.rifs \ asic'.rifs : \A h \in asic.hops : h.rif # r]_asic
=============================================================================
