------------------------- MODULE FibPipelineProofs -------------------------
(***************************************************************************)
(* The routing pipeline uses syncd's forwarding table as FibSpec says:     *)
(* every call orch and mgmtd make is one of its calls.  So what FibProofs  *)
(* shows of the table holds in the pipeline.                               *)
(***************************************************************************)
EXTENDS FibPipeline, FiniteSetTheorems, TLAPS

-----------------------------------------------------------------------------
(* What the pushing task asks for                                          *)

\* The pushes of a pass to program t: a route it ensures is one t has.
PushesOf(t) ==
  {op \in ({"ensure_nbr", "remove_nbr"} \X Interfaces)
            \cup ({"ensure_route", "remove_route"} \X Dests) :
     op[1] = "ensure_route" => Sane(t.routes[op[2]])}

PipelineTypeOK ==
  /\ kernel \in Kernels \cup {Start}
  /\ view \subseteq Interfaces
  /\ ops \in Seq(PushesOf(target))
  /\ job["orch"].pc # "idle" => ops # <<>>
  /\ job = [c \in Clients |-> job[c]]

\* Every wanted route is one a request may name.
LEMMA WantedIsSane ==
  ASSUME kernel \in Kernels \cup {Start}, view \subseteq Interfaces, NEW p \in Dests,
         Wanted.routes[p] # None
  PROVE  Sane(Wanted.routes[p])
<1> DEFINE k == kernel.routes[p]
           nbrs == kernel.nbrs \cap view
           w == WantedRoute(k, nbrs)
<1>1. kernel.routes \in [Dests -> KernelRoute \cup {None}]
  BY PipelineAssumption, Zenon
<1>2. Wanted.routes[p] = IF k = None THEN None ELSE w
  BY Zenon DEF Wanted
<1>3. k \in KernelRoute /\ Wanted.routes[p] = w
  BY <1>1, <1>2, ZenonT(60)
<1> HIDE DEF k, nbrs
<1>4. k.blackhole \in BOOLEAN
  BY <1>3, Zenon DEF KernelRoute
<1>5. CASE k.blackhole
  BY <1>3, <1>5 DEF WantedRoute, Sane, Route
<1>6. CASE ~k.blackhole /\ k.hops \cap view # {}
  <2> DEFINE h == k.hops \cap view \cap nbrs
  <2>1. w = [cpu |-> h = {}, drop |-> FALSE, hops |-> h] /\ h \subseteq Interfaces
    BY <1>6, Zenon DEF WantedRoute
  <2> HIDE DEF h, w
  <2>2. (w.cpu <=> h = {}) /\ w.drop = FALSE /\ w.hops = h
    BY <2>1, ZenonT(60)
  <2>3. w \in Route
    BY <2>1, ZenonT(60) DEF Route
  <2> QED
    BY <1>3, <2>2, <2>3, ZenonT(60) DEF Sane, w
<1>7. CASE ~k.blackhole /\ k.hops \cap view = {}
  BY <1>3, <1>7, ZenonT(60) DEF WantedRoute
<1> QED
  BY <1>4, <1>5, <1>6, <1>7, ZenonT(60)

\* A set pushed one by one.
LEMMA PushesAreListed ==
  ASSUME NEW S, IsFiniteSet(S), NEW name, NEW T, \A x \in S : <<name, x>> \in T
  PROVE  Pushes(S, name) \in Seq(T)
<1> DEFINE N == Cardinality(S)
<1>1. N \in Nat /\ ExistsBijection(1..N, S)
  BY FS_CardinalityType, Zenon
<1>2. PICK g \in Bijection(1..N, S) : TRUE
  BY <1>1, Zenon DEF ExistsBijection
<1>3. g \in [1..N -> S] /\ IsInjective(g)
  BY <1>2, ZenonT(60) DEF Bijection, Injection, IsInjective
<1>4. SetToSeq(S) \in [1..N -> S]
  BY <1>3, ZenonT(60) DEF SetToSeq
<1> DEFINE q == SetToSeq(S)
<1>5. Pushes(S, name) = [n \in 1..N |-> <<name, q[n]>>]
  BY Zenon DEF Pushes
<1>6. \A n \in 1..N : <<name, q[n]>> \in T
  BY <1>4, ZenonT(60)
<1> HIDE DEF N, q
<1> QED
  BY <1>1, <1>5, <1>6

\* The difference to a wanted program is made of pushes to it.
LEMMA DiffIsPushes ==
  ASSUME kernel \in Kernels \cup {Start}, view \subseteq Interfaces, NEW m
  PROVE  DiffProgram(m, Wanted) \in Seq(PushesOf(Wanted))
<1> DEFINE want == Wanted
           T == PushesOf(want)
           A == {i \in Interfaces : want.nbrs[i] \notin {None, m.nbrs[i]}}
           B == {p \in Dests : want.routes[p] \notin {None, m.routes[p]}}
           C == {p \in Dests : m.routes[p] # None /\ want.routes[p] = None}
           D == {i \in Interfaces : m.nbrs[i] # None /\ want.nbrs[i] = None}
<1>1. A \in SUBSET Interfaces /\ B \in SUBSET Dests /\ C \in SUBSET Dests
      /\ D \in SUBSET Interfaces
  BY Zenon
<1>2. IsFiniteSet(A) /\ IsFiniteSet(B) /\ IsFiniteSet(C) /\ IsFiniteSet(D)
  BY <1>1, FibAssumption, FS_Subset, ZenonT(60)
<1>3. \A p \in B : Sane(want.routes[p])
  BY WantedIsSane, ZenonT(60)
<1>4. DiffProgram(m, want) = Pushes(A, "ensure_nbr") \o Pushes(B, "ensure_route")
                               \o Pushes(C, "remove_route") \o Pushes(D, "remove_nbr")
  BY Zenon DEF DiffProgram
<1> HIDE DEF A, B, C, D, want
<1>5. /\ \A x \in A : <<"ensure_nbr", x>> \in T
      /\ \A x \in B : <<"ensure_route", x>> \in T
      /\ \A x \in C : <<"remove_route", x>> \in T
      /\ \A x \in D : <<"remove_nbr", x>> \in T
  BY <1>1, <1>3, ZenonT(60) DEF PushesOf
<1> HIDE DEF T
<1>6. /\ Pushes(A, "ensure_nbr") \in Seq(T) /\ Pushes(B, "ensure_route") \in Seq(T)
      /\ Pushes(C, "remove_route") \in Seq(T) /\ Pushes(D, "remove_nbr") \in Seq(T)
  BY <1>2, <1>5, PushesAreListed, ZenonT(60)
<1> QED
  BY <1>4, <1>6 DEF T, want

-----------------------------------------------------------------------------
(* Every step of the pipeline is one of the table's, or none               *)

\* Every step of syncd is a step of one call, and of none of orch without one.
LEMMA StepOfOneCall ==
  ASSUME SyncdStep
  PROVE  \E c \in Clients : \E j : Becomes(c, j) /\ (job["orch"].pc = "idle" => c = "mgmtd")
<1>1. ASSUME NEW c \in Clients, HandlerStep(c)
      PROVE  (\E j : Becomes(c, j)) /\ (job["orch"].pc = "idle" => c = "mgmtd")
  <2>1. \E j : Becomes(c, j)
    BY <1>1, ZenonT(60) DEF HandlerStep, Release, ReleaseHop, ReleaseGroup, FreeHop,
                FreeMember, FreeGroup, Withdraw, DropNeighbor, Goto
  <2>2. job["orch"].pc = "idle" => c = "mgmtd"
    BY <1>1, ZenonT(60) DEF HandlerStep, Release, FreeHop, FreeMember, FreeGroup,
                Withdraw, DropNeighbor, At, Clients
  <2> QED
    BY <2>1, <2>2, ZenonT(60)
<1>2. RouteStep => (\E j : Becomes("orch", j)) /\ job["orch"].pc # "idle"
  BY Zenon DEF RouteStep, TakeHop, CreateHop, InsertHop, TakeGroup, CreateGroup, AddMember,
         InsertGroup, Replace, Unroute, CreateRoute, RecordRoute, Goto, At
<1>3. NeighborStep => (\E j : Becomes("orch", j)) /\ job["orch"].pc # "idle"
  BY Zenon DEF NeighborStep, StaleNeighbor, CreateNeighbor, Goto, At
<1>4. AddressStep => \E j : Becomes("mgmtd", j)
  BY Zenon DEF AddressStep, TeardownRoute, TeardownNeighbor, RemoveRif, Bind, Goto
<1> QED
  BY <1>1, <1>2, <1>3, <1>4, ZenonT(60) DEF SyncdStep, Clients

\* A call that takes a step is one of the calls still, and the others stay.
LEMMA CallsStayCalls ==
  ASSUME job = [c \in Clients |-> job[c]], NEW c \in Clients, NEW j, Becomes(c, j)
  PROVE  /\ job' = [d \in Clients |-> job'[d]]
         /\ job'[c] = j /\ \A d \in Clients \ {c} : job'[d] = job[d]
BY Zenon DEF Becomes

LEMMA BeginKeeps ==
  ASSUME PipelineTypeOK, NEW m, Begin(m), Quiet, UNCHANGED <<fibVars, kernel, view>>
  PROVE  PipelineTypeOK'
<1>1. ops' \in Seq(PushesOf(Wanted))
  BY DiffIsPushes, ZenonT(60) DEF PipelineTypeOK, Begin
<1>2. CASE ops' = <<>>
  BY <1>2 DEF PipelineTypeOK, Quiet, At, fibVars
<1>3. CASE ops' # <<>>
  BY <1>1, <1>3, ZenonT(60) DEF PipelineTypeOK, Begin, fibVars
<1> QED
  BY <1>2, <1>3, ZenonT(60)

LEMMA PipelineMoves ==
  ASSUME ~RestartInCall, PipelineTypeOK, [PipelineNext]_allVars
  PROVE  PipelineTypeOK' /\ [FibNext]_fibVars
<1> DEFINE Calls == job = [c \in Clients |-> job[c]]
<1>a. /\ kernel \in Kernels \cup {Start} /\ view \subseteq Interfaces
      /\ ops \in Seq(PushesOf(target)) /\ (job["orch"].pc # "idle" => ops # <<>>) /\ Calls
  BY Zenon DEF PipelineTypeOK
<1>b. "orch" \in Clients /\ "mgmtd" \in Clients /\ Idle.pc = "idle"
  BY Zenon DEF Clients, Idle
<1>1. CASE UNCHANGED allVars
  BY <1>1, ZenonT(60) DEF allVars, orchVars, fibVars, PipelineTypeOK
<1>2. CASE KernelChanges
  BY <1>2, ZenonT(60) DEF KernelChanges, fibVars, PipelineTypeOK
<1>3. CASE MgmtdCalls
  <2>1. PICK i \in Interfaces : SetAddress(i) \/ ClearAddress(i)
    BY <1>3, PipelineAssumption, ZenonT(60) DEF MgmtdCalls
  <2>2. PICK j : Becomes("mgmtd", j)
    BY <2>1, Zenon DEF SetAddress, ClearAddress
  <2>3. job'["orch"] = job["orch"] /\ Calls'
    BY <1>a, <1>b, <2>2, CallsStayCalls, ZenonT(60) DEF Clients
  <2> QED
    BY <1>3, <2>1, <2>3, ZenonT(60) DEF MgmtdCalls, orchVars, PipelineTypeOK, FibNext, MgmtdSets
<1>4. CASE OrchRestarts
  <2>1. job'["orch"] = Idle /\ Calls'
    BY <1>4, <1>a, <1>b, CallsStayCalls, ZenonT(60) DEF OrchRestarts
  <2>2. kernel' = kernel /\ view' = {} /\ ops' = <<>> /\ OrchEnds
    BY <1>4, Zenon DEF OrchRestarts, Quiet, At, OrchEnds
  <2> QED
    BY <1>a, <1>b, <2>1, <2>2 DEF PipelineTypeOK, FibNext
<1>5. CASE FirstDump
  BY <1>5, ZenonT(60) DEF FirstDump, fibVars, PipelineTypeOK
<1>6. CASE SetL3Interfaces
  BY <1>6, ZenonT(60) DEF SetL3Interfaces, fibVars, PipelineTypeOK
<1>7. CASE PassOnChange
  <2>1. UNCHANGED <<fibVars, kernel, view>> /\ Quiet
    BY <1>7, ZenonT(60) DEF PassOnChange
  <2>2. Begin(mirror) \/ UNCHANGED <<mirror, target, ops>>
    BY <1>7, ZenonT(60) DEF PassOnChange
  <2> QED
    BY <2>1, <2>2, BeginKeeps, ZenonT(60) DEF fibVars, PipelineTypeOK
<1>8. CASE PassOnVerify
  <2>1. UNCHANGED <<fibVars, kernel, view>> /\ Quiet /\ Begin(DumpFib)
    BY <1>8, ZenonT(60) DEF PassOnVerify
  <2> QED
    BY <2>1, BeginKeeps, ZenonT(60)
<1>9. CASE ApplyFibOp
  <2> DEFINE op == Head(ops)
  <2>1. op \in PushesOf(target) /\ ops # <<>> /\ UNCHANGED orchVars
    BY <1>9, <1>a DEF ApplyFibOp
  <2>2. \/ op[1] = "ensure_nbr" /\ op[2] \in Interfaces /\ EnsureNeighbor(op[2])
        \/ /\ op[1] = "ensure_route" /\ op[2] \in Dests /\ Sane(target.routes[op[2]])
           /\ EnsureRoute(op[2], target.routes[op[2]])
        \/ op[1] = "remove_route" /\ op[2] \in Dests /\ RemoveRoute(op[2])
        \/ op[1] = "remove_nbr" /\ op[2] \in Interfaces /\ RemoveNeighbor(op[2])
    BY <1>9, <2>1, ZenonT(60) DEF ApplyFibOp, PushesOf
  <2> HIDE DEF op
  <2>3. OrchCalls
    BY <2>2, ZenonT(60) DEF OrchCalls, Sane
  <2>4. PICK j : Becomes("orch", j)
    BY <2>2, ZenonT(60) DEF EnsureNeighbor, RemoveNeighbor, EnsureRoute, RemoveRoute
  <2>5. Calls'
    BY <1>a, <1>b, <2>4, CallsStayCalls, ZenonT(60)
  <2> QED
    BY <1>a, <2>1, <2>3, <2>5, ZenonT(60) DEF orchVars, PipelineTypeOK, FibNext
<1>10. CASE FibOpReplies
  <2>1. UNCHANGED <<kernel, view>> /\ ops' = Tail(ops)
        /\ target' = IF ops' = <<>> THEN NoProgram ELSE target
    BY <1>10, ZenonT(60) DEF FibOpReplies
  <2>2. OrchEnds /\ ops # <<>>
    BY <1>10, <1>a, ZenonT(60) DEF FibOpReplies, At, OrchEnds
  <2>3. ops' \in Seq(PushesOf(target))
    BY <1>a, <2>1, <2>2
  <2>4. job'["orch"] = Idle /\ Calls'
    BY <1>a, <1>b, <2>2, CallsStayCalls, ZenonT(60) DEF OrchEnds
  <2>5. ops' \in Seq(PushesOf(target'))
    <3>1. CASE ops' = <<>>
      BY <3>1
    <3>2. CASE ops' # <<>>
      BY <2>1, <2>3, <3>2, ZenonT(60)
    <3> QED
      BY <3>1, <3>2, ZenonT(60)
  <2> QED
    BY <1>a, <1>b, <2>1, <2>2, <2>4, <2>5, ZenonT(60) DEF PipelineTypeOK, FibNext
<1>11. CASE SyncdRuns
  <2>1. PICK c \in Clients :
          \E j : Becomes(c, j) /\ (job["orch"].pc = "idle" => c = "mgmtd")
    BY <1>11, StepOfOneCall, ZenonT(60) DEF SyncdRuns
  <2>. PICK j : Becomes(c, j) /\ (job["orch"].pc = "idle" => c = "mgmtd")
    BY <2>1, ZenonT(60)
  <2>2. Calls' /\ (job["orch"].pc = "idle" => job'["orch"] = job["orch"])
    BY <1>a, <1>b, CallsStayCalls, ZenonT(60)
  <2> QED
    BY <1>11, <2>2, ZenonT(60) DEF SyncdRuns, orchVars, PipelineTypeOK, FibNext
<1> QED
  BY <1>1, <1>2, <1>3, <1>4, <1>5, <1>6, <1>7, <1>8, <1>9, <1>10, <1>11, ZenonT(60)
     DEF PipelineNext, Environment, Work

-----------------------------------------------------------------------------
(* The theorem                                                             *)

\* The pipeline implements the table's specification: whatever the kernel's
\* routes do, whenever orch re-reads syncd's interfaces or its table, and
\* whatever mgmtd asks for, orch makes its calls one at a time, each of them one
\* the table expects (push_fib and apply_fib_op), as long as it restarts between
\* its passes and not inside a call.
THEOREM PipelineUsesTheTable ==
  ASSUME ~RestartInCall
  PROVE  PipelineSpec => FibSpec
<1>1. PipelineInit => FibInit /\ PipelineTypeOK
  BY DEF PipelineInit, PipelineTypeOK, FibInit, Idle, Clients
<1>2. PipelineTypeOK /\ [PipelineNext]_allVars => PipelineTypeOK' /\ [FibNext]_fibVars
  BY PipelineMoves, Zenon
<1> QED
  BY <1>1, <1>2, PTL DEF PipelineSpec, FibSpec
=============================================================================
