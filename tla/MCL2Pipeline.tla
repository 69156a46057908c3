---------------------------- MODULE MCL2Pipeline ----------------------------
(***************************************************************************)
(* Instances of L2Pipeline: a port with programs of its own, a member of    *)
(* a port-channel, and one that joins it, is routed or is a switchport.    *)
(***************************************************************************)
EXTENDS L2Pipeline

CONSTANTS p1, p2, p3, v10, v20

Access(v) == [untagged |-> v, tagged |-> {}, tunnel |-> FALSE]
QinQ(v) == [untagged |-> v, tagged |-> {}, tunnel |-> TRUE]
Trunk(n, S) == [untagged |-> n, tagged |-> S, tunnel |-> FALSE]

\* Port p1 has program or address of its own, p2 is in group 1 or in none, and
\* the groups have programs.
Net(s10, s20, sw1, lagSw, routed, group2) ==
  [vlans |-> (v10 :> s10) @@ (v20 :> s20),
   sw |-> (p1 :> sw1) @@ (p2 :> None) @@ (p3 :> None)
            @@ [l \in Lags |-> IF l \in DOMAIN lagSw THEN lagSw[l] ELSE None],
   routed |-> routed, lags |-> DOMAIN lagSw,
   group |-> (p1 :> None) @@ (p2 :> group2) @@ (p3 :> None)]

\* Group 1 stays, with or without its member; group 2 comes and goes empty;
\* p1 goes through every mode; VLAN 20 is removed under a port or a LAG.
MCCalmConfigs ==
  { Net("active", "active", Access(v10), 1 :> None, {}, 1),
    Net("active", "active", Trunk(v20, {v10}),
        (1 :> Access(v10)) @@ (2 :> None), {}, 1),
    Net("suspended", "active", QinQ(v10), 1 :> Trunk(Default, {v20}), {}, None),
    Net("suspended", "absent", Access(v10), 1 :> None, {}, None),
    Net("active", "absent", None, 1 :> None, {p1}, None) }
\* A member leaves its group while SAI calls fail.
MCFaultConfigs ==
  { Net("active", "active", Access(v10), 1 :> None, {}, 1),
    Net("active", "active", Access(v20), 1 :> Access(v10), {}, None) }
\* p3 joins p2 in group 1, is routed, or has a switchport of its own.
Crowd(lags, routed, group2, group3) ==
  [Net("absent", "absent", None, lags, routed, group2)
     EXCEPT !.group[p3] = group3]
MCJoinConfigs ==
  { Crowd(1 :> None, {}, 1, None), Crowd(1 :> None, {}, 1, 1),
    Crowd(1 :> None, {p3}, 1, None),
    [Crowd(1 :> None, {}, 1, None) EXCEPT !.vlans[v10] = "active", !.sw[p3] = Access(v10)] }
\* Group 1 is deleted with its members, and comes back.
MCDeleteConfigs == {Crowd(1 :> None, {}, 1, 1), Crowd(<<>>, {}, None, None)}
MCConfigs ==
  MCCalmConfigs \cup MCFaultConfigs \cup MCJoinConfigs \cup MCDeleteConfigs

MCPorts == {p1, p2, p3}
MCVlans == {v10, v20}
MCLags == {1, 2}

VARIABLE scenario   \* which configurations are committed, and whether calls fail

L2Init ==
  PipelineInit /\ scenario \in {"calm", "faulty", "joining", "deleting"}

\* Without faults, three commits and link events together; two commits between
\* two configurations and one link event where SAI calls fail; three commits and
\* one link event where a second member joins or leaves, and where the group
\* goes.  Only p2 sees link events.
From(configs) ==
  target' \in configs \cup {Empty} /\ engine'.link[p1] /\ engine'.link[p3]
Calm ==
  scenario = "calm" /\ faults' = 0 /\ commits' + flips' <= 3 /\ From(MCCalmConfigs)
Faulty ==
  scenario = "faulty" /\ commits' <= 2 /\ flips' <= 1 /\ From(MCFaultConfigs)
Crowded ==
  /\ faults' = 0 /\ flips' <= 1
  /\ \/ scenario = "joining" /\ From(MCJoinConfigs)
     \/ scenario = "deleting" /\ From(MCDeleteConfigs)

\* All the work is done, and a bound stops the next commit.
L2Ends ==
  /\ commits >= 1 /\ ~committing /\ queue = <<>> /\ ~pushing
  /\ Pending(engine) = {}
  /\ UNCHANGED <<scenario, allVars>>

L2Next ==
  \/ PipelineNext /\ (Calm \/ Faulty \/ Crowded) /\ UNCHANGED scenario
  \/ L2Ends

L2Spec ==
  /\ L2Init /\ [][L2Next]_<<scenario, allVars>>
  /\ WF_allVars(CommitCalls \/ CommitPushes \/ CommitFails \/ CommitEnds)
  /\ WF_allVars(EngineStep) /\ WF_allVars(PushStarts \/ PushEnds)
  /\ \A c \in Clients :
       WF_allVars(Step(c) /\ UNCHANGED <<mgmtdVars, orchVars>>)
=============================================================================
