---------------------------- MODULE MCProtocols ----------------------------
(***************************************************************************)
(* The control protocols of orch, spanning tree, LACP and multicast        *)
(* snooping.  Their engines share no state and no port, so each behaviour  *)
(* of this instance is about one of them, and the others never start.      *)
(***************************************************************************)
EXTENDS MCStp, MCLacp, MCSnoop

VARIABLE protocol   \* the protocol this behaviour is about

ProtocolsInit ==
    /\ protocol \in {"stp", "lacp", "snoop"}
    /\ StpInit /\ LacpInit /\ SnoopInit
    /\ protocol # "stp" => \A c \in Cables : cable[c]
    /\ protocol # "lacp" => lagConfig = [s \in LacpSystems |-> CHOOSE c \in LacpStarts : TRUE]

ProtocolsNext ==
    /\ \/ protocol = "stp" /\ StpNext /\ UNCHANGED <<lacpVars, snoopVars>>
       \/ protocol = "lacp" /\ LacpNext /\ UNCHANGED <<stpVars, snoopVars>>
       \/ protocol = "snoop" /\ SnoopNext /\ UNCHANGED <<stpVars, lacpVars>>
    /\ UNCHANGED protocol

\* The clock of the protocol runs on, and snooping's pushers keep pushing.
ProtocolsFairness ==
    /\ []<><<StpTick \/ LacpTick \/ SnoopTick>>_<<stpVars, lacpVars, snoopVars>>
    /\ \A f \in Families : WF_snoopVars(Push(f))

ProtocolsSpec ==
    ProtocolsInit /\ [][ProtocolsNext]_<<protocol, stpVars, lacpVars, snoopVars>>
      /\ ProtocolsFairness

\* Spanning tree settles on one tree whichever cable flapped, whichever BPDU was
\* lost, and whichever bridge was given a better priority or an edge port before
\* (stp.rs, compute_root and step).
TreeComesToRest == protocol = "stp" => TreeConverges

\* Two systems that speak LACP end with every usable member bundled, or with
\* none where they are fewer than min-links (lacp.rs, step).
LagComesToRest == protocol = "lacp" => LagSettles

\* A group nobody listens to any more leaves the ASIC (snoop.rs, step, and the
\* pushers of orch).
SilentGroupGoes == protocol = "snoop" => SilentGroupIsRemoved
=============================================================================
