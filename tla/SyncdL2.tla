------------------------------- MODULE SyncdL2 -------------------------------
(***************************************************************************)
(* The bridging side of hemlock-syncd: VLANs, switchport programs, routed  *)
(* ports and port-channels (LAGs).  syncd keeps tables of what it applied  *)
(* and drives the ASIC through SAI; a handler reads the tables once, makes *)
(* its SAI calls one by one with no lock held, and writes the tables at    *)
(* the end.  An error on the way returns at once, so the tables then tell  *)
(* the state from before the call.                                         *)
(*                                                                         *)
(* A handler is the sequence of operations it computes from the tables     *)
(* when it starts; mgmtd and orch each have at most one call in flight.    *)
(* The ASIC is the contract of the SAI trait as the mock backend states    *)
(* it.  Object ids are structural, as the OpenBCM backend mints them: a    *)
(* membership is named by its VLAN and its port.                           *)
(***************************************************************************)
EXTENDS Integers, Sequences, FiniteSets, SequencesExt, TLC

CONSTANTS
  Ports,       \* front-panel ports
  Lags,        \* port-channel groups
  Vlans,       \* the VLANs an operator can create: all but the default one
  Default,     \* VLAN 1, which always exists in hardware
  None,        \* absence: of a switchport program, of a group
  MaxFaults    \* how many SAI calls may fail although the ASIC accepts them

VARIABLES
  asic,        \* what the ASIC holds
  tbl,         \* syncd's shared tables
  call,        \* call[c]: operations the call of client c still has to make
  result,      \* result[c]: how the last call of client c ended
  faults       \* SAI calls that failed so far

vars == <<asic, tbl, call, result, faults>>

Clients == {"mgmtd", "orch"}
PortLike == Ports \cup Lags
VlanIds == Vlans \cup {Default}

\* A switchport program.  Access mode is an untagged VLAN alone; a trunk has
\* its native VLAN untagged and the rest tagged; dot1q-tunnel is access mode
\* with another TPID.
Program == [untagged : VlanIds, tagged : SUBSET Vlans, tunnel : BOOLEAN]

\* VLAN memberships, by VLAN and tagging.
Membership == Vlans \X BOOLEAN

\* A port's place in a LAG: no member, or a member with its gate (collecting
\* and distributing) closed or open.
Place == {"out", "closed", "open"}

\* What the ASIC holds.  putBack is history: the ports that are in the default
\* VLAN because they left a LAG, and whose place there nothing has settled since.
Asic == [vlans   : SUBSET Vlans,
         members : SUBSET (Vlans \X PortLike \X BOOLEAN),
         default : SUBSET PortLike,
         pvid    : [PortLike -> VlanIds],
         tunnels : SUBSET Ports,
         rifs    : SUBSET Ports,
         lags    : SUBSET Lags,
         lagOf   : [Ports -> Lags \cup {None}],
         open    : SUBSET Ports,
         putBack : SUBSET Ports]

Tables == [vlans   : [Vlans -> {"absent", "active", "suspended"}],
           sw      : [PortLike -> Program \cup {None}],
           members : [PortLike -> SUBSET Membership],
           routed  : SUBSET Ports,
           lags    : SUBSET Lags,
           place   : [Lags -> [Ports -> Place]]]

Init ==
  /\ asic = [vlans |-> {}, members |-> {}, default |-> Ports,
             pvid |-> [x \in PortLike |-> Default], tunnels |-> {},
             rifs |-> {}, lags |-> {}, lagOf |-> [p \in Ports |-> None],
             open |-> {}, putBack |-> {}]
  /\ tbl = [vlans |-> [v \in Vlans |-> "absent"],
            sw |-> [x \in PortLike |-> None],
            members |-> [x \in PortLike |-> {}], routed |-> {}, lags |-> {},
            place |-> [l \in Lags |-> [p \in Ports |-> "out"]]]
  /\ call = [c \in Clients |-> <<>>]
  /\ result = [c \in Clients |-> "ok"]
  /\ faults = 0

-----------------------------------------------------------------------------
(* SAI                                                                     *)

\* An operation of a handler: the SAI function or table write it is, with the
\* VLAN, the port or LAG, the group and the flag it takes.
Op(f, v, x, l, on) == [fn |-> f, vlan |-> v, port |-> x, lag |-> l, on |-> on]
VlanOp(f, v) == Op(f, v, None, None, FALSE)
MemberOp(f, x, m) == Op(f, m[1], x, None, m[2])
PortOp(f, x) == Op(f, None, x, None, FALSE)
LagOp(f, l) == Op(f, None, None, l, FALSE)
BundleOp(f, l, p, on) == Op(f, None, p, l, on)

\* The ASIC accepts the call: the checks at the head of each function.
AcceptsBridge(op) ==
  CASE op.fn = "create_vlan" -> op.vlan \notin asic.vlans
    [] op.fn = "remove_vlan" ->
         /\ op.vlan \in asic.vlans
         /\ \A m \in asic.members : m[1] # op.vlan
    [] op.fn = "add_vlan_member" ->
         /\ op.port \notin asic.rifs
         /\ op.vlan \in asic.vlans
         /\ \A m \in asic.members : <<m[1], m[2]>> # <<op.vlan, op.port>>
    [] op.fn = "remove_vlan_member" ->
         <<op.vlan, op.port, op.on>> \in asic.members
    [] op.fn = "restore_port_default_vlan" -> op.port \notin asic.rifs
    [] op.fn = "create_router_interface" -> op.port \notin asic.rifs
    [] op.fn = "remove_router_interface" -> op.port \in asic.rifs
    [] OTHER -> TRUE

AcceptsLag(op) ==
  CASE op.fn = "remove_lag" ->
         /\ op.lag \in asic.lags
         /\ \A p \in Ports : asic.lagOf[p] # op.lag
         /\ \A m \in asic.members : m[2] # op.lag
    [] op.fn = "add_lag_member" ->
         /\ op.lag \in asic.lags
         /\ op.port \notin asic.rifs
         /\ asic.lagOf[op.port] = None
    [] op.fn \in {"remove_lag_member", "set_lag_member_state"} ->
         asic.lagOf[op.port] = op.lag
    [] OTHER -> TRUE

\* A port or LAG bridged in the default VLAN, with the matching PVID.
InDefault(a, x) == [a EXCEPT !.default = @ \cup {x}, !.pvid[x] = Default]

Put(set, x, on) == IF on THEN set \cup {x} ELSE set \ {x}

\* What an accepted call does to the ASIC.
BridgeEffect(op) ==
  CASE op.fn = "create_vlan" -> [asic EXCEPT !.vlans = @ \cup {op.vlan}]
    [] op.fn = "remove_vlan" -> [asic EXCEPT !.vlans = @ \ {op.vlan}]
    [] op.fn \in {"add_vlan_member", "remove_vlan_member"} ->
         [asic EXCEPT !.members =
            Put(@, <<op.vlan, op.port, op.on>>, op.fn = "add_vlan_member")]
    [] op.fn = "set_port_pvid" -> [asic EXCEPT !.pvid[op.port] = op.vlan]
    [] op.fn = "remove_port_default_vlan" ->
         [asic EXCEPT !.default = @ \ {op.port}, !.putBack = @ \ {op.port}]
    [] op.fn = "restore_port_default_vlan" ->
         InDefault([asic EXCEPT !.putBack = @ \ {op.port}], op.port)
    [] op.fn = "set_port_tpid" ->
         [asic EXCEPT !.tunnels = Put(@, op.port, op.on)]

\* Routing a port takes it out of the bridge; it comes back to the default VLAN.
RifEffect(op) ==
  CASE op.fn = "create_router_interface" ->
         [asic EXCEPT !.rifs = @ \cup {op.port}, !.default = @ \ {op.port},
                      !.putBack = @ \ {op.port}]
    [] op.fn = "remove_router_interface" ->
         InDefault([asic EXCEPT !.rifs = @ \ {op.port}], op.port)

\* A port that leaves its LAG is back in the default VLAN.
LagEffect(op) ==
  CASE op.fn = "create_lag" ->
         InDefault([asic EXCEPT !.lags = @ \cup {op.lag}], op.lag)
    [] op.fn = "remove_lag" ->
         [asic EXCEPT !.lags = @ \ {op.lag}, !.default = @ \ {op.lag},
                      !.pvid[op.lag] = Default]
    [] op.fn = "add_lag_member" ->
         [asic EXCEPT !.lagOf[op.port] = op.lag, !.default = @ \ {op.port},
                      !.putBack = @ \ {op.port}]
    [] op.fn = "remove_lag_member" ->
         InDefault([asic EXCEPT !.lagOf[op.port] = None,
                                !.open = @ \ {op.port},
                                !.putBack = @ \cup {op.port}], op.port)
    [] op.fn = "set_lag_member_state" ->
         [asic EXCEPT !.open = Put(@, op.port, op.on)]

BridgeCalls == {"create_vlan", "remove_vlan", "add_vlan_member",
                "remove_vlan_member", "set_port_pvid",
                "remove_port_default_vlan", "restore_port_default_vlan",
                "set_port_tpid"}
RifCalls == {"create_router_interface", "remove_router_interface"}
LagCalls == {"create_lag", "remove_lag", "add_lag_member",
             "remove_lag_member", "set_lag_member_state"}

\* The routes of an address: created after the router interface, removed
\* before it.  What they hold is of no interest here; that creating them can
\* fail is.
RouteCalls == {"create_route"}

SaiCalls == BridgeCalls \cup RifCalls \cup LagCalls \cup RouteCalls

-----------------------------------------------------------------------------
(* The tables                                                              *)

\* Membership records of a VLAN are dropped from the ports, not from the LAGs.
WithoutVlan(members, v) ==
  [x \in PortLike |->
     IF x \in Ports THEN {m \in members[x] : m[1] # v} ELSE members[x]]

\* What a table write does; `set' is the value written.
TableEffect(op) ==
  CASE op.fn = "tbl_vlan" -> [tbl EXCEPT !.vlans[op.vlan] = op.set]
    [] op.fn = "tbl_drop_vlan" ->
         [tbl EXCEPT !.members = WithoutVlan(@, op.vlan)]
    [] op.fn = "tbl_add_member" ->
         [tbl EXCEPT !.members[op.port] =
            IF tbl.sw[op.port] = None THEN @ ELSE @ \cup {<<op.vlan, op.on>>}]
    [] op.fn = "tbl_switchport" ->
         IF op.port \in Lags \ tbl.lags THEN tbl
         ELSE [tbl EXCEPT !.sw[op.port] = op.set.sw,
                          !.members[op.port] = op.set.members]
    [] op.fn = "tbl_routed" ->
         [tbl EXCEPT !.routed = Put(@, op.port, op.on)]
    [] op.fn = "tbl_create_lag" -> [tbl EXCEPT !.lags = @ \cup {op.lag}]
    [] op.fn = "tbl_place" ->
         IF op.lag \in tbl.lags THEN [tbl EXCEPT !.place[op.lag] = op.set]
         ELSE tbl
    [] op.fn = "tbl_remove_lag" ->
         [tbl EXCEPT !.lags = @ \ {op.lag}, !.sw[op.lag] = None,
                     !.members[op.lag] = {},
                     !.place[op.lag] = [p \in Ports |-> "out"]]

\* A table write of value s.
Write(op, s) == op @@ [set |-> s]

-----------------------------------------------------------------------------
(* The handlers: refused at once, or a sequence of operations              *)

Refused == [ok |-> FALSE, ops |-> <<>>]
Does(ops) == [ok |-> TRUE, ops |-> ops]

\* One operation for each element of a set, in some order.
EachOf(S, op(_)) == LET s == SetToSeq(S) IN [i \in DOMAIN s |-> op(s[i])]

\* The memberships a program asks for; the default VLAN is never one of them.
Wanted(sw) ==
  {m \in {<<sw.untagged, FALSE>>}
           \cup {<<v, TRUE>> : v \in sw.tagged \ {sw.untagged}} :
     m[1] # Default}

\* The memberships a program produces: undefined and suspended VLANs are
\* skipped.
Desired(sw) == {m \in Wanted(sw) : tbl.vlans[m[1]] = "active"}

DropAll(x, S) == EachOf(S, LAMBDA m : MemberOp("remove_vlan_member", x, m))
AddAll(x, S) == EachOf(S, LAMBDA m : MemberOp("add_vlan_member", x, m))

\* Mutant: the new memberships are added before the stale ones go.
ProgramL2AddsFirst(x, sw) ==
  AddAll(x, Desired(sw) \ tbl.members[x])
    \o << PortOp(IF sw.untagged = Default THEN "restore_port_default_vlan"
                 ELSE "remove_port_default_vlan", x) >>
    \o DropAll(x, tbl.members[x] \ Desired(sw))
    \o << Op("set_port_pvid", sw.untagged, x, None, FALSE) >>

\* Reconcile the memberships of a port or LAG with a program: drop the stale
\* ones, settle the default VLAN, add the missing ones, set the PVID.
ProgramL2(x, sw) ==
  DropAll(x, tbl.members[x] \ Desired(sw))
    \o << PortOp(IF sw.untagged = Default THEN "restore_port_default_vlan"
                 ELSE "remove_port_default_vlan", x) >>
    \o AddAll(x, Desired(sw) \ tbl.members[x])
    \o << Op("set_port_pvid", sw.untagged, x, None, FALSE) >>

WriteSwitchport(x, sw, members) ==
  Write(PortOp("tbl_switchport", x), [sw |-> sw, members |-> members])

Tunnel(x) == tbl.sw[x] # None /\ tbl.sw[x].tunnel
SetTpid(x, on) == << Op("set_port_tpid", None, x, None, on) >>

SetPortSwitchport(x, sw) ==
  IF x \in tbl.routed \cup (Lags \ tbl.lags) THEN Refused
  ELSE Does(ProgramL2(x, sw)
              \o (IF sw.tunnel # Tunnel(x) THEN SetTpid(x, sw.tunnel) ELSE <<>>)
              \o << WriteSwitchport(x, sw, Desired(sw)) >>)

ClearPortSwitchport(x) ==
  IF tbl.sw[x] = None THEN Does(<<>>)
  ELSE Does(DropAll(x, tbl.members[x])
              \o (IF Tunnel(x) THEN SetTpid(x, FALSE) ELSE <<>>)
              \o << PortOp("restore_port_default_vlan", x),
                    WriteSwitchport(x, None, {}) >>)

\* Mutant: the memberships stay in the tables.
DetachVlanForgetsNothing(v) ==
  EachOf({xm \in Ports \X Membership :
            xm[2] \in tbl.members[xm[1]] /\ xm[2][1] = v},
         LAMBDA xm : MemberOp("remove_vlan_member", xm[1], xm[2]))

\* Detach every port's membership of a VLAN, and forget them.
DetachVlan(v) ==
  EachOf({xm \in Ports \X Membership :
            xm[2] \in tbl.members[xm[1]] /\ xm[2][1] = v},
         LAMBDA xm : MemberOp("remove_vlan_member", xm[1], xm[2]))
    \o << VlanOp("tbl_drop_vlan", v) >>

\* Re-add the memberships the ports' programs want, each recorded as it is
\* added.
ReattachVlan(v) ==
  LET wanted == {xm \in Ports \X Membership :
                   /\ tbl.sw[xm[1]] # None
                   /\ xm[2][1] = v /\ xm[2] \in Wanted(tbl.sw[xm[1]])
                   /\ \A m \in tbl.members[xm[1]] : m[1] # v}
  IN FlattenSeq(EachOf(wanted, LAMBDA xm :
       << MemberOp("add_vlan_member", xm[1], xm[2]),
          MemberOp("tbl_add_member", xm[1], xm[2]) >>))

\* Create the VLAN unless it exists; when it does, a change of its suspension
\* reconciles the memberships.
EnsureVlan(v, state) ==
  LET was == tbl.vlans[v]
      write == << Write(VlanOp("tbl_vlan", v), state) >>
  IN Does(IF was = "absent" THEN << VlanOp("create_vlan", v) >> \o write
          ELSE IF was = state THEN write
          ELSE write \o (IF state = "suspended" THEN DetachVlan(v)
                         ELSE ReattachVlan(v)))

RemoveVlan(v) ==
  IF tbl.vlans[v] = "absent" THEN Does(<<>>)
  ELSE Does(DetachVlan(v)
              \o << VlanOp("remove_vlan", v),
                    Write(VlanOp("tbl_vlan", v), "absent") >>)

SetInterfaceAddress(p) ==
  IF tbl.sw[p] # None THEN Refused
  ELSE Does(IF p \in tbl.routed THEN <<>>
            ELSE << PortOp("create_router_interface", p),
                    PortOp("create_route", p),
                    Op("tbl_routed", None, p, None, TRUE) >>)

ClearInterfaceAddress(p) ==
  Does(IF p \notin tbl.routed THEN <<>>
       ELSE << PortOp("remove_router_interface", p),
               Op("tbl_routed", None, p, None, FALSE) >>)

CreateLag(l) ==
  Does(IF l \in tbl.lags THEN <<>>
       ELSE << LagOp("create_lag", l), LagOp("tbl_create_lag", l) >>)

\* Switchport memberships, then members, then the LAG object.
RemoveLag(l) ==
  IF l \notin tbl.lags THEN Does(<<>>)
  ELSE Does((IF tbl.sw[l] = None THEN <<>>
             ELSE DropAll(l, tbl.members[l])
                    \o << PortOp("restore_port_default_vlan", l) >>)
              \o EachOf({p \in Ports : tbl.place[l][p] # "out"},
                        LAMBDA p : BundleOp("remove_lag_member", l, p, FALSE))
              \o << LagOp("remove_lag", l), LagOp("tbl_remove_lag", l) >>)

\* The operations that bring one port to its place in a LAG it stays in or
\* joins.
Settle(l, p, place) ==
  LET gate == << BundleOp("set_lag_member_state", l, p, place = "open") >>
  IN IF tbl.place[l][p] = "out"
     THEN << PortOp("check_routed", p), BundleOp("add_lag_member", l, p, FALSE) >>
            \o (IF place = "open" THEN gate ELSE <<>>)
     ELSE IF place # tbl.place[l][p] THEN gate ELSE <<>>

\* The whole wanted membership of a LAG: stale members leave, missing ones
\* join, gates are settled, and only then is the table written.
SetLagMembers(l, want) ==
  IF l \notin tbl.lags THEN Refused
  ELSE Does(EachOf({p \in Ports : want[p] = "out" /\ tbl.place[l][p] # "out"},
                   LAMBDA p : BundleOp("remove_lag_member", l, p, FALSE))
              \o FlattenSeq(EachOf({p \in Ports : want[p] # "out"},
                                   LAMBDA p : Settle(l, p, want[p])))
              \o << Write(LagOp("tbl_place", l), want) >>)

-----------------------------------------------------------------------------
(* Calls                                                                   *)

Busy(c) == call[c] # <<>>

\* Client c calls a handler: it is refused, has nothing to do, or starts.
Call(c, handler) ==
  /\ ~Busy(c)
  /\ call' = [call EXCEPT ![c] = handler.ops]
  /\ result' = [result EXCEPT ![c] = IF handler.ok THEN "ok" ELSE "refused"]
  /\ UNCHANGED <<asic, tbl, faults>>

Fails(c, how) ==
  /\ call' = [call EXCEPT ![c] = <<>>]
  /\ result' = [result EXCEPT ![c] = how]
  /\ UNCHANGED <<asic, tbl>>

\* The next SAI call of c reaches the ASIC, which accepts or refuses it.
SaiStep(c) ==
  /\ Busy(c)
  /\ LET op == Head(call[c])
     IN /\ op.fn \in SaiCalls
        /\ IF AcceptsBridge(op) /\ AcceptsLag(op)
           THEN /\ asic' = CASE op.fn \in BridgeCalls -> BridgeEffect(op)
                             [] op.fn \in RifCalls -> RifEffect(op)
                             [] op.fn \in LagCalls -> LagEffect(op)
                             [] OTHER -> asic
                /\ call' = [call EXCEPT ![c] = Tail(@)]
                /\ UNCHANGED <<tbl, result>>
           ELSE Fails(c, "internal")
  /\ UNCHANGED faults

\* The next SAI call of c fails for a reason of the hardware's.
SaiFault(c) ==
  /\ Busy(c)
  /\ Head(call[c]).fn \in SaiCalls
  /\ faults < MaxFaults
  /\ faults' = faults + 1
  /\ Fails(c, "internal")

\* The next operation of c is on the tables: a write, or the check that a
\* port about to join a LAG is not routed, which ends the call where it is.
TableStep(c) ==
  /\ Busy(c)
  /\ LET op == Head(call[c])
     IN /\ op.fn \notin SaiCalls
        /\ IF op.fn # "check_routed"
           THEN /\ tbl' = TableEffect(op)
                /\ call' = [call EXCEPT ![c] = Tail(@)]
                /\ UNCHANGED <<asic, result>>
           ELSE IF op.port \in tbl.routed THEN Fails(c, "routed")
           ELSE /\ call' = [call EXCEPT ![c] = Tail(@)]
                /\ UNCHANGED <<asic, tbl, result>>
  /\ UNCHANGED faults

Step(c) == SaiStep(c) \/ SaiFault(c) \/ TableStep(c)
=============================================================================
