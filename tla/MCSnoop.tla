------------------------------ MODULE MCSnoop ------------------------------
(* Snooping as it starts, and the settings it may be given: fast leave with a
   static router port and no querier, snooping off in the VLAN, and no VLAN. *)
EXTENDS Snoop

Snooping(vlan, vdis, fast, q, addr, st) ==
    [disabled |-> FALSE, vlan |-> vlan, vlanDisabled |-> vdis, fastLeave |-> fast,
     querier |-> q, address |-> addr, static |-> st]

MCSnoopStart == Snooping(TRUE, FALSE, FALSE, TRUE, 2, {})
MCSnoopConfigs == {Snooping(TRUE, FALSE, TRUE, FALSE, 0, {2}),
                   Snooping(TRUE, TRUE, FALSE, TRUE, 2, {}),
                   Snooping(FALSE, FALSE, FALSE, FALSE, 0, {})}
MCRouters == {<<"igmp", 2, 1>>}
=============================================================================
