--------------------------- MODULE MCCommitEngine ---------------------------
(***************************************************************************)
(* Instances of CommitEngine: an object of a family that is set and        *)
(* removed in steps of their own, one of a family that is pushed whole,    *)
(* one of a family that needs_syncd_replay does not count, and a kernel    *)
(* object.                                                                 *)
(***************************************************************************)
EXTENDS CommitEngine, TLC

CONSTANTS vlan, lldp, snoop, addr, one, two, t1, t2

MCKeys == {vlan, lldp, snoop, addr}
MCFamily == (vlan :> "vlans") @@ (lldp :> "lldp") @@ (snoop :> "igmpSnooping")
              @@ (addr :> "kernel")
MCValues == {None, one, two}
MCText(v, l, s, a) == (vlan :> v) @@ (lldp :> l) @@ (snoop :> s) @@ (addr :> a)
MCConfigs == {MCText(one, None, None, one), MCText(two, one, one, None)}
MCTimers == {t1, t2}
MCOneTimer == {t1}
MCTwoConfigs == {MCText(one, None, one, None), MCText(None, None, one, None)}
MCSymmetry == Permutations(MCTimers)
=============================================================================
