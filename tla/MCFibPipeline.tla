--------------------------- MODULE MCFibPipeline ---------------------------
(***************************************************************************)
(* Instances of FibPipeline: two destinations that can share two           *)
(* interfaces, alone or as an ECMP group.                                  *)
(***************************************************************************)
EXTENDS FibPipeline

CONSTANTS d1, d2, e1, e2

MCDests == {d1, d2}
MCInterfaces == {e1, e2}
MCAddressed == {e1}
MCNoneAddressed == {}

Via(S) == [blackhole |-> FALSE, hops |-> S]
Blackhole == [blackhole |-> TRUE, hops |-> {}]
Tables(r1, r2, S) == [routes |-> [d \in MCDests |-> IF d = d1 THEN r1 ELSE r2],
                      nbrs |-> S]
Before == Tables(None, Via({e1, e2}), {e1})
After == Tables(Via({e1, e2}), Blackhole, {e1, e2})
MCKernels == {Before, After}
=============================================================================
