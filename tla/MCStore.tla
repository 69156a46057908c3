------------------------------ MODULE MCStore ------------------------------
(***************************************************************************)
(* Instances of the store: three texts, a ring of three.                   *)
(***************************************************************************)
EXTENDS CalmStore, TLC

CONSTANTS e, a, b, m0, m1, m2

MCTexts == {e, a, b}
MCMetas == {m0, m1, m2}
MCCommits == {[text |-> a, meta |-> m1], [text |-> b, meta |-> m2]}

\* The two commits differ in name only: their texts and metas swap together.
MCSwap ==
  {p \in Permutations({a, b, m1, m2}) : {p[a], p[b]} = {a, b} /\ (p[a] = a <=> p[m1] = m1)}
=============================================================================
