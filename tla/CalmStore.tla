----------------------------- MODULE CalmStore -----------------------------
(***************************************************************************)
(* The store against what it promises: in a calm behaviour nothing crashes *)
(* and no file operation fails, and then its calls are the atomic steps of *)
(* RollbackRing.                                                           *)
(***************************************************************************)
EXTENDS Store

VARIABLE calm

CrashOrCalmNext ==
  /\ Call \/ Step \/ (~calm /\ Abort)
  /\ UNCHANGED calm

CrashOrCalmInit == Init /\ calm \in BOOLEAN

CrashOrCalm == CrashOrCalmInit /\ [][CrashOrCalmNext]_<<vars, calm>>

\* The abstract ring, which a behaviour with crashes leaves alone.
Ring == INSTANCE RollbackRing WITH
          running <- IF calm THEN before.running ELSE [text |-> EmptyText, meta |-> NoMeta],
          candidate <- IF calm THEN before.candidate ELSE EmptyText,
          ring <- IF calm THEN PointsBefore ELSE <<>>

\* Without faults the files implement the atomic ring: each call of the store is
\* one step of RollbackRing, taken when the call returns (Store::commit,
\* Store::set_candidate).
ImplementsRing == Ring!Spec
=============================================================================
