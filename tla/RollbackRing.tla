---------------------------- MODULE RollbackRing ----------------------------
(***************************************************************************)
(* What mgmtd's on-disk store promises its callers: a running              *)
(* configuration, a candidate, and a ring of the RingSize configurations   *)
(* that ran before, newest first.  Every stored configuration is a pair of *)
(* its text and the metadata of the commit that created it.  A commit is   *)
(* one atomic step.  The module Store is the file-by-file implementation.  *)
(***************************************************************************)
EXTENDS Naturals, Sequences

CONSTANTS Texts,      \* configuration texts
          Metas,      \* commit metadata (time, comment, user, console)
          EmptyText,  \* the text of a configuration file that is not there
          NoMeta,     \* RollbackMeta::default()
          RingSize    \* RING_SIZE

VARIABLES running,    \* [text, meta] of the running configuration
          candidate,  \* the candidate text
          ring        \* sequence of [text, meta]; ring[n] is rollback point n

ringVars == <<running, candidate, ring>>

Stored == [text : Texts, meta : Metas]

\* The first n elements of a sequence, or all of it when it is shorter.
Front(n, s) == SubSeq(s, 1, IF Len(s) < n THEN Len(s) ELSE n)

RingTypeOK ==
  /\ running \in Stored
  /\ candidate \in Texts
  /\ ring \in Seq(Stored)
  /\ Len(ring) <= RingSize

Init ==
  /\ running = [text |-> EmptyText, meta |-> NoMeta]
  /\ candidate = EmptyText
  /\ ring = <<>>

\* The displaced configuration becomes rollback point 1 with its own
\* metadata, the oldest one falls off, and the candidate follows running.
Commit(text, meta) ==
  /\ running' = [text |-> text, meta |-> meta]
  /\ candidate' = text
  /\ ring' = Front(RingSize, <<running>> \o ring)

SetCandidate(text) ==
  /\ candidate' = text
  /\ UNCHANGED <<running, ring>>

Next ==
  \/ \E text \in Texts, meta \in Metas : Commit(text, meta)
  \/ \E text \in Texts : SetCandidate(text)

Spec == Init /\ [][Next]_ringVars
=============================================================================
