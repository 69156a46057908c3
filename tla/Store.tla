------------------------------- MODULE Store -------------------------------
(***************************************************************************)
(* mgmtd's configuration store, file by file (hemlock-mgmtd/src/store.rs). *)
(* The engine mutex admits one call at a time, so the only thing that can  *)
(* come between two file operations of a call is its end: the process      *)
(* dies, or an operation returns an error and `?` leaves the rest undone.  *)
(* std::fs::write truncates the file and then writes it, two steps here.   *)
(***************************************************************************)
EXTENDS Naturals, Sequences

CONSTANTS Texts, Metas, EmptyText, NoMeta, RingSize,
          Absent,     \* a file that does not exist
          Commits     \* the commits the engine may ask for

ASSUME StoreAssumption ==
  /\ EmptyText \in Texts
  /\ NoMeta \in Metas
  /\ Absent \notin Texts \cup Metas \cup [text : Texts, meta : Metas]
  /\ Commits \subseteq [text : Texts, meta : Metas \ {NoMeta}]
  /\ RingSize \in Nat \ {0}

VARIABLES runningConf,   \* running.conf
          runningJson,   \* running.json
          candidateConf, \* candidate.conf
          ringConf,      \* ringConf[n] is rollback/n.conf
          ringJson,      \* ringJson[n] is rollback/n.json
          pc,            \* the next file operation of the call in progress
          torn,          \* the file of that operation is truncated
          slot,          \* loop variable n of the rotation
          arg,           \* new_running and meta of the call
          before         \* ghost: what the store held when the call began

files == <<runningConf, runningJson, candidateConf, ringConf, ringJson>>
vars == <<files, pc, torn, slot, arg, before>>

Slots == 1..RingSize
Stored == [text : Texts, meta : Metas]
Steps == {"idle", "rotateConf", "rotateJson", "ringConf", "ringJson",
          "runningConf", "runningJson", "candidateConf"}

\* read_or_empty: a missing file reads as the empty configuration.
ReadOrEmpty(conf) == IF conf = Absent THEN EmptyText ELSE conf

running == ReadOrEmpty(runningConf)

\* A missing or unparseable metadata file reads as the default.
ReadMeta(json) == IF json = Absent THEN NoMeta ELSE json

candidate == IF candidateConf = Absent THEN running ELSE candidateConf

\* rollback(n) and list_rollbacks: a point exists when its .conf file does.
RollbackPoint(n) ==
  IF ringConf[n] = Absent
  THEN Absent
  ELSE [text |-> ringConf[n], meta |-> ReadMeta(ringJson[n])]

\* What the store holds, as its callers read it.
Contents ==
  [running |-> [text |-> running, meta |-> ReadMeta(runningJson)],
   candidate |-> candidate,
   ring |-> [n \in Slots |-> RollbackPoint(n)]]

Snapshots == [running : Stored, candidate : Texts,
              ring : [Slots -> Stored \cup {Absent}]]

FilesOK ==
  /\ runningConf \in Texts \cup {Absent}
  /\ runningJson \in Metas \cup {Absent}
  /\ candidateConf \in Texts \cup {Absent}
  /\ ringConf \in [Slots -> Texts \cup {Absent}]
  /\ ringJson \in [Slots -> Metas \cup {Absent}]

TypeOK ==
  /\ FilesOK
  /\ pc \in Steps
  /\ torn \in BOOLEAN
  /\ slot \in 0..(RingSize - 1)
  /\ pc = "rotateJson" => slot # 0
  /\ arg \in Stored
  /\ before \in Snapshots

NoArg == [text |-> EmptyText, meta |-> NoMeta]

Init ==
  /\ runningConf = Absent
  /\ runningJson = Absent
  /\ candidateConf = Absent
  /\ ringConf = [n \in Slots |-> Absent]
  /\ ringJson = [n \in Slots |-> Absent]
  /\ pc = "idle"
  /\ torn = FALSE
  /\ slot = 0
  /\ arg = NoArg
  /\ before = Contents

-----------------------------------------------------------------------------
(* The calls.  A call begins, runs its file operations one by one, ends.   *)

Begin(stored, first) ==
  /\ pc = "idle"
  /\ arg' = stored
  /\ pc' = first
  /\ before' = Contents
  /\ UNCHANGED <<files, torn>>

\* Mutant: the rotation's range is one too short.
BeginCommitShortRotation(stored) ==
  /\ Begin(stored, "rotateConf")
  /\ slot' = RingSize - 2

\* commit(new_running, meta)
BeginCommit(stored) ==
  /\ Begin(stored, "rotateConf")
  /\ slot' = RingSize - 1

\* set_candidate(text); discard_candidate is set_candidate(running).
BeginSetCandidate(text) ==
  /\ Begin([text |-> text, meta |-> NoMeta], "candidateConf")
  /\ UNCHANGED slot

\* The call returns, and the store holds what its files now say.
Return ==
  /\ pc' = "idle"
  /\ torn' = FALSE
  /\ slot' = 0
  /\ arg' = NoArg
  /\ before' = Contents'

\* Rotation, from the oldest slot down: rename n.conf to (n+1).conf.
RotateConf ==
  /\ pc = "rotateConf"
  /\ IF slot = 0
     THEN /\ pc' = "ringConf"
          /\ UNCHANGED <<slot, ringConf>>
     ELSE IF ringConf[slot] = Absent
     THEN /\ slot' = slot - 1
          /\ UNCHANGED <<pc, ringConf>>
     ELSE /\ ringConf' = [ringConf EXCEPT ![slot + 1] = ringConf[slot],
                                          ![slot] = Absent]
          /\ pc' = "rotateJson"
          /\ UNCHANGED slot
  /\ UNCHANGED <<runningConf, runningJson, candidateConf, ringJson,
                 torn, arg, before>>

\* ... and, when it exists, n.json to (n+1).json.
RotateJson ==
  /\ pc = "rotateJson"
  /\ ringJson' = IF ringJson[slot] = Absent
                 THEN ringJson
                 ELSE [ringJson EXCEPT ![slot + 1] = ringJson[slot],
                                       ![slot] = Absent]
  /\ slot' = slot - 1
  /\ pc' = "rotateConf"
  /\ UNCHANGED <<runningConf, runningJson, candidateConf, ringConf,
                 torn, arg, before>>

\* std::fs::write: truncate the file, then fill it and go on to `next`.
Write(next) ==
  /\ torn' = ~torn
  /\ pc' = IF torn THEN next ELSE pc
  /\ UNCHANGED <<slot, arg, before>>

Filled(value, truncated) == IF torn THEN value ELSE truncated

\* Mutant: rollback/1.conf is not written before running.conf.
WriteRingConfLate ==
  /\ pc = "ringConf"
  /\ Write("ringJson")
  /\ UNCHANGED files

WriteRingConf ==
  /\ pc = "ringConf"
  /\ ringConf' = [ringConf EXCEPT ![1] = Filled(running, EmptyText)]
  /\ Write("ringJson")
  /\ UNCHANGED <<runningConf, runningJson, candidateConf, ringJson>>

\* Mutant: the displaced configuration gets the metadata of its successor.
WriteRingJsonNew ==
  /\ pc = "ringJson"
  /\ ringJson' = [ringJson EXCEPT ![1] = Filled(arg.meta, NoMeta)]
  /\ Write("runningConf")
  /\ UNCHANGED <<runningConf, runningJson, candidateConf, ringConf>>

WriteRingJson ==
  /\ pc = "ringJson"
  /\ ringJson' = [ringJson EXCEPT ![1] = Filled(ReadMeta(runningJson), NoMeta)]
  /\ Write("runningConf")
  /\ UNCHANGED <<runningConf, runningJson, candidateConf, ringConf>>

WriteRunningConf ==
  /\ pc = "runningConf"
  /\ runningConf' = Filled(arg.text, EmptyText)
  /\ Write("runningJson")
  /\ UNCHANGED <<runningJson, candidateConf, ringConf, ringJson>>

WriteRunningJson ==
  /\ pc = "runningJson"
  /\ runningJson' = Filled(arg.meta, NoMeta)
  /\ Write("candidateConf")
  /\ UNCHANGED <<runningConf, candidateConf, ringConf, ringJson>>

\* The last write of both calls: truncate, or fill and return.
WriteCandidateConf ==
  /\ pc = "candidateConf"
  /\ candidateConf' = Filled(arg.text, EmptyText)
  /\ UNCHANGED <<runningConf, runningJson, ringConf, ringJson>>
  /\ IF torn THEN Return ELSE Write("candidateConf")

Step ==
  \/ RotateConf \/ RotateJson
  \/ WriteRingConf \/ WriteRingJson
  \/ WriteRunningConf \/ WriteRunningJson
  \/ WriteCandidateConf

Call ==
  \/ \E stored \in Commits : BeginCommit(stored)
  \/ \E text \in Texts : BeginSetCandidate(text)

\* The process dies inside the call, or a file operation fails: the files
\* stay as they are and the remaining operations never happen.
Abort ==
  /\ pc # "idle"
  /\ UNCHANGED files
  /\ Return

Next == Call \/ Step \/ Abort

Spec == Init /\ [][Next]_vars

-----------------------------------------------------------------------------
(* Properties.                                                             *)

InCommit == pc \in Steps \ {"idle"} /\ arg.meta # NoMeta

\* Wherever a commit is cut short, the configuration that was running is
\* still there: in running.conf, or in rollback/1.conf while running.conf is
\* empty or already the new text.  (commit writes rollback/1.conf in full
\* before it touches running.conf.)
PreviousConfigSurvives ==
  InCommit =>
    \/ running = before.running.text
    \/ /\ ringConf[1] = before.running.text
       /\ running \in {EmptyText, arg.text}

\* Wherever a commit is cut short, no rollback point but the oldest is lost:
\* each is still in its slot or already in the next one.  (The rotation goes
\* from the oldest slot down, and slot 1 is rewritten only once it is free.)
RotationLosesOnlyTheOldest ==
  InCommit =>
    \A n \in 1..(RingSize - 1) :
      before.ring[n] # Absent =>
        before.ring[n].text \in {ringConf[n], ringConf[n + 1]}

\* Why the two hold: how far the commit has come, and what each file holds
\* by then.  This is the inductive strengthening of both.
CommitProgress ==
  InCommit =>
    /\ pc \in {"rotateConf", "rotateJson", "ringConf", "ringJson"} =>
         running = before.running.text
    /\ pc \in {"ringJson", "runningConf", "runningJson", "candidateConf"} =>
         ringConf[1] = before.running.text
    /\ pc = "runningConf" =>
         running \in {before.running.text, EmptyText}
    /\ pc \in {"runningJson", "candidateConf"} => running = arg.text
    /\ \A n \in 1..(RingSize - 1) :
         before.ring[n] # Absent =>
           LET moved == \/ pc = "rotateConf" /\ n > slot
                        \/ pc = "rotateJson" /\ n >= slot
                        \/ pc \notin {"rotateConf", "rotateJson"}
           IN  before.ring[n].text = ringConf[IF moved THEN n + 1 ELSE n]

\* The rollback points at the start of the call, newest first.
PointsBefore ==
  LET points == {n \in Slots : before.ring[n] # Absent}
      count == CHOOSE k \in 0..RingSize : points = 1..k
  IN  [n \in 1..count |-> before.ring[n]]
=============================================================================
