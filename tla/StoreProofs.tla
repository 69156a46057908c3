---------------------------- MODULE StoreProofs ----------------------------
(***************************************************************************)
(* Proofs about the configuration store, for every ring size, every set of *)
(* texts and metadata and every set of commits: what a crash cannot take   *)
(* away, and that without faults the files implement RollbackRing.         *)
(***************************************************************************)
EXTENDS CalmStore, TLAPS

USE DEF Slots, Stored, Steps

\* Well-typed files read as a well-typed snapshot.
LEMMA ContentsType == FilesOK => Contents \in Snapshots
<1> SUFFICES ASSUME FilesOK PROVE Contents \in Snapshots
  BY Zenon
<1>1. running \in Texts
  BY StoreAssumption, Zenon DEF FilesOK, ReadOrEmpty, running
<1>2. candidate \in Texts
  BY <1>1, Zenon DEF FilesOK, candidate
<1>3. ReadMeta(runningJson) \in Metas
  BY StoreAssumption, Zenon DEF FilesOK, ReadMeta
<1>4. ASSUME NEW n \in Slots PROVE RollbackPoint(n) \in Stored \cup {Absent}
  <2>1. ReadMeta(ringJson[n]) \in Metas
    BY StoreAssumption, Zenon DEF FilesOK, ReadMeta
  <2> QED BY <2>1, Zenon DEF FilesOK, RollbackPoint
<1> HIDE DEF Stored, running, candidate, RollbackPoint, ReadMeta
<1>5. [text |-> running, meta |-> ReadMeta(runningJson)] \in Stored
  BY <1>1, <1>3, Zenon DEF Stored
<1> QED BY <1>2, <1>4, <1>5, Zenon DEF Contents, Snapshots

\* A call that returns leaves a well-typed snapshot.
LEMMA ReturnType == Return /\ FilesOK' => TypeOK'
<1>1. (FilesOK => Contents \in Snapshots)'
  BY ContentsType, PTL
<1>2. NoArg \in Stored
  BY StoreAssumption, Zenon DEF NoArg
<1> SUFFICES ASSUME Return, FilesOK' PROVE TypeOK'
  BY Zenon
<1>3. torn' \in BOOLEAN
  BY Zenon DEF Return
<1>4. pc' = "idle"
  BY Zenon DEF Return
<1>5. slot' \in 0..(RingSize - 1)
  BY StoreAssumption DEF Return
<1>6. arg' \in Stored
  BY <1>2, Zenon DEF Return
<1>7. before' \in Snapshots
  BY <1>1, Zenon DEF Return
<1> QED BY <1>3, <1>4, <1>5, <1>6, <1>7, Zenon DEF TypeOK

LEMMA TypeInit == Init => TypeOK
<1> SUFFICES ASSUME Init PROVE TypeOK
  BY Zenon
<1>1. FilesOK
  BY Zenon DEF Init, FilesOK
<1>2. pc = "idle" /\ slot \in 0..(RingSize - 1)
  BY StoreAssumption DEF Init
<1>3. torn \in BOOLEAN
  BY Zenon DEF Init
<1>4. arg \in Stored
  BY StoreAssumption, Zenon DEF Init, NoArg
<1>5. before \in Snapshots
  BY <1>1, ContentsType, Zenon DEF Init
<1> QED BY <1>1, <1>2, <1>3, <1>4, <1>5, Zenon DEF TypeOK

LEMMA TypeStep == TypeOK /\ [Next]_vars => TypeOK'
<1> SUFFICES ASSUME TypeOK, [Next]_vars PROVE TypeOK'
  BY Zenon
<1>1. ASSUME NEW stored \in Commits, BeginCommit(stored) PROVE TypeOK'
  BY <1>1, ContentsType, StoreAssumption DEF TypeOK, FilesOK, BeginCommit, Begin, files
<1>2. ASSUME NEW text \in Texts, BeginSetCandidate(text) PROVE TypeOK'
  BY <1>2, ContentsType, StoreAssumption, Zenon
     DEF TypeOK, FilesOK, BeginSetCandidate, Begin, files
<1>3. CASE RotateConf
  <2>1. ringConf' \in [Slots -> Texts \cup {Absent}]
    BY <1>3, StoreAssumption DEF TypeOK, FilesOK, RotateConf
  <2>2. pc' \in Steps
    BY <1>3, Zenon DEF TypeOK, RotateConf
  <2>3. slot' \in 0..(RingSize - 1) /\ (pc' = "rotateJson" => slot' # 0)
    BY <1>3, StoreAssumption DEF TypeOK, RotateConf
  <2> QED BY <1>3, <2>1, <2>2, <2>3, Zenon DEF TypeOK, FilesOK, RotateConf
<1>4. CASE RotateJson
  <2>1. ringJson' \in [Slots -> Metas \cup {Absent}]
    BY <1>4, StoreAssumption DEF TypeOK, FilesOK, RotateJson
  <2>2. slot' \in 0..(RingSize - 1)
    BY <1>4, StoreAssumption DEF TypeOK, RotateJson
  <2>3. pc' = "rotateConf" /\ "rotateConf" \in Steps
    BY <1>4, Zenon DEF RotateJson, Steps
  <2> QED BY <1>4, <2>1, <2>2, <2>3, Zenon DEF TypeOK, FilesOK, RotateJson
<1>5. CASE WriteRingConf
  BY <1>5, StoreAssumption, Zenon DEF TypeOK, FilesOK, WriteRingConf, Write, Filled, running, ReadOrEmpty
<1>6. CASE WriteRingJson
  BY <1>6, StoreAssumption, Zenon DEF TypeOK, FilesOK, WriteRingJson, Write, Filled, ReadMeta
<1>7. CASE WriteRunningConf
  BY <1>7, StoreAssumption, Zenon DEF TypeOK, FilesOK, WriteRunningConf, Write, Filled
<1>8. CASE WriteRunningJson
  BY <1>8, StoreAssumption, Zenon DEF TypeOK, FilesOK, WriteRunningJson, Write, Filled
<1>9. CASE WriteCandidateConf
  <2>1. candidateConf' \in Texts
    BY <1>9, StoreAssumption, Zenon DEF TypeOK, FilesOK, WriteCandidateConf, Filled
  <2>2. CASE torn
    BY <1>9, <2>1, <2>2, ReturnType, Zenon DEF TypeOK, FilesOK, WriteCandidateConf
  <2>3. CASE ~torn
    BY <1>9, <2>1, <2>3, Zenon DEF TypeOK, FilesOK, WriteCandidateConf, Write
  <2> QED BY <2>2, <2>3, Zenon
<1>10. CASE Abort
  BY <1>10, ReturnType, Zenon DEF TypeOK, FilesOK, Abort, files
<1>11. CASE UNCHANGED vars
  BY <1>11, Zenon DEF TypeOK, FilesOK, vars, files
<1> QED
  BY <1>1, <1>2, <1>3, <1>4, <1>5, <1>6, <1>7, <1>8, <1>9, <1>10, <1>11, Zenon
     DEF Next, Call, Step

\* Type correctness of the store: every file holds a text or metadata, and
\* the rotation's loop variable stays inside the ring.
THEOREM StoreTypeOK == Spec => []TypeOK
  BY TypeInit, TypeStep, PTL DEF Spec

-----------------------------------------------------------------------------
(* Progress of a commit, preserved by every step.                          *)

LEMMA ProgressStep == TypeOK /\ CommitProgress /\ [Next]_vars => CommitProgress'
<1> SUFFICES ASSUME TypeOK, CommitProgress, [Next]_vars PROVE CommitProgress'
  BY Zenon
<1> USE DEF CommitProgress, InCommit
<1>1. ASSUME NEW stored \in Commits, BeginCommit(stored) PROVE CommitProgress'
  <2>1. running' = running /\ before'.running.text = running'
    BY <1>1, Zenon DEF BeginCommit, Begin, files, Contents, running
  <2>2. ASSUME NEW n \in 1..(RingSize - 1), before'.ring[n] # Absent
        PROVE  before'.ring[n].text = ringConf'[n]
    BY <1>1, <2>2, StoreAssumption
       DEF BeginCommit, Begin, files, Contents, RollbackPoint
  <2>3. pc' = "rotateConf" /\ slot' = RingSize - 1
    BY <1>1, Zenon DEF BeginCommit, Begin
  <2> QED BY <2>1, <2>2, <2>3, StoreAssumption
<1>2. ASSUME NEW text \in Texts, BeginSetCandidate(text) PROVE CommitProgress'
  BY <1>2, Zenon DEF BeginSetCandidate, Begin
<1>3. CASE RotateConf
  <2>1. UNCHANGED <<running, before, arg>>
    BY <1>3, Zenon DEF RotateConf, running
  <2>2. ASSUME InCommit, NEW n \in 1..(RingSize - 1), before.ring[n] # Absent
        PROVE  before.ring[n].text \in Texts
    BY <2>2, StoreAssumption DEF TypeOK, Snapshots
  <2>3. CASE slot = 0
    <3>1. pc = "rotateConf" /\ pc' = "ringConf" /\ ringConf' = ringConf
      BY <1>3, <2>3, Zenon DEF RotateConf
    <3> QED BY <2>1, <2>3, <3>1
  <2>5. CASE slot # 0 /\ ringConf[slot] = Absent
    <3>1. /\ pc = "rotateConf" /\ pc' = "rotateConf"
          /\ slot' = slot - 1 /\ ringConf' = ringConf
      BY <1>3, <2>5, Zenon DEF RotateConf
    <3>2. ASSUME InCommit, NEW n \in 1..(RingSize - 1), before.ring[n] # Absent
          PROVE  n # slot
      BY <2>2, <2>5, <3>1, <3>2, StoreAssumption
    <3> QED BY <2>1, <3>1, <3>2, StoreAssumption DEF TypeOK
  <2>4. CASE slot # 0 /\ ringConf[slot] # Absent
    <3>1. /\ slot # 0 /\ slot' = slot
          /\ pc = "rotateConf" /\ pc' = "rotateJson"
          /\ ringConf' = [ringConf EXCEPT ![slot + 1] = ringConf[slot],
                                          ![slot] = Absent]
      BY <1>3, <2>4, Zenon DEF RotateConf
    <3>2. ASSUME InCommit, NEW n \in 1..(RingSize - 1), before.ring[n] # Absent
          PROVE  before.ring[n].text = ringConf'[IF n >= slot THEN n + 1 ELSE n]
      <4>1. ringConf[IF n > slot THEN n + 1 ELSE n] = before.ring[n].text
        BY <3>1, <3>2, Zenon
      <4> QED BY <3>1, <4>1, StoreAssumption DEF TypeOK, FilesOK
    <3> QED BY <2>1, <3>1, <3>2, Zenon
  <2> QED BY <2>3, <2>4, <2>5, Zenon
<1>4. CASE RotateJson
  <2>1. UNCHANGED <<running, before, arg, ringConf>>
    BY <1>4, Zenon DEF RotateJson, running
  <2> QED BY <1>4, <2>1, StoreAssumption DEF RotateJson, TypeOK
<1>5. CASE WriteRingConf
  <2>1. UNCHANGED <<running, before, arg>>
    BY <1>5, Zenon DEF WriteRingConf, Write, running
  <2> QED BY <1>5, <2>1, StoreAssumption
          DEF WriteRingConf, Write, Filled, TypeOK, FilesOK
<1>6. CASE WriteRingJson
  <2>1. UNCHANGED <<running, before, arg, ringConf>>
    BY <1>6, Zenon DEF WriteRingJson, Write, running
  <2> QED BY <1>6, <2>1, StoreAssumption, Zenon DEF WriteRingJson, Write, TypeOK
<1>7. CASE WriteRunningConf
  <2>1. UNCHANGED <<before, arg, ringConf>>
    BY <1>7, Zenon DEF WriteRunningConf, Write
  <2>2. running' = IF torn THEN arg.text ELSE EmptyText
    BY <1>7, StoreAssumption, Zenon
       DEF WriteRunningConf, Filled, running, ReadOrEmpty, TypeOK
  <2> QED BY <1>7, <2>1, <2>2, StoreAssumption, Zenon DEF WriteRunningConf, Write, TypeOK
<1>8. CASE WriteRunningJson
  <2>1. UNCHANGED <<running, before, arg, ringConf>>
    BY <1>8, Zenon DEF WriteRunningJson, Write, running
  <2> QED BY <1>8, <2>1, Zenon DEF WriteRunningJson, Write
<1>9. CASE WriteCandidateConf
  <2>1. UNCHANGED <<running, ringConf>>
    BY <1>9, Zenon DEF WriteCandidateConf, running
  <2>2. CASE torn
    BY <1>9, <2>2, Zenon DEF WriteCandidateConf, Return
  <2>3. CASE ~torn
    BY <1>9, <2>1, <2>3, Zenon DEF WriteCandidateConf, Write
  <2> QED BY <2>2, <2>3, Zenon
<1>10. CASE Abort
  BY <1>10, Zenon DEF Abort, Return
<1>11. CASE UNCHANGED vars
  BY <1>11, Zenon DEF vars, files, running
<1> QED
  BY <1>1, <1>2, <1>3, <1>4, <1>5, <1>6, <1>7, <1>8, <1>9, <1>10, <1>11, Zenon
     DEF Next, Call, Step

LEMMA Progress == Spec => []CommitProgress
<1>1. Init => CommitProgress
  BY Zenon DEF Init, CommitProgress, InCommit
<1> QED BY <1>1, ProgressStep, StoreTypeOK, PTL DEF Spec

\* However a commit is cut short (crash, I/O error) and whatever was done to
\* the store before, the configuration it was displacing is still on disk.
THEOREM PreviousConfigAlwaysSurvives == Spec => []PreviousConfigSurvives
<1>1. TypeOK /\ CommitProgress => PreviousConfigSurvives
  BY Zenon DEF TypeOK, CommitProgress, PreviousConfigSurvives, InCommit
<1> QED BY <1>1, Progress, StoreTypeOK, PTL

\* However a commit is cut short, the rotation has lost no rollback point but
\* the oldest.
THEOREM RotationAlwaysLosesOnlyTheOldest == Spec => []RotationLosesOnlyTheOldest
<1>1. TypeOK /\ CommitProgress => RotationLosesOnlyTheOldest
  BY Zenon DEF TypeOK, CommitProgress, RotationLosesOnlyTheOldest, InCommit
<1> QED BY <1>1, Progress, StoreTypeOK, PTL
-----------------------------------------------------------------------------
(* The store implements the ring. *)

HIDE DEF Stored, Steps

Points == Stored \cup {Absent}

\* The files of a rollback point.
TextOf(point) == IF point = Absent THEN Absent ELSE point.text
MetaOf(point) == IF point = Absent THEN Absent ELSE point.meta

\* Slot n once the slots above j have moved up by one.
Shifted(ring, j, n) ==
  IF n <= j THEN ring[n]
  ELSE IF n = j + 1
  THEN (IF j = RingSize - 1 THEN ring[RingSize] ELSE Absent)
  ELSE ring[n - 1]

RunningIsBefore ==
  running = before.running.text /\ ReadMeta(runningJson) = before.running.meta

RingIsBefore ==
  \A n \in Slots : ringConf[n] = TextOf(before.ring[n]) /\ ringJson[n] = MetaOf(before.ring[n])

\* The points form a prefix of the slots: the rotation leaves no hole.
NoHole(ring) == \E k \in 0..RingSize : \A n \in Slots : ring[n] # Absent <=> n <= k

\* What the files hold at each step of a call that nothing has disturbed.
CalmProgress ==
  /\ NoHole(before.ring)
  /\ pc = "idle" => before = Contents /\ RingIsBefore
  /\ pc = "candidateConf" /\ arg.meta = NoMeta => RunningIsBefore /\ RingIsBefore
  /\ pc \notin {"idle", "candidateConf"} => arg.meta # NoMeta
  /\ pc = "rotateConf" =>
       \A n \in Slots : /\ ringConf[n] = TextOf(Shifted(before.ring, slot, n))
                        /\ ringJson[n] = MetaOf(Shifted(before.ring, slot, n))
  /\ pc = "rotateJson" =>
       \A n \in Slots : /\ ringConf[n] = TextOf(Shifted(before.ring, slot - 1, n))
                        /\ ringJson[n] = MetaOf(Shifted(before.ring, slot, n))
  /\ pc = "rotateJson" => before.ring[slot] # Absent
  /\ pc \in {"rotateConf", "rotateJson", "ringConf", "ringJson"} => RunningIsBefore
  /\ pc \in {"ringConf", "ringJson", "runningConf", "runningJson", "candidateConf"}
       /\ arg.meta # NoMeta =>
         \A n \in 2..RingSize : /\ ringConf[n] = TextOf(before.ring[n - 1])
                                /\ ringJson[n] = MetaOf(before.ring[n - 1])
  /\ pc \in {"ringJson", "runningConf", "runningJson", "candidateConf"} /\ arg.meta # NoMeta =>
       ringConf[1] = before.running.text
  /\ pc \in {"runningConf", "runningJson", "candidateConf"} /\ arg.meta # NoMeta =>
       ringJson[1] = before.running.meta
  /\ pc \in {"runningJson", "candidateConf"} /\ arg.meta # NoMeta => runningConf = arg.text
  /\ pc = "candidateConf" /\ arg.meta # NoMeta => runningJson = arg.meta

\* The inductive invariant of the refinement.
RingInv == TypeOK /\ calm \in BOOLEAN /\ (calm => CalmProgress)

-----------------------------------------------------------------------------
(* Rollback points and the sequence they form. *)

LEMMA PointFacts ==
    ASSUME NEW x \in Points
    PROVE  /\ TextOf(x) = Absent <=> x = Absent
           /\ MetaOf(x) = Absent <=> x = Absent
           /\ x # Absent => x \in Stored /\ x = [text |-> TextOf(x), meta |-> MetaOf(x)]
  <1>1. CASE x = Absent
    BY <1>1, Zenon DEF TextOf, MetaOf
  <1>2. CASE x # Absent
    <2>1. x \in [text : Texts, meta : Metas]
      BY <1>2, Zenon DEF Points, Stored
    <2>2. /\ x.text \in Texts /\ x.meta \in Metas /\ x = [text |-> x.text, meta |-> x.meta]
          /\ x.text # Absent /\ x.meta # Absent
      BY <2>1, StoreAssumption, Zenon
    <2> QED
      BY <1>2, <2>1, <2>2, Zenon DEF TextOf, MetaOf, Stored
  <1> QED
    BY <1>1, <1>2, Zenon

\* A slot whose files are those of a point reads as that point.
LEMMA ReadsAs ==
    ASSUME NEW n \in Slots, NEW x \in Points,
           ringConf[n] = TextOf(x), ringJson[n] = MetaOf(x)
    PROVE  RollbackPoint(n) = x
  BY PointFacts, Zenon DEF RollbackPoint, ReadMeta

PointsOf(slots) ==
  LET points == {n \in Slots : slots[n] # Absent}
      count == CHOOSE k \in 0..RingSize : points = 1..k
  IN  [n \in 1..count |-> slots[n]]

LEMMA PointsOfIs ==
    ASSUME NEW slots \in [Slots -> Points], NEW k \in 0..RingSize,
           \A n \in Slots : slots[n] # Absent <=> n <= k
    PROVE  PointsOf(slots) = [n \in 1..k |-> slots[n]]
  <1> DEFINE points == {n \in Slots : slots[n] # Absent}
             count == CHOOSE j \in 0..RingSize : points = 1..j
  <1>1. points = 1..k
    BY StoreAssumption
  <1>2. \A j \in 0..RingSize : 1..k = 1..j => j = k
    BY StoreAssumption
  <1>3. count \in 0..RingSize /\ points = 1..count
    BY <1>1, Zenon
  <1>4. count = k
    BY <1>1, <1>2, <1>3, Zenon
  <1> HIDE DEF count
  <1>5. PointsOf(slots) = [n \in 1..count |-> slots[n]]
    BY Zenon DEF PointsOf, count
  <1> QED
    BY <1>4, <1>5, Zenon

LEMMA BeforeTyped ==
    ASSUME TypeOK
    PROVE  /\ before.ring \in [Slots -> Points] /\ before.running \in Stored
           /\ before.candidate \in Texts
           /\ before.running = [text |-> before.running.text, meta |-> before.running.meta]
  BY Zenon DEF TypeOK, Snapshots, Points, Stored

\* Pushing a configuration onto a ring without holes.
LEMMA PushedPoint ==
    ASSUME NEW old \in [Slots -> Points], NEW new \in [Slots -> Points],
           NEW top \in Stored, NoHole(old), new[1] = top,
           \A n \in 2..RingSize : new[n] = old[n - 1]
    PROVE  /\ NoHole(new)
           /\ PointsOf(new) = Ring!Front(RingSize, <<top>> \o PointsOf(old))
  <1>1. PICK k \in 0..RingSize : \A n \in Slots : old[n] # Absent <=> n <= k
    BY Zenon DEF NoHole
  <1> DEFINE j == IF k = RingSize THEN RingSize ELSE k + 1
  <1>2. j \in 0..RingSize /\ j \in Nat /\ k \in Nat /\ RingSize \in Nat /\ 1 \in Slots
    BY StoreAssumption
  <1>3. top # Absent /\ top \in Points
    BY StoreAssumption, Zenon DEF Stored, Points
  <1>4. \A n \in Slots : new[n] # Absent <=> n <= j
    BY <1>1, <1>2, <1>3, StoreAssumption
  <1>5. NoHole(new)
    BY <1>2, <1>4, Zenon DEF NoHole
  <1>6. PointsOf(new) = [n \in 1..j |-> new[n]]
    BY <1>2, <1>4, PointsOfIs, Zenon
  <1>7. PointsOf(old) = [n \in 1..k |-> old[n]]
    BY <1>1, PointsOfIs, Zenon
  <1> DEFINE tail == [n \in 1..k |-> old[n]]
             long == <<top>> \o tail
  <1>8. tail \in Seq(Points) /\ Len(tail) = k
    BY <1>1, <1>2
  <1>9. /\ long \in Seq(Points) /\ Len(long) = k + 1 /\ long[1] = top
        /\ \A n \in 2..(k + 1) : long[n] = tail[n - 1]
    <2> HIDE DEF tail
    <2>1. <<top>> \in Seq(Points) /\ Len(<<top>>) = 1 /\ <<top>>[1] = top
      BY <1>3
    <2> QED
      BY <1>2, <1>8, <2>1
  <1>10. (IF Len(long) < RingSize THEN Len(long) ELSE RingSize) = j
    BY <1>2, <1>9
  <1> HIDE DEF long
  <1>11. Ring!Front(RingSize, long) = SubSeq(long, 1, j)
    BY <1>10, Zenon DEF Ring!Front
  <1>12. SubSeq(long, 1, j) = [n \in 1..j |-> long[n]]
    BY <1>2, <1>9
  <1>13. \A n \in 1..j : long[n] = new[n]
    <2> SUFFICES ASSUME NEW n \in 1..j PROVE long[n] = new[n]
      BY Zenon
    <2>1. CASE n = 1
      BY <1>9, <2>1, Zenon
    <2>2. CASE n # 1
      <3>1. n \in 2..(k + 1) /\ n \in 2..RingSize /\ n - 1 \in 1..k
        BY <1>2, <2>2
      <3>2. tail[n - 1] = old[n - 1]
        BY <3>1, Zenon
      <3> QED
        BY <1>9, <3>1, <3>2, Zenon
    <2> QED
      BY <2>1, <2>2, Zenon
  <1>14. [n \in 1..j |-> long[n]] = [n \in 1..j |-> new[n]]
    BY <1>13, Zenon
  <1>15. Ring!Front(RingSize, <<top>> \o PointsOf(old)) = Ring!Front(RingSize, long)
    BY <1>7, Zenon DEF long
  <1> QED
    BY <1>5, <1>6, <1>11, <1>12, <1>14, <1>15, Zenon

-----------------------------------------------------------------------------
(* The steps of a call. *)

LEMMA CalmInit == Init => CalmProgress
  <1> SUFFICES ASSUME Init PROVE CalmProgress
    BY Zenon
  <1>1. pc = "idle" /\ before = Contents
    BY Zenon DEF Init
  <1>2. \A n \in Slots : before.ring[n] = Absent
    BY <1>1 DEF Init, Contents, RollbackPoint
  <1>3. NoHole(before.ring)
    <2>1. \A n \in Slots : before.ring[n] # Absent <=> n <= 0
      BY <1>2, StoreAssumption
    <2> QED
      BY <2>1, StoreAssumption DEF NoHole
  <1>4. RingIsBefore
    BY <1>2, Zenon DEF RingIsBefore, TextOf, MetaOf, Init
  <1> QED
    BY <1>1, <1>3, <1>4, Zenon DEF CalmProgress

\* A call begins in the state the last one left.
LEMMA CalmBegin ==
    ASSUME TypeOK, CalmProgress, NEW stored, NEW first, Begin(stored, first)
    PROVE  /\ before' = before /\ pc' = first /\ arg' = stored
           /\ NoHole(before.ring) /\ RunningIsBefore' /\ RingIsBefore'
           /\ UNCHANGED files
  <1>1. pc = "idle" /\ before' = Contents /\ UNCHANGED files /\ pc' = first /\ arg' = stored
    BY Zenon DEF Begin
  <1>2. before = Contents /\ RingIsBefore /\ NoHole(before.ring)
    BY <1>1, Zenon DEF CalmProgress
  <1>3. RunningIsBefore
    BY <1>2, Zenon DEF RunningIsBefore, Contents
  <1> QED
    BY <1>1, <1>2, <1>3, Zenon DEF RunningIsBefore, RingIsBefore, files, running

LEMMA CalmCalls ==
    ASSUME TypeOK, CalmProgress, Call
    PROVE  CalmProgress' /\ before' = before
  <1>1. ASSUME NEW stored \in Commits, BeginCommit(stored)
        PROVE  CalmProgress' /\ before' = before
    <2>1. /\ before' = before /\ pc' = "rotateConf" /\ arg' = stored
          /\ NoHole(before.ring) /\ RunningIsBefore' /\ RingIsBefore'
      BY <1>1, CalmBegin, Zenon DEF BeginCommit
    <2>2. slot' = RingSize - 1 /\ arg'.meta # NoMeta
      BY <1>1, <2>1, StoreAssumption, Zenon DEF BeginCommit
    <2>3. \A n \in Slots : Shifted(before.ring, RingSize - 1, n) = before.ring[n]
      BY StoreAssumption DEF Shifted
    <2>4. \A n \in Slots : /\ ringConf'[n] = TextOf(Shifted(before.ring, RingSize - 1, n))
                           /\ ringJson'[n] = MetaOf(Shifted(before.ring, RingSize - 1, n))
      BY <2>1, <2>3, Zenon DEF RingIsBefore
    <2> QED
      BY <2>1, <2>2, <2>4, Zenon DEF CalmProgress
  <1>2. ASSUME NEW text \in Texts, BeginSetCandidate(text)
        PROVE  CalmProgress' /\ before' = before
    <2>1. /\ before' = before /\ pc' = "candidateConf" /\ arg' = [text |-> text, meta |-> NoMeta]
          /\ NoHole(before.ring) /\ RunningIsBefore' /\ RingIsBefore'
      BY <1>2, CalmBegin, Zenon DEF BeginSetCandidate
    <2>2. arg'.meta = NoMeta
      BY <2>1, Zenon
    <2> QED
      BY <2>1, <2>2, Zenon DEF CalmProgress
  <1> QED
    BY <1>1, <1>2, Zenon DEF Call

LEMMA CalmRotateConf ==
    ASSUME TypeOK, CalmProgress, RotateConf
    PROVE  CalmProgress' /\ before' = before
  <1> DEFINE B == before.ring
  <1>1. /\ pc = "rotateConf" /\ slot \in 0..(RingSize - 1) /\ slot \in Nat /\ RingSize \in Nat
        /\ B \in [Slots -> Points] /\ NoHole(B)
        /\ UNCHANGED <<runningConf, runningJson, ringJson, before, arg>>
    BY BeforeTyped, StoreAssumption, SMTT(60) DEF RotateConf, TypeOK, CalmProgress
  <1>2. /\ arg'.meta # NoMeta /\ RunningIsBefore'
        /\ \A n \in Slots : /\ ringConf[n] = TextOf(Shifted(B, slot, n))
                            /\ ringJson'[n] = MetaOf(Shifted(B, slot, n))
    BY <1>1, Zenon DEF CalmProgress, RunningIsBefore, running
  <1>3. CASE slot = 0
    <2>1. pc' = "ringConf" /\ ringConf' = ringConf
      BY <1>3, Zenon DEF RotateConf
    <2>2. \A n \in 2..RingSize : Shifted(B, 0, n) = B[n - 1]
      BY <1>1, SMTT(60) DEF Shifted
    <2>3. \A n \in 2..RingSize : /\ ringConf'[n] = TextOf(B[n - 1])
                                 /\ ringJson'[n] = MetaOf(B[n - 1])
      BY <1>1, <1>2, <1>3, <2>1, <2>2, SMTT(60)
    <2> QED
      BY <1>1, <1>2, <2>1, <2>3, Zenon DEF CalmProgress
  <1>4. CASE slot # 0 /\ ringConf[slot] = Absent
    <2>1. pc' = "rotateConf" /\ slot' = slot - 1 /\ ringConf' = ringConf /\ slot \in Slots
            /\ slot + 1 \in Slots
      BY <1>1, <1>4, SMTT(60) DEF RotateConf
    <2>2. B[slot] = Absent
      <3>1. Shifted(B, slot, slot) = B[slot]
        BY <1>1 DEF Shifted
      <3> QED
        BY <1>1, <1>2, <1>4, <2>1, <3>1, PointFacts, Zenon
    <2>3. B[slot + 1] = Absent
      BY <1>1, <2>1, <2>2 DEF NoHole
    <2>4. \A n \in Slots : Shifted(B, slot - 1, n) = Shifted(B, slot, n)
      BY <1>1, <1>4, <2>2, <2>3, SMTT(60) DEF Shifted
    <2> QED
      BY <1>1, <1>2, <2>1, <2>4, Zenon DEF CalmProgress
  <1>5. CASE slot # 0 /\ ringConf[slot] # Absent
    <2>1. /\ pc' = "rotateJson" /\ slot' = slot /\ slot \in Slots /\ slot + 1 \in Slots
          /\ ringConf' = [ringConf EXCEPT ![slot + 1] = ringConf[slot], ![slot] = Absent]
      BY <1>1, <1>5 DEF RotateConf
    <2>2. Shifted(B, slot, slot) = B[slot]
      BY <1>1 DEF Shifted
    <2>3. ringConf[slot] = TextOf(B[slot]) /\ B[slot] # Absent
      <3>1. ringConf[slot] = TextOf(B[slot])
        BY <1>2, <2>1, <2>2, Zenon
      <3>2. B[slot] # Absent
        BY <1>5, <3>1, Zenon DEF TextOf
      <3> QED
        BY <3>1, <3>2, Zenon
    <2>4. ASSUME NEW n \in Slots PROVE ringConf'[n] = TextOf(Shifted(B, slot - 1, n))
      <3>1. CASE n = slot
        <4>1. Shifted(B, slot - 1, n) = Absent
          BY <1>1, <3>1 DEF Shifted
        <4>2. ringConf'[n] = Absent
          BY <2>1, <3>1, Zenon DEF TypeOK, FilesOK
        <4> QED
          BY <4>1, <4>2, Zenon DEF TextOf
      <3>2. CASE n = slot + 1
        <4>1. Shifted(B, slot - 1, n) = B[slot]
          BY <1>1, <3>2 DEF Shifted
        <4>2. ringConf'[n] = ringConf[slot]
          BY <1>1, <2>1, <3>2 DEF TypeOK, FilesOK
        <4> QED
          BY <2>3, <4>1, <4>2, Zenon
      <3>3. CASE n # slot /\ n # slot + 1
        <4>1. Shifted(B, slot - 1, n) = Shifted(B, slot, n)
          BY <1>1, <1>5, <3>3 DEF Shifted
        <4>2. ringConf'[n] = ringConf[n]
          BY <2>1, <3>3, Zenon DEF TypeOK, FilesOK
        <4> QED
          BY <1>2, <4>1, <4>2, Zenon
      <3> QED
        BY <3>1, <3>2, <3>3, Zenon
    <2> QED
      BY <1>1, <1>2, <2>1, <2>3, <2>4, Zenon DEF CalmProgress
  <1> QED
    BY <1>1, <1>3, <1>4, <1>5, Zenon

LEMMA CalmRotateJson ==
    ASSUME TypeOK, CalmProgress, RotateJson
    PROVE  CalmProgress' /\ before' = before
  <1> DEFINE B == before.ring
  <1>1. /\ pc = "rotateJson" /\ slot \in 1..(RingSize - 1) /\ slot \in Nat /\ RingSize \in Nat
        /\ slot \in Slots /\ slot + 1 \in Slots
        /\ B \in [Slots -> Points] /\ NoHole(B)
        /\ UNCHANGED <<runningConf, runningJson, ringConf, before, arg>>
        /\ pc' = "rotateConf" /\ slot' = slot - 1
    BY BeforeTyped, StoreAssumption, SMTT(60) DEF RotateJson, TypeOK, CalmProgress
  <1>2. /\ arg'.meta # NoMeta /\ RunningIsBefore' /\ B[slot] # Absent
        /\ \A n \in Slots : /\ ringConf'[n] = TextOf(Shifted(B, slot - 1, n))
                            /\ ringJson[n] = MetaOf(Shifted(B, slot, n))
    BY <1>1, Zenon DEF CalmProgress, RunningIsBefore, running
  <1>3. Shifted(B, slot, slot) = B[slot]
    BY <1>1, SMTT(60) DEF Shifted
  <1>4. ringJson[slot] = MetaOf(B[slot]) /\ ringJson[slot] # Absent
    BY <1>1, <1>2, <1>3, PointFacts, Zenon
  <1>5. ringJson' = [ringJson EXCEPT ![slot + 1] = ringJson[slot], ![slot] = Absent]
    BY <1>4, Zenon DEF RotateJson
  <1>6. ASSUME NEW n \in Slots PROVE ringJson'[n] = MetaOf(Shifted(B, slot - 1, n))
    <2>1. CASE n = slot
      <3>1. Shifted(B, slot - 1, n) = Absent
        BY <1>1, <2>1 DEF Shifted
      <3>2. ringJson'[n] = Absent
        BY <1>5, <2>1, Zenon DEF TypeOK, FilesOK
      <3> QED
        BY <3>1, <3>2, Zenon DEF MetaOf
    <2>2. CASE n = slot + 1
      <3>1. Shifted(B, slot - 1, n) = B[slot]
        BY <1>1, <2>2, SMTT(60) DEF Shifted
      <3>2. ringJson'[n] = ringJson[slot]
        BY <1>1, <1>5, <2>2, SMTT(60) DEF TypeOK, FilesOK
      <3> QED
        BY <1>4, <3>1, <3>2, Zenon
    <2>3. CASE n # slot /\ n # slot + 1
      <3>1. Shifted(B, slot - 1, n) = Shifted(B, slot, n)
        BY <1>1, <2>3 DEF Shifted
      <3>2. ringJson'[n] = ringJson[n]
        BY <1>5, <2>3, Zenon DEF TypeOK, FilesOK
      <3> QED
        BY <1>2, <3>1, <3>2, Zenon
    <2> QED
      BY <2>1, <2>2, <2>3, Zenon
  <1> QED
    BY <1>1, <1>2, <1>6, Zenon DEF CalmProgress

LEMMA CalmWrites ==
    ASSUME TypeOK, CalmProgress,
           WriteRingConf \/ WriteRingJson \/ WriteRunningConf \/ WriteRunningJson
    PROVE  CalmProgress' /\ before' = before
  <1>1. /\ UNCHANGED <<before, arg>> /\ NoHole(before.ring) /\ arg.meta # NoMeta
        /\ \A n \in 2..RingSize : /\ ringConf[n] = TextOf(before.ring[n - 1])
                                  /\ ringJson[n] = MetaOf(before.ring[n - 1])
        /\ \A n \in 2..RingSize : n # 1 /\ n \in Slots
        /\ ringConf \in [Slots -> Texts \cup {Absent}]
        /\ ringJson \in [Slots -> Metas \cup {Absent}] /\ 1 \in Slots
    BY StoreAssumption, SMTT(60) DEF CalmProgress, WriteRingConf, WriteRingJson, WriteRunningConf,
                           WriteRunningJson, Write, TypeOK, FilesOK
  <1>2. CASE WriteRingConf
    <2>1. /\ UNCHANGED <<runningConf, runningJson, ringJson>> /\ RunningIsBefore
          /\ pc' = IF torn THEN "ringJson" ELSE "ringConf"
          /\ ringConf' = [ringConf EXCEPT ![1] = Filled(running, EmptyText)]
      BY <1>2, Zenon DEF WriteRingConf, Write, CalmProgress
    <2>2. RunningIsBefore'
      BY <1>1, <2>1, Zenon DEF RunningIsBefore, running
    <2>3. \A n \in 2..RingSize : /\ ringConf'[n] = TextOf(before.ring[n - 1])
                                 /\ ringJson'[n] = MetaOf(before.ring[n - 1])
      BY <1>1, <2>1, Zenon
    <2>4. torn => ringConf'[1] = before.running.text
      BY <1>1, <2>1, Zenon DEF Filled, RunningIsBefore
    <2>5. CASE torn
      <3>1. pc' = "ringJson"
        BY <2>1, <2>5, Zenon
      <3> QED
        BY <1>1, <2>2, <2>3, <2>4, <2>5, <3>1, Zenon DEF CalmProgress
    <2>6. CASE ~torn
      <3>1. pc' = "ringConf"
        BY <2>1, <2>6, Zenon
      <3> QED
        BY <1>1, <2>2, <2>3, <3>1, Zenon DEF CalmProgress
    <2> QED
      BY <2>5, <2>6, Zenon
  <1>3. CASE WriteRingJson
    <2>1. /\ UNCHANGED <<runningConf, runningJson, ringConf>> /\ RunningIsBefore
          /\ ringConf'[1] = before.running.text
          /\ pc' = IF torn THEN "runningConf" ELSE "ringJson"
          /\ ringJson' = [ringJson EXCEPT ![1] = Filled(ReadMeta(runningJson), NoMeta)]
      BY <1>1, <1>3, Zenon DEF WriteRingJson, Write, CalmProgress
    <2>2. RunningIsBefore'
      BY <1>1, <2>1, Zenon DEF RunningIsBefore, running
    <2>3. \A n \in 2..RingSize : /\ ringConf'[n] = TextOf(before.ring[n - 1])
                                 /\ ringJson'[n] = MetaOf(before.ring[n - 1])
      BY <1>1, <2>1, Zenon
    <2>4. torn => ringJson'[1] = before.running.meta
      BY <1>1, <2>1, Zenon DEF Filled, RunningIsBefore
    <2>5. CASE torn
      <3>1. pc' = "runningConf"
        BY <2>1, <2>5, Zenon
      <3> QED
        BY <1>1, <2>1, <2>3, <2>4, <2>5, <3>1, Zenon DEF CalmProgress
    <2>6. CASE ~torn
      <3>1. pc' = "ringJson"
        BY <2>1, <2>6, Zenon
      <3> QED
        BY <1>1, <2>1, <2>2, <2>3, <3>1, Zenon DEF CalmProgress
    <2> QED
      BY <2>5, <2>6, Zenon
  <1>4. CASE WriteRunningConf
    <2>1. /\ UNCHANGED <<runningJson, ringConf, ringJson>>
          /\ ringConf'[1] = before.running.text /\ ringJson'[1] = before.running.meta
          /\ pc' = IF torn THEN "runningJson" ELSE "runningConf"
          /\ torn => runningConf' = arg.text
      BY <1>1, <1>4, Zenon DEF WriteRunningConf, Write, CalmProgress, Filled
    <2>2. CASE torn
      <3>1. pc' = "runningJson"
        BY <2>1, <2>2, Zenon
      <3> QED
        BY <1>1, <2>1, <2>2, <3>1, Zenon DEF CalmProgress
    <2>3. CASE ~torn
      <3>1. pc' = "runningConf"
        BY <2>1, <2>3, Zenon
      <3> QED
        BY <1>1, <2>1, <3>1, Zenon DEF CalmProgress
    <2> QED
      BY <2>2, <2>3, Zenon
  <1>5. CASE WriteRunningJson
    <2>1. /\ UNCHANGED <<runningConf, ringConf, ringJson>>
          /\ ringConf'[1] = before.running.text /\ ringJson'[1] = before.running.meta
          /\ runningConf' = arg.text
          /\ pc' = IF torn THEN "candidateConf" ELSE "runningJson"
          /\ torn => runningJson' = arg.meta
      BY <1>1, <1>5, Zenon DEF WriteRunningJson, Write, CalmProgress, Filled
    <2>2. CASE torn
      <3>1. pc' = "candidateConf"
        BY <2>1, <2>2, Zenon
      <3> QED
        BY <1>1, <2>1, <2>2, <3>1, Zenon DEF CalmProgress
    <2>3. CASE ~torn
      <3>1. pc' = "runningJson"
        BY <2>1, <2>3, Zenon
      <3> QED
        BY <1>1, <2>1, <3>1, Zenon DEF CalmProgress
    <2> QED
      BY <2>2, <2>3, Zenon
  <1> QED
    BY <1>2, <1>3, <1>4, <1>5, Zenon

\* The last write begins.
LEMMA CalmTruncatesCandidate ==
    ASSUME TypeOK, CalmProgress, WriteCandidateConf, ~torn
    PROVE  CalmProgress' /\ before' = before
  <1>1. /\ pc = "candidateConf" /\ pc' = "candidateConf"
        /\ UNCHANGED <<runningConf, runningJson, ringConf, ringJson, before, arg>>
    BY Zenon DEF WriteCandidateConf, Write
  <1> QED
    BY <1>1, Zenon DEF CalmProgress, RunningIsBefore, RingIsBefore, running

\* What the store holds when a call returns.
LEMMA Returned ==
    ASSUME TypeOK, CalmProgress, WriteCandidateConf, torn
    PROVE  /\ before'.running = [text |-> running', meta |-> ReadMeta(runningJson)']
           /\ before'.candidate = arg.text
           /\ \A n \in Slots : before'.ring[n] = RollbackPoint(n)'
           /\ pc = "candidateConf" /\ pc' = "idle" /\ before' = Contents'
           /\ UNCHANGED <<runningConf, runningJson, ringConf, ringJson>>
           /\ arg.text \in Texts /\ arg.meta \in Metas /\ arg.text # Absent /\ arg.meta # Absent
  <1>1. /\ pc = "candidateConf" /\ candidateConf' = arg.text /\ Return
        /\ UNCHANGED <<runningConf, runningJson, ringConf, ringJson>>
    BY Zenon DEF WriteCandidateConf, Filled
  <1>2. arg.text \in Texts /\ arg.meta \in Metas /\ arg.text # Absent /\ arg.meta # Absent
    BY StoreAssumption, Zenon DEF TypeOK, Stored
  <1>3. before' = Contents' /\ pc' = "idle"
    BY <1>1, Zenon DEF Return
  <1>4. candidate' = arg.text
    BY <1>1, <1>2, Zenon DEF candidate
  <1> QED
    BY <1>1, <1>2, <1>3, <1>4, Zenon DEF Contents

\* The last write of set_candidate: only the candidate changes.
LEMMA CalmSetCandidate ==
    ASSUME TypeOK, CalmProgress, WriteCandidateConf, torn, arg.meta = NoMeta
    PROVE  /\ CalmProgress' /\ before'.running = before.running
           /\ before'.candidate = arg.text /\ before'.ring = before.ring
  <1>1. RunningIsBefore /\ RingIsBefore /\ NoHole(before.ring)
    BY Returned, Zenon DEF CalmProgress
  <1>2. before'.running = before.running
    BY <1>1, Returned, BeforeTyped, Zenon DEF RunningIsBefore, running
  <1>3. ASSUME NEW n \in Slots PROVE before'.ring[n] = before.ring[n]
    <2>1. RollbackPoint(n) = before.ring[n]
      BY <1>1, BeforeTyped, ReadsAs, Zenon DEF RingIsBefore
    <2>2. RollbackPoint(n)' = RollbackPoint(n)
      BY Returned, Zenon DEF RollbackPoint
    <2> QED
      BY <2>1, <2>2, Returned, Zenon
  <1>4. before'.ring = before.ring
    <2>1. before'.ring = [n \in Slots |-> RollbackPoint(n)']
      BY Returned DEF Contents
    <2>2. before.ring = [n \in Slots |-> before.ring[n]]
      BY BeforeTyped, Zenon
    <2>3. \A n \in Slots : RollbackPoint(n)' = before.ring[n]
      BY <1>3, Returned, Zenon
    <2> QED
      BY <2>1, <2>2, <2>3, Zenon
  <1>5. RingIsBefore'
    BY <1>1, <1>4, Returned, Zenon DEF RingIsBefore
  <1> QED
    BY <1>1, <1>2, <1>4, <1>5, Returned, Zenon DEF CalmProgress

\* The last write of commit: the displaced configuration is the newest point, and
\* every other one has moved up.
LEMMA CalmCommit ==
    ASSUME TypeOK, CalmProgress, WriteCandidateConf, torn, arg.meta # NoMeta
    PROVE  /\ CalmProgress' /\ before'.candidate = arg.text
           /\ before'.running = [text |-> arg.text, meta |-> arg.meta]
           /\ PointsOf(before'.ring)
                = Ring!Front(RingSize, <<before.running>> \o PointsOf(before.ring))
  <1>1. /\ NoHole(before.ring) /\ runningConf = arg.text /\ runningJson = arg.meta
        /\ ringConf[1] = before.running.text /\ ringJson[1] = before.running.meta
        /\ \A n \in 2..RingSize : /\ ringConf[n] = TextOf(before.ring[n - 1])
                                  /\ ringJson[n] = MetaOf(before.ring[n - 1])
    BY Returned, Zenon DEF CalmProgress
  <1>2. before'.running = [text |-> arg.text, meta |-> arg.meta]
    BY <1>1, Returned, Zenon DEF running, ReadOrEmpty, ReadMeta
  <1>3. /\ before.running \in Points /\ before.running # Absent
        /\ TextOf(before.running) = before.running.text
        /\ MetaOf(before.running) = before.running.meta
    BY BeforeTyped, StoreAssumption, Zenon DEF Points, Stored, TextOf, MetaOf
  <1>4. \A n \in Slots : RollbackPoint(n)' = RollbackPoint(n)
    BY Returned, Zenon DEF RollbackPoint
  <1>5. before'.ring[1] = before.running
    <2>1. 1 \in Slots
      BY StoreAssumption, SMTT(60)
    <2>2. RollbackPoint(1) = before.running
      BY <1>1, <1>3, <2>1, ReadsAs, Zenon
    <2> QED
      BY <1>4, <2>1, <2>2, Returned, Zenon
  <1>6. ASSUME NEW n \in 2..RingSize PROVE before'.ring[n] = before.ring[n - 1]
    <2>1. n \in Slots /\ n - 1 \in Slots
      BY StoreAssumption
    <2>2. before.ring[n - 1] \in Points
      BY <2>1, BeforeTyped, Zenon
    <2>3. RollbackPoint(n) = before.ring[n - 1]
      BY <1>1, <2>1, <2>2, ReadsAs, Zenon
    <2> QED
      BY <1>4, <2>1, <2>3, Returned, Zenon
  <1>7. before'.ring \in [Slots -> Points]
    <2>1. before'.ring = [n \in Slots |-> RollbackPoint(n)']
      BY Returned DEF Contents
    <2>2. ASSUME NEW n \in Slots PROVE before'.ring[n] \in Points
      <3>1. CASE n = 1
        BY <1>3, <1>5, <3>1, Zenon
      <3>2. CASE n # 1
        <4>1. n \in 2..RingSize /\ n - 1 \in Slots
          BY <3>2, StoreAssumption
        <4> QED
          BY <1>6, <4>1, BeforeTyped, Zenon
      <3> QED
        BY <3>1, <3>2, Zenon
    <2> QED
      BY <2>1, <2>2, Zenon
  <1>8. /\ NoHole(before'.ring)
        /\ PointsOf(before'.ring)
             = Ring!Front(RingSize, <<before.running>> \o PointsOf(before.ring))
    BY <1>1, <1>5, <1>6, <1>7, BeforeTyped, PushedPoint, Zenon
  <1>9. ASSUME NEW n \in Slots
        PROVE  /\ ringConf'[n] = TextOf(before'.ring[n])
               /\ ringJson'[n] = MetaOf(before'.ring[n])
    <2>1. CASE n = 1
      BY <1>1, <1>3, <1>5, <2>1, Returned, Zenon
    <2>2. CASE n # 1
      <3>1. n \in 2..RingSize
        BY <2>2, StoreAssumption, SMTT(60)
      <3> QED
        BY <1>1, <1>6, <3>1, Returned, Zenon
    <2> QED
      BY <2>1, <2>2, Zenon
  <1>10. CalmProgress'
    BY <1>8, <1>9, Returned, Zenon DEF CalmProgress, RingIsBefore
  <1> QED
    BY <1>2, <1>8, <1>10, Returned, Zenon
-----------------------------------------------------------------------------
(* The refinement. *)

\* A step of a calm behaviour keeps the invariant, and moves the abstract ring by one
\* of its own steps or not at all.
LEMMA CalmStep ==
    ASSUME TypeOK, CalmProgress, Call \/ Step
    PROVE  /\ CalmProgress'
           /\ \/ before' = before
              \/ /\ before'.running = before.running /\ before'.ring = before.ring
                 /\ before'.candidate \in Texts
              \/ \E text \in Texts, meta \in Metas :
                    /\ before'.running = [text |-> text, meta |-> meta]
                    /\ before'.candidate = text
                    /\ PointsOf(before'.ring)
                         = Ring!Front(RingSize, <<before.running>> \o PointsOf(before.ring))
  <1>1. CASE Call
    BY <1>1, CalmCalls, Zenon
  <1>2. CASE RotateConf
    BY <1>2, CalmRotateConf, Zenon
  <1>3. CASE RotateJson
    BY <1>3, CalmRotateJson, Zenon
  <1>4. CASE WriteRingConf \/ WriteRingJson \/ WriteRunningConf \/ WriteRunningJson
    BY <1>4, CalmWrites, Zenon
  <1>5. CASE WriteCandidateConf
    <2>1. CASE ~torn
      BY <1>5, <2>1, CalmTruncatesCandidate, Zenon
    <2>2. CASE torn /\ arg.meta = NoMeta
      BY <1>5, <2>2, CalmSetCandidate, Returned, Zenon
    <2>3. CASE torn /\ arg.meta # NoMeta
      BY <1>5, <2>3, CalmCommit, Returned, Zenon
    <2> QED
      BY <2>1, <2>2, <2>3, Zenon
  <1> QED
    BY <1>1, <1>2, <1>3, <1>4, <1>5, Zenon DEF Step

LEMMA RingInvStep == RingInv /\ [CrashOrCalmNext]_<<vars, calm>> => RingInv'
  <1> SUFFICES ASSUME RingInv, [CrashOrCalmNext]_<<vars, calm>> PROVE RingInv'
    BY Zenon
  <1>1. calm' = calm /\ [Next]_vars
    BY Zenon DEF CrashOrCalmNext, Next
  <1>2. TypeOK'
    BY <1>1, TypeStep, Zenon DEF RingInv
  <1>3. ASSUME calm PROVE CalmProgress'
    <2>1. CASE Call \/ Step
      BY <1>3, <2>1, CalmStep, Zenon DEF RingInv
    <2>2. CASE UNCHANGED vars
      BY <1>3, <2>2, ZenonT(60) DEF RingInv, CalmProgress, RunningIsBefore, RingIsBefore, vars, files,
                        running, candidate, Contents, RollbackPoint
    <2> QED
      BY <1>3, <2>1, <2>2, Zenon DEF CrashOrCalmNext
  <1> QED
    BY <1>1, <1>2, <1>3, Zenon DEF RingInv

\* Each step of the files is a step of the ring, or leaves the ring alone.
LEMMA RingStep ==
    RingInv /\ [CrashOrCalmNext]_<<vars, calm>> => [Ring!Next]_Ring!ringVars
  <1> SUFFICES ASSUME RingInv, [CrashOrCalmNext]_<<vars, calm>>
               PROVE  [Ring!Next]_Ring!ringVars
    BY Zenon
  <1>1. calm' = calm
    BY Zenon DEF CrashOrCalmNext
  <1>2. PointsBefore = PointsOf(before.ring) /\ PointsBefore' = PointsOf(before'.ring)
    BY Zenon DEF PointsBefore, PointsOf
  <1>3. CASE ~calm
    BY <1>1, <1>3, Zenon DEF Ring!ringVars
  <1>4. CASE calm
    <2>1. CASE before' = before
      BY <1>1, <1>2, <1>4, <2>1, Zenon DEF Ring!ringVars
    <2>2. CASE /\ before'.running = before.running /\ before'.ring = before.ring
               /\ before'.candidate \in Texts
      <3>1. Ring!SetCandidate(before'.candidate)
        BY <1>1, <1>2, <1>4, <2>2, Zenon DEF Ring!SetCandidate
      <3> QED
        BY <2>2, <3>1, Zenon DEF Ring!Next
    <2>3. CASE \E text \in Texts, meta \in Metas :
                  /\ before'.running = [text |-> text, meta |-> meta]
                  /\ before'.candidate = text
                  /\ PointsOf(before'.ring)
                       = Ring!Front(RingSize, <<before.running>> \o PointsOf(before.ring))
      <3>1. PICK text \in Texts, meta \in Metas :
                  /\ before'.running = [text |-> text, meta |-> meta]
                  /\ before'.candidate = text
                  /\ PointsOf(before'.ring)
                       = Ring!Front(RingSize, <<before.running>> \o PointsOf(before.ring))
        BY <2>3, Zenon
      <3>2. Ring!Commit(text, meta)
        BY <1>1, <1>2, <1>4, <3>1, Zenon DEF Ring!Commit
      <3> QED
        BY <3>2, Zenon DEF Ring!Next
    <2>4. CASE Call \/ Step
      BY <1>4, <2>1, <2>2, <2>3, <2>4, CalmStep, Zenon DEF RingInv
    <2>5. CASE UNCHANGED vars
      BY <2>1, <2>5, Zenon DEF vars
    <2> QED
      BY <1>4, <2>4, <2>5, Zenon DEF CrashOrCalmNext
  <1> QED
    BY <1>3, <1>4, Zenon

\* Without faults the file-by-file store is the atomic ring: every commit and every
\* set_candidate is one step of RollbackRing, for every ring size (store.rs, commit and
\* set_candidate).
THEOREM StoreImplementsRing == CrashOrCalm => ImplementsRing
  <1>1. CrashOrCalmInit => RingInv
    BY TypeInit, CalmInit, Zenon DEF CrashOrCalmInit, RingInv
  <1>2. CrashOrCalmInit => Ring!Init
    <2> SUFFICES ASSUME CrashOrCalmInit PROVE Ring!Init
      BY Zenon
    <2>1. \A n \in Slots : before.ring[n] = Absent
      BY Zenon DEF CrashOrCalmInit, Init, Contents, RollbackPoint
    <2>2. before.running = [text |-> EmptyText, meta |-> NoMeta] /\ before.candidate = EmptyText
      BY StoreAssumption, Zenon
         DEF CrashOrCalmInit, Init, Contents, running, ReadOrEmpty, ReadMeta, candidate
    <2>3. before.ring \in [Slots -> Points]
      BY TypeInit, BeforeTyped, Zenon DEF CrashOrCalmInit
    <2>4. 0 \in 0..RingSize /\ \A n \in Slots : before.ring[n] # Absent <=> n <= 0
      BY <2>1, StoreAssumption
    <2>5. PointsOf(before.ring) = [n \in 1..0 |-> before.ring[n]]
      BY <2>3, <2>4, PointsOfIs, Zenon
    <2>6. PointsBefore = PointsOf(before.ring)
      BY Zenon DEF PointsBefore, PointsOf
    <2>7. PointsBefore = <<>>
      BY <2>5, <2>6
    <2> QED
      BY <2>2, <2>7, Zenon DEF Ring!Init
  <1> QED
    BY <1>1, <1>2, RingInvStep, RingStep, PTL DEF CrashOrCalm, ImplementsRing, Ring!Spec
=============================================================================
