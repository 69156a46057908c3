------------------------ MODULE CommitEngineProofs ------------------------
(***************************************************************************)
(* Theorems about CommitEngine, for every set of keys, texts and timers,   *)
(* every ring size and every number of faults.                             *)
(***************************************************************************)
EXTENDS CommitEngine, TLAPS

USE EngineAssumption DEF Config, EmptyConfig

\* What the steps rely on about the job that holds the mutex.
JobOK ==
  /\ job.todo \cap OsKeys = {}
  /\ job.kind = "replay" => job.target = running

-----------------------------------------------------------------------------
\* Types.

LEMMA PushType ==
  TypeOK => \A keys \in SUBSET Keys : Push(keys) \in Config
BY Zenon DEF TypeOK, Jobs, Push

LEMMA PushesAreKeys == TypeOK => \A keys \in NextPushes : keys \subseteq Keys
BY DEF TypeOK, Jobs, NextPushes

LEMMA CancelledType == TypeOK => Cancelled \in [Timers -> TimerStates]
BY Zenon DEF TypeOK, Cancelled, TimerStates, Unused

LEMMA IdleType == Idle \in Jobs /\ Unused \in TimerStates
BY Zenon DEF Idle, Unused, Jobs, TimerStates

\* store.commit keeps the ring a sequence of at most RingSize texts, and its
\* newest entry is the text that was running.
LEMMA RingAfterType ==
  TypeOK => /\ RingAfter \in Seq(Config)
            /\ Len(RingAfter) <= RingSize
            /\ RingAfter # <<>>
            /\ RingAfter[1] = running
<1> SUFFICES ASSUME TypeOK
             PROVE  /\ RingAfter \in Seq(Config)
                    /\ Len(RingAfter) <= RingSize
                    /\ RingAfter # <<>>
                    /\ RingAfter[1] = running
  BY Zenon
<1> DEFINE s == <<running>> \o ring
           n == IF Len(ring) < RingSize THEN Len(ring) + 1 ELSE RingSize
<1>1. /\ s \in Seq(Config)
      /\ Len(s) = Len(ring) + 1
      /\ s[1] = running
  BY DEF TypeOK
<1>2. n \in 1..Len(s) /\ n <= RingSize
  BY <1>1 DEF TypeOK
<1>3. /\ SubSeq(s, 1, n) \in Seq(Config)
      /\ Len(SubSeq(s, 1, n)) = n
      /\ SubSeq(s, 1, n)[1] = s[1]
  BY <1>1, <1>2
<1>4. RingAfter = SubSeq(s, 1, n)
  BY Zenon DEF RingAfter
<1> HIDE DEF s, n
<1>5. Len(RingAfter) <= RingSize /\ RingAfter # <<>>
  <2>1. RingAfter \in Seq(Config) /\ Len(RingAfter) = n
    BY <1>3, <1>4, Zenon
  <2> QED
    BY <1>2, <2>1
<1> QED
  BY <1>1, <1>3, <1>4, <1>5, Zenon

LEMMA BootTypes ==
  ASSUME TypeOK, NEW devices \in Config, NEW outOfStep \in SUBSET Keys,
         MgmtdBoots(devices, outOfStep)
  PROVE  TypeOK'
<1>1. PICK failed \in SUBSET OsKeys :
        /\ dev' = [k \in Keys |-> IF k \in OsReplayed(failed)
                                  THEN running[k] ELSE devices[k]]
        /\ dirty' = outOfStep \ OsReplayed(failed)
  BY Zenon DEF MgmtdBoots
<1>2. dev' \in Config
  BY <1>1, Zenon DEF TypeOK
<1>3. dirty' \subseteq Keys
  BY <1>1, Zenon
<1>4. job' \in Jobs /\ timers' \in [Timers -> TimerStates]
  BY IdleType, Zenon DEF MgmtdBoots
<1>5. faults' \in 0..MaxFaults
  BY DEF MgmtdBoots, TypeOK
<1>6. /\ pending' \in Timers \cup {NoTimer}
      /\ replaying' = "all"
  BY Zenon DEF MgmtdBoots
<1>7. /\ running' \in Config
      /\ candidate' \in Config
      /\ ring' \in Seq(Config) /\ Len(ring') <= RingSize
  BY Zenon DEF MgmtdBoots, TypeOK
<1>8. unconfirmed' \in BOOLEAN
  BY Zenon DEF MgmtdBoots, TypeOK
<1> QED
  BY <1>2, <1>3, <1>4, <1>5, <1>6, <1>7, <1>8, Zenon DEF TypeOK

(* Every step of the engine, of the operators' calls and of the faults keeps   *)
(* the store, the devices, the job, the timers and the ring in their types.    *)
LEMMA TypeStep == TypeOK /\ [Next]_vars => TypeOK'
<1> SUFFICES ASSUME TypeOK, [Next]_vars PROVE TypeOK'
  BY Zenon
<1> USE DEF TypeOK
<1>1. CASE SetCandidate
  BY <1>1, Zenon DEF SetCandidate
<1>2. CASE Rollback
  BY <1>2 DEF Rollback
<1>3. ASSUME NEW kind \in {"commit", "autoRollback"}, NEW target \in Config,
             NEW confirm \in BOOLEAN, StartApply(kind, target, confirm)
      PROVE  job' \in Jobs
  BY <1>3, Zenon DEF StartApply, Jobs, Changed, OsKeys
<1>4. CASE BeginCommit
  <2>1. job' \in Jobs
    BY <1>3, <1>4 DEF BeginCommit, MayConfirm
  <2>2. timers' \in [Timers -> TimerStates]
    BY <1>4, CancelledType, Zenon DEF BeginCommit
  <2> QED
    BY <1>4, <2>1, <2>2, Zenon DEF BeginCommit
<1>5. CASE CommitRejected
  BY <1>5, CancelledType DEF CommitRejected
<1>6. CASE ConfirmCommit
  BY <1>6, CancelledType, Zenon DEF ConfirmCommit
<1>7. ASSUME NEW t \in Timers, TimerFires(t)
      PROVE  TypeOK'
  <2>1. timers' \in [Timers -> TimerStates]
    BY <1>7 DEF TimerFires, TimerStates
  <2> QED
    BY <1>7, <2>1, Zenon DEF TimerFires
<1>8. ASSUME NEW t \in Timers, TimerRuns(t)
      PROVE  TypeOK'
  <2>1. job' \in Jobs
    <3>1. timers[t].pre \in Config
      BY Zenon DEF TimerStates
    <3> QED
      BY <1>3, <1>8, <3>1, Zenon DEF TimerRuns
  <2>2. timers' \in [Timers -> TimerStates]
    BY <1>8, CancelledType, IdleType, Zenon DEF TimerRuns
  <2> QED
    BY <1>8, <2>1, <2>2, Zenon DEF TimerRuns
<1>9. CASE PushSucceeds
  <2>1. PICK keys \in NextPushes : /\ dev' = Push(keys)
                                   /\ job' = [job EXCEPT !.todo = @ \ keys]
                                   /\ dirty' = dirty \ keys
    BY <1>9, Zenon DEF PushSucceeds
  <2>2. dev' \in Config
    BY <2>1, PushType, PushesAreKeys, Zenon
  <2>3. job' \in Jobs
    BY <2>1, Zenon DEF Jobs
  <2> QED
    BY <1>9, <2>1, <2>2, <2>3, Zenon DEF PushSucceeds
<1>10. CASE PushFails
  <2>1. PICK keys \in NextPushes :
          /\ dev' \in {dev, Push(keys)}
          /\ dirty' = dirty \cup AheadOfRunning \cup keys
    BY <1>10, Zenon DEF PushFails
  <2>2. dev' \in Config
    BY <2>1, PushType, PushesAreKeys, Zenon
  <2>3. dirty' \subseteq Keys
    BY <2>1, PushesAreKeys, Zenon DEF AheadOfRunning, Changed
  <2> QED
    BY <1>10, <2>2, <2>3, IdleType DEF PushFails
<1>11. CASE Persist
  <2>1. PICK failed \in OsFailures(OsPass) :
          /\ dev' = Push(OsPass \ failed)
          /\ dirty' = (dirty \ OsPass) \cup failed
          /\ faults' = FaultsAfter(failed)
    BY <1>11, Zenon DEF Persist
  <2>2. failed \subseteq Keys
    BY Zenon DEF OsFailures, OsPass, OsKeys
  <2>3. dev' \in Config /\ dirty' \subseteq Keys
    BY <2>1, <2>2, PushType, Zenon DEF OsPass, OsKeys
  <2>4. faults' \in 0..MaxFaults
    BY <2>1 DEF OsFailures, FaultsAfter
  <2>5. /\ running' \in Config
        /\ candidate' \in Config
        /\ ring' \in Seq(Config) /\ Len(ring') <= RingSize
    BY <1>11, RingAfterType, Zenon DEF Persist, Jobs
  <2>6. /\ timers' \in [Timers -> TimerStates]
        /\ pending' \in Timers \cup {NoTimer}
    <3>1. CASE job.confirm
      <4>1. PICK t \in Timers :
              /\ timers' = [Cancelled EXCEPT
                              ![t] = [state |-> "armed", pre |-> running]]
              /\ pending' = t
        BY <1>11, <3>1, Zenon DEF Persist
      <4>2. [state |-> "armed", pre |-> running] \in TimerStates
        BY Zenon DEF TimerStates
      <4> QED
        BY <4>1, <4>2, CancelledType, Zenon
    <3>2. CASE ~job.confirm
      BY <1>11, <3>2, Zenon DEF Persist
    <3> QED
      BY <3>1, <3>2, Zenon
  <2>7. /\ job' \in Jobs
        /\ unconfirmed' \in BOOLEAN
        /\ replaying' \in {"all", "os", "nothing"}
    BY <1>11, IdleType, Zenon DEF Persist, Jobs
  <2> QED
    BY <2>3, <2>4, <2>5, <2>6, <2>7, Zenon
<1>12. CASE PersistFails
  <2>1. dev' \in Config
    BY <1>12, PushType, Zenon DEF PersistFails, OsPass, OsKeys
  <2>2. dirty' \subseteq Keys
    BY <1>12, Zenon DEF PersistFails, AheadOfRunning, OsPass, Changed, OsKeys
  <2> QED
    BY <1>12, <2>1, <2>2, IdleType DEF PersistFails
<1>13. CASE BeginReplay
  <2>1. job' \in Jobs /\ replaying' \in {"all", "os", "nothing"}
    <3>1. CASE NeedsReplay
      <4>1. /\ job' = [kind |-> "replay", target |-> running,
                       todo |-> {k \in Keys : running[k] # None} \ OsKeys,
                       confirm |-> FALSE]
            /\ replaying' = replaying
        BY <1>13, <3>1, Zenon DEF BeginReplay
      <4>2. job' \in Jobs
        BY <4>1, Zenon DEF Jobs
      <4> QED
        BY <4>1, <4>2, Zenon
    <3>2. CASE ~NeedsReplay
      BY <1>13, <3>2, Zenon DEF BeginReplay
    <3> QED
      BY <3>1, <3>2, Zenon
  <2>2. UNCHANGED <<running, candidate, ring, dev, timers, pending, faults,
                    dirty, unconfirmed>>
    BY <1>13, Zenon DEF BeginReplay
  <2> QED
    BY <2>1, <2>2, Zenon
<1>14. CASE EndReplay
  BY <1>14, IdleType, Zenon DEF EndReplay
<1>15. CASE MgmtdRestarts
  <2>1. dirty \cup AheadOfRunning \in SUBSET Keys
    BY Zenon DEF AheadOfRunning, Changed
  <2>2. OsPass \in SUBSET Keys /\ Push(OsPass) \in Config
    BY PushType, Zenon DEF OsPass, OsKeys
  <2> QED
    BY <1>15, <2>1, <2>2, BootTypes, Zenon DEF MgmtdRestarts
<1>16. CASE BoxRestarts
  BY <1>16, BootTypes DEF BoxRestarts
<1>17. CASE SyncdRestarts
  <2>1. dev' \in Config /\ dirty' \subseteq Keys
    BY <1>17, Zenon DEF SyncdRestarts, Forget, OutOfStep
  <2> QED
    BY <1>17, <2>1 DEF SyncdRestarts
<1>18. CASE OrchRestarts
  <2>1. dev' \in Config /\ dirty' \subseteq Keys
    BY <1>18, Zenon DEF OrchRestarts, Forget, OutOfStep
  <2> QED
    BY <1>18, <2>1 DEF OrchRestarts
<1>19. CASE ReplayOs
  <2>1. PICK failed \in OsFailures(OsKeys) :
          /\ dev' = [k \in Keys |->
                       IF k \in OsReplayed(failed) THEN running[k] ELSE dev[k]]
          /\ dirty' = dirty \ OsReplayed(failed)
          /\ faults' = FaultsAfter(failed)
    BY <1>19, Zenon DEF ReplayOs
  <2>2. dev' \in Config /\ dirty' \subseteq Keys
    BY <2>1, Zenon
  <2>3. faults' \in 0..MaxFaults
    BY <2>1 DEF OsFailures, FaultsAfter
  <2> QED
    BY <1>19, <2>2, <2>3, Zenon DEF ReplayOs
<1>20. CASE UNCHANGED vars
  BY <1>20, Zenon DEF vars
<1> QED
  BY <1>1, <1>2, <1>4, <1>5, <1>6, <1>7, <1>8, <1>9, <1>10, <1>11, <1>12,
     <1>13, <1>14, <1>15, <1>16, <1>17, <1>18, <1>19, <1>20, Zenon
     DEF Next, Engine, Operators, CallFaults, Restarts

(* TypeOK holds in every reachable state.                                      *)
THEOREM EngineTypeOK == Spec => []TypeOK
<1>1. Init => TypeOK
  <2> SUFFICES ASSUME Init PROVE TypeOK
    BY Zenon
  <2>1. /\ running \in Config /\ candidate \in Config /\ dev \in Config
        /\ ring \in Seq(Config) /\ Len(ring) <= RingSize
    BY DEF Init
  <2>2. /\ job \in Jobs
        /\ timers \in [Timers -> TimerStates]
        /\ pending \in Timers \cup {NoTimer}
    BY IdleType, Zenon DEF Init
  <2>3. replaying \in {"all", "os", "nothing"} /\ unconfirmed \in BOOLEAN
    BY Zenon DEF Init
  <2>4. faults \in 0..MaxFaults /\ dirty \subseteq Keys
    BY DEF Init
  <2> QED
    BY <2>1, <2>2, <2>3, <2>4, Zenon DEF TypeOK
<1> QED
  BY <1>1, TypeStep, PTL DEF Spec

-----------------------------------------------------------------------------
\* The confirmation timers.

\* The strengthening: whoever applies has taken the confirmation first, and the
\* timer it can cancel was started by the commit that is still unconfirmed.
WindowInv ==
  /\ job.kind \in {"commit", "autoRollback"} => pending = NoTimer
  /\ pending # NoTimer => unconfirmed /\ timers[pending].pre = ring[1]

LEMMA WindowStep == TypeOK /\ WindowInv /\ [Next]_vars => WindowInv'
<1> SUFFICES ASSUME TypeOK, WindowInv, [Next]_vars
             PROVE  WindowInv'
  BY Zenon
<1> USE DEF WindowInv
<1>1. CASE pending' = NoTimer
  BY <1>1, Zenon
<1>2. ASSUME NEW t \in Timers, TimerFires(t)
      PROVE  WindowInv'
  <2>1. \A u \in Timers : timers'[u].pre = timers[u].pre
    BY <1>2, Zenon DEF TimerFires, TypeOK, TimerStates
  <2> QED
    BY <1>2, <2>1, Zenon DEF TimerFires, TypeOK
<1>3. CASE Persist
  <2>1. job'.kind = "idle" /\ pending = NoTimer
    BY <1>3, Zenon DEF Persist, Idle
  <2>2. CASE job.confirm
    <3>1. PICK t \in Timers :
            /\ timers' = [Cancelled EXCEPT
                            ![t] = [state |-> "armed", pre |-> running]]
            /\ pending' = t
      BY <1>3, <2>2, Zenon DEF Persist
    <3>2. timers'[t].pre = running
      BY <3>1, CancelledType, Zenon
    <3>3. unconfirmed' /\ ring'[1] = running
      BY <1>3, <2>2, RingAfterType, Zenon DEF Persist
    <3> QED
      BY <2>1, <3>1, <3>2, <3>3, Zenon
  <2>3. CASE ~job.confirm
    BY <1>1, <1>3, <2>1, <2>3, Zenon DEF Persist
  <2> QED
    BY <2>2, <2>3, Zenon
<1>4. CASE PushSucceeds
  <2>1. job'.kind = job.kind
    BY <1>4, Zenon DEF PushSucceeds, TypeOK, Jobs
  <2> QED
    BY <1>4, <2>1, Zenon DEF PushSucceeds
<1>5. CASE BeginReplay
  <2>1. job'.kind \notin {"commit", "autoRollback"}
    <3>1. CASE NeedsReplay
      BY <1>5, <3>1, SMTT(60) DEF BeginReplay
    <3>2. CASE ~NeedsReplay
      BY <1>5, <3>2, Zenon DEF BeginReplay
    <3> QED
      BY <3>1, <3>2, Zenon
  <2> QED
    BY <1>5, <2>1, Zenon DEF BeginReplay
<1>6. CASE job' = Idle /\ UNCHANGED <<timers, pending, ring, unconfirmed>>
  BY <1>6, Zenon DEF Idle
<1>7. CASE UNCHANGED <<job, timers, pending, ring, unconfirmed>>
  BY <1>7, Zenon
<1> QED
  BY <1>1, <1>2, <1>3, <1>4, <1>5, <1>6, <1>7, Zenon
     DEF Next, Engine, Operators, CallFaults, Restarts, SetCandidate, Rollback,
         BeginCommit, CommitRejected, ConfirmCommit, TimerRuns, PushFails,
         PersistFails, EndReplay, ReplayOs, MgmtdRestarts, BoxRestarts,
         MgmtdBoots, SyncdRestarts, OrchRestarts, vars

(* Whichever task gets the mutex first, an expired window never undoes a       *)
(* confirmed configuration, and with no older task waiting it restores the     *)
(* text its own commit replaced, for any number of timers and faults.          *)
THEOREM ExpiryAlwaysUndoesItsCommit == Spec => ExpiryUndoesItsCommit
<1> DEFINE Expiry ==
      job.kind = "idle" /\ job'.kind = "autoRollback" =>
        /\ unconfirmed
        /\ (\A t \in Timers : timers[t].state = "fired" => t = pending)
             => job'.target = ring[1]
<1>1. Init => WindowInv
  BY Zenon DEF Init, WindowInv, Idle
<1>2. WindowInv /\ [Next]_vars => [Expiry]_vars
  <2> SUFFICES ASSUME WindowInv, [Next]_vars,
                      job.kind = "idle", job'.kind = "autoRollback"
               PROVE  Expiry
    BY Zenon
  <2>1. ASSUME NEW t \in Timers, TimerRuns(t) PROVE Expiry
    <3>1. pending # NoTimer
      <4>1. job' # job
        BY Zenon
      <4> QED
        BY <2>1, <4>1, Zenon DEF TimerRuns
    <3>2. StartApply("autoRollback", timers[t].pre, FALSE)
      BY <2>1, <3>1, Zenon DEF TimerRuns
    <3>3. job'.target = timers[t].pre /\ timers[t].state = "fired"
      BY <2>1, <3>2, Zenon DEF TimerRuns, StartApply
    <3> QED
      BY <3>1, <3>3, Zenon DEF WindowInv
  <2>2. ~BeginCommit /\ ~BeginReplay
    <3>1. ASSUME NEW c, StartApply("commit", candidate, c) PROVE job'.kind = "commit"
      <4> HIDE DEF Expiry
      <4> QED
        BY <3>1, Zenon DEF StartApply
    <3>2. ~BeginCommit
      BY <3>1, Zenon DEF BeginCommit
    <3>3. ~BeginReplay
      BY SMTT(60) DEF BeginReplay
    <3> QED
      BY <3>2, <3>3, Zenon
  <2>3. job' # job /\ job' # Idle
    <3>1. Idle.kind = "idle"
      BY Zenon DEF Idle
    <3> QED
      BY <3>1, Zenon
  <2>4. ~PushSucceeds
    BY Zenon DEF PushSucceeds
  <2> QED
    BY <2>1, <2>2, <2>3, <2>4, Zenon
       DEF Next, Engine, Operators, CallFaults, Restarts, SetCandidate,
           Rollback, CommitRejected, ConfirmCommit, TimerFires, PushFails,
           Persist, PersistFails, EndReplay, ReplayOs, MgmtdRestarts,
           BoxRestarts, MgmtdBoots, SyncdRestarts, OrchRestarts, vars
<1> QED
  BY <1>1, <1>2, WindowStep, EngineTypeOK, PTL DEF Spec, ExpiryUndoesItsCommit

-----------------------------------------------------------------------------
\* Divergence between the running configuration and the devices.

LEMMA JobStep == TypeOK /\ JobOK /\ [Next]_vars => JobOK'
<1> SUFFICES ASSUME TypeOK, JobOK, [Next]_vars PROVE JobOK'
  BY Zenon
<1> USE DEF JobOK, OsKeys
<1>1. CASE job' = Idle
  BY <1>1, Zenon DEF Idle
<1>2. ASSUME NEW kind \in {"commit", "autoRollback"}, NEW target, NEW confirm,
             StartApply(kind, target, confirm)
      PROVE  JobOK'
  BY <1>2, Zenon DEF StartApply
<1>3. CASE BeginCommit
  BY <1>2, <1>3, Zenon DEF BeginCommit
<1>4. ASSUME NEW t \in Timers, TimerRuns(t)
      PROVE  JobOK'
  <2>1. CASE pending = NoTimer
    BY <1>4, <2>1, Zenon DEF TimerRuns
  <2>2. CASE pending # NoTimer
    BY <1>2, <1>4, <2>2, Zenon DEF TimerRuns
  <2> QED
    BY <2>1, <2>2, Zenon
<1>5. CASE PushSucceeds
  BY <1>5, Zenon DEF PushSucceeds, TypeOK, Jobs
<1>6. CASE BeginReplay
  <2>1. CASE NeedsReplay
    <3>1. /\ job' = [kind |-> "replay", target |-> running,
                     todo |-> {k \in Keys : running[k] # None} \ OsKeys,
                     confirm |-> FALSE]
          /\ running' = running
      BY <1>6, <2>1, Zenon DEF BeginReplay
    <3> QED
      BY <3>1, Zenon
  <2>2. CASE ~NeedsReplay
    BY <1>6, <2>2, Zenon DEF BeginReplay
  <2> QED
    BY <2>1, <2>2, Zenon
<1>7. CASE UNCHANGED <<job, running>>
  BY <1>7, Zenon
<1> QED
  BY <1>1, <1>3, <1>4, <1>5, <1>6, <1>7, Zenon
     DEF Next, Engine, Operators, CallFaults, Restarts, SetCandidate, Rollback,
         CommitRejected, ConfirmCommit, TimerFires, PushFails, Persist,
         PersistFails, EndReplay, MgmtdRestarts, BoxRestarts, MgmtdBoots,
         SyncdRestarts, OrchRestarts, ReplayOs, vars

LEMMA NothingAhead ==
  AheadOfRunning = {} => \A k \in Keys : Expected[k] = running[k]
BY Zenon DEF Expected

LEMMA NothingAheadWhenNotApplying ==
  job.kind \notin {"commit", "autoRollback"} => AheadOfRunning = {}
BY Zenon DEF AheadOfRunning

\* The objects a call pushes are none of the kernel's.
LEMMA PushesAvoidKernel ==
  TypeOK /\ JobOK => \A keys \in NextPushes : keys \cap OsKeys = {}
BY SMTT(60) DEF TypeOK, JobOK, Jobs, NextPushes, OsKeys, Declarative

(* An apply or a replay starts, a handler changes nothing the devices hold, or *)
(* a job ends that pushed nothing ahead of running.                            *)
LEMMA DivergenceKept ==
  ASSUME DivergenceIsExplained, UNCHANGED <<running, dev, dirty>>,
         AheadOfRunning = {}, AheadOfRunning' = {}
  PROVE  DivergenceIsExplained'
BY NothingAhead, Zenon DEF DivergenceIsExplained, Expected

LEMMA BootDivergence ==
  ASSUME TypeOK, NEW devices, NEW outOfStep \in SUBSET Keys,
         \A k \in Keys \ outOfStep : devices[k] = running[k],
         MgmtdBoots(devices, outOfStep)
  PROVE  DivergenceIsExplained'
<1>1. PICK failed \in SUBSET OsKeys :
        /\ dev' = [k \in Keys |-> IF k \in OsReplayed(failed)
                                  THEN running[k] ELSE devices[k]]
        /\ dirty' = outOfStep \ OsReplayed(failed)
  BY Zenon DEF MgmtdBoots
<1>2. running' = running /\ job' = Idle
  BY Zenon DEF MgmtdBoots
<1>3. \A k \in Keys : Expected'[k] = running[k]
  BY <1>2, Zenon DEF Expected, AheadOfRunning, Idle
<1>4. \A k \in Keys \ dirty' : dev'[k] = running[k]
  BY <1>1, Zenon
<1> QED
  BY <1>3, <1>4, Zenon DEF DivergenceIsExplained

(* A call that succeeds brings its objects in step and touches no others.      *)
LEMMA PushDivergence ==
  ASSUME TypeOK, JobOK, DivergenceIsExplained, PushSucceeds
  PROVE  DivergenceIsExplained'
<1>1. PICK keys \in NextPushes : /\ dev' = Push(keys)
                                 /\ job' = [job EXCEPT !.todo = @ \ keys]
                                 /\ dirty' = dirty \ keys
  BY Zenon DEF PushSucceeds
<1>2. /\ job'.kind = job.kind
      /\ job'.target = job.target
      /\ job'.todo = job.todo \ keys
  BY <1>1, Zenon DEF TypeOK, Jobs
<1>3. running' = running /\ job.kind # "idle"
  BY Zenon DEF PushSucceeds
<1>4. job.kind \in {"commit", "autoRollback", "replay"}
  BY <1>3, Zenon DEF TypeOK, Jobs
<1>5. keys \subseteq Keys /\ keys \cap OsKeys = {}
  BY PushesAreKeys, PushesAvoidKernel, Zenon
<1>6. CASE job.kind = "replay"
  <2>1. \A k \in Keys : Expected[k] = running[k] /\ Expected'[k] = running[k]
    BY <1>2, <1>3, <1>6, Zenon DEF Expected, AheadOfRunning
  <2>2. job.target = running
    BY <1>6, Zenon DEF JobOK
  <2> QED
    BY <1>1, <2>1, <2>2, Zenon DEF DivergenceIsExplained, Push
<1>7. CASE job.kind \in {"commit", "autoRollback"}
  <2>1. AheadOfRunning =
          Changed(running, job.target) \ (job.todo \cup OsKeys)
    BY <1>7, Zenon DEF AheadOfRunning
  <2>2. AheadOfRunning' =
          Changed(running, job.target) \ ((job.todo \ keys) \cup OsKeys)
    BY <1>2, <1>3, <1>7, Zenon DEF AheadOfRunning, Changed, OsKeys
  <2>3. ASSUME NEW k \in Keys \ dirty'
        PROVE  dev'[k] = Expected'[k]
    <3>1. CASE k \in keys
      <4>1. dev'[k] = job.target[k]
        BY <1>1, <3>1, Zenon DEF Push
      <4>2. Expected'[k] = job.target[k]
        BY <1>2, <1>3, <1>5, <2>2, <3>1, Zenon DEF Expected, Changed
      <4> QED
        BY <4>1, <4>2, Zenon
    <3>2. CASE k \notin keys
      <4>1. dev'[k] = dev[k] /\ k \notin dirty
        BY <1>1, <3>2, Zenon DEF Push
      <4>2. Expected'[k] = Expected[k]
        BY <1>2, <1>3, <2>1, <2>2, <3>2, Zenon DEF Expected
      <4> QED
        BY <4>1, <4>2, Zenon DEF DivergenceIsExplained
    <3> QED
      BY <3>1, <3>2, Zenon
  <2> QED
    BY <2>3, Zenon DEF DivergenceIsExplained
<1> QED
  BY <1>4, <1>6, <1>7, Zenon

(* Persisting an apply makes what was pushed ahead of running the running      *)
(* configuration, and the OS pass brings the kernel's objects in step.         *)
LEMMA PersistDivergence ==
  ASSUME TypeOK, JobOK, DivergenceIsExplained, Persist
  PROVE  DivergenceIsExplained'
<1>1. PICK failed \in OsFailures(OsPass) :
        /\ dev' = Push(OsPass \ failed)
        /\ dirty' = (dirty \ OsPass) \cup failed
  BY Zenon DEF Persist
<1>2. running' = job.target /\ job' = Idle
  BY Zenon DEF Persist
<1>3. \A k \in Keys : Expected'[k] = job.target[k]
  BY <1>2, Zenon DEF Expected, AheadOfRunning, Idle
<1>4. AheadOfRunning = Changed(running, job.target) \ OsKeys
  BY Zenon DEF Persist, AheadOfRunning
<1>5. ASSUME NEW k \in Keys \ dirty'
      PROVE  dev'[k] = job.target[k]
  <2>1. CASE k \in OsPass
    BY <1>1, <2>1, Zenon DEF Push
  <2>2. CASE k \notin OsPass
    <3>1. dev'[k] = dev[k] /\ k \notin dirty
      BY <1>1, <2>2, Zenon DEF Push, OsFailures
    <3>2. Expected[k] = job.target[k]
      BY <1>4, <2>2, Zenon DEF Expected, Changed, OsPass
    <3> QED
      BY <3>1, <3>2, Zenon DEF DivergenceIsExplained
  <2> QED
    BY <2>1, <2>2, Zenon
<1> QED
  BY <1>3, <1>5, Zenon DEF DivergenceIsExplained

(* A failed call, a failed store.commit or a crash puts out of step what the   *)
(* apply had pushed ahead of running, and nothing else.                        *)
LEMMA StopDivergence ==
  ASSUME DivergenceIsExplained, NEW pushed \in SUBSET Keys,
         dev' = dev \/ dev' = Push(pushed),
         dirty' = dirty \cup AheadOfRunning \cup pushed,
         running' = running, job' = Idle
  PROVE  DivergenceIsExplained'
<1>1. \A k \in Keys : Expected'[k] = running[k]
  BY Zenon DEF Expected, AheadOfRunning, Idle
<1>2. ASSUME NEW k \in Keys \ dirty'
      PROVE  dev'[k] = running[k]
  BY Zenon DEF Push, DivergenceIsExplained, Expected
<1> QED
  BY <1>1, <1>2, Zenon DEF DivergenceIsExplained

(* A restart of syncd or orch puts out of step the objects it should hold.     *)
LEMMA ForgetDivergence ==
  ASSUME DivergenceIsExplained, NEW families,
         dev' = Forget(families), dirty' = OutOfStep(families),
         UNCHANGED <<running, job>>
  PROVE  DivergenceIsExplained'
<1>1. Expected' = Expected
  BY Zenon DEF Expected, AheadOfRunning, Changed, OsKeys
<1> QED
  BY <1>1, Zenon DEF DivergenceIsExplained, Forget, OutOfStep

LEMMA DivergenceStep ==
  TypeOK /\ JobOK /\ DivergenceIsExplained /\ [Next]_vars
    => DivergenceIsExplained'
<1> SUFFICES ASSUME TypeOK, JobOK, DivergenceIsExplained, [Next]_vars
             PROVE  DivergenceIsExplained'
  BY Zenon
<1>1. CASE UNCHANGED <<running, dev, job, dirty>>
  BY <1>1, Zenon DEF DivergenceIsExplained, Expected, AheadOfRunning, Changed,
              OsKeys
<1>2. ASSUME NEW kind, NEW target, NEW confirm,
             StartApply(kind, target, confirm), job.kind = "idle",
             UNCHANGED <<running, dev, dirty>>
      PROVE  DivergenceIsExplained'
  <2>1. AheadOfRunning = {}
    BY <1>2, Zenon DEF AheadOfRunning
  <2>2. AheadOfRunning' = {}
    BY <1>2, Zenon DEF AheadOfRunning, StartApply, Changed, OsKeys
  <2> QED
    BY <1>2, <2>1, <2>2, DivergenceKept, Zenon
<1>3. CASE BeginCommit
  BY <1>2, <1>3, Zenon DEF BeginCommit
<1>4. ASSUME NEW t \in Timers, TimerRuns(t)
      PROVE  DivergenceIsExplained'
  <2>1. UNCHANGED <<running, dev, dirty>> /\ job.kind = "idle"
    BY <1>4, Zenon DEF TimerRuns
  <2>2. CASE pending = NoTimer
    BY <1>1, <1>4, <2>1, <2>2, Zenon DEF TimerRuns
  <2>3. CASE pending # NoTimer
    BY <1>2, <1>4, <2>1, <2>3, Zenon DEF TimerRuns
  <2> QED
    BY <2>2, <2>3, Zenon
<1>5. CASE PushSucceeds
  BY <1>5, PushDivergence, Zenon
<1>6. CASE PushFails
  <2>1. PICK keys \in NextPushes :
          /\ dev' \in {dev, Push(keys)}
          /\ dirty' = dirty \cup AheadOfRunning \cup keys
    BY <1>6, Zenon DEF PushFails
  <2>2. keys \in SUBSET Keys
    BY PushesAreKeys, Zenon
  <2> QED
    BY <1>6, <2>1, <2>2, StopDivergence, Zenon DEF PushFails
<1>7. CASE Persist
  BY <1>7, PersistDivergence, Zenon
<1>8. CASE PersistFails
  <2>1. OsPass \in SUBSET Keys
    BY Zenon DEF OsPass, OsKeys
  <2> QED
    BY <1>8, <2>1, StopDivergence, Zenon DEF PersistFails
<1>9. CASE BeginReplay
  <2>1. CASE NeedsReplay
    <3>1. AheadOfRunning = {}
      BY <1>9, Zenon DEF BeginReplay, AheadOfRunning
    <3>2. job'.kind = "replay" /\ UNCHANGED <<running, dev, dirty>>
      BY <1>9, <2>1 DEF BeginReplay
    <3>3. AheadOfRunning' = {}
      BY <3>2, Zenon DEF AheadOfRunning
    <3> QED
      BY <3>1, <3>2, <3>3, DivergenceKept, Zenon
  <2>2. CASE ~NeedsReplay
    BY <1>1, <1>9, <2>2, Zenon DEF BeginReplay
  <2> QED
    BY <2>1, <2>2, Zenon
<1>10. CASE EndReplay
  <2>1. AheadOfRunning = {} /\ AheadOfRunning' = {}
    BY <1>10, Zenon DEF EndReplay, AheadOfRunning, Idle
  <2> QED
    BY <1>10, <2>1, DivergenceKept, Zenon DEF EndReplay
<1>11. CASE MgmtdRestarts
  <2> DEFINE stopped == dirty \cup AheadOfRunning
  <2>1. stopped \in SUBSET Keys /\ OsPass \in SUBSET Keys
    BY Zenon DEF TypeOK, AheadOfRunning, Changed, OsPass, OsKeys
  <2>2. \A k \in Keys \ stopped : dev[k] = running[k]
    BY Zenon DEF DivergenceIsExplained, Expected
  <2>3. CASE MgmtdBoots(dev, stopped)
    BY <2>1, <2>2, <2>3, BootDivergence, Zenon
  <2>4. CASE MgmtdBoots(Push(OsPass), stopped \cup OsPass)
    <3>1. \A k \in Keys \ (stopped \cup OsPass) : Push(OsPass)[k] = running[k]
      BY <2>2, Zenon DEF Push
    <3> QED
      BY <2>1, <2>4, <3>1, BootDivergence, Zenon
  <2> QED
    BY <1>11, <2>3, <2>4, Zenon DEF MgmtdRestarts
<1>12. CASE BoxRestarts
  BY <1>12, BootDivergence DEF BoxRestarts
<1>13. CASE SyncdRestarts \/ OrchRestarts
  BY <1>13, ForgetDivergence, Zenon DEF SyncdRestarts, OrchRestarts
<1>14. CASE ReplayOs
  <2>1. PICK failed \in OsFailures(OsKeys) :
          /\ dev' = [k \in Keys |->
                       IF k \in OsReplayed(failed) THEN running[k] ELSE dev[k]]
          /\ dirty' = dirty \ OsReplayed(failed)
    BY <1>14, Zenon DEF ReplayOs
  <2>2. \A k \in Keys : Expected[k] = running[k] /\ Expected'[k] = running[k]
    BY <1>14, Zenon DEF ReplayOs, Expected, AheadOfRunning
  <2> QED
    BY <2>1, <2>2, Zenon DEF DivergenceIsExplained
<1> QED
  BY <1>1, <1>3, <1>4, <1>5, <1>6, <1>7, <1>8, <1>9, <1>10, <1>11, <1>12,
     <1>13, <1>14, Zenon
     DEF Next, Engine, Operators, CallFaults, Restarts, SetCandidate, Rollback,
         CommitRejected, ConfirmCommit, TimerFires, vars

(* Divergence never spreads beyond what a fault touched, for every set of      *)
(* objects, every order of commits, rollbacks, expiries and replays, and any   *)
(* number of failed calls, crashes and restarts.                               *)
THEOREM DivergenceIsAlwaysExplained == Spec => []DivergenceIsExplained
<1>1. Init => JobOK /\ DivergenceIsExplained
  BY DEF Init, JobOK, DivergenceIsExplained, Expected, AheadOfRunning, Idle
<1> QED
  BY <1>1, JobStep, DivergenceStep, EngineTypeOK, PTL DEF Spec
=============================================================================
