---------------------------- MODULE CommitEngine ----------------------------
(***************************************************************************)
(* mgmtd's commit engine (hemlock-mgmtd/src/service.rs, main.rs): the one  *)
(* candidate, commits applied family by family to syncd, orch and the      *)
(* kernel and persisted last, commit-confirm timers, rollback, and the     *)
(* replay of the running configuration when mgmtd starts.                  *)
(*                                                                         *)
(* A configuration maps each configurable object (a key: a VLAN, a port's  *)
(* switchport, the LLDP settings, ...) to its value, None when the text    *)
(* does not mention it.  `dev' is what syncd, orch and the kernel hold.    *)
(* The engine mutex is held from the first to the last step of a job.      *)
(***************************************************************************)
EXTENDS Naturals, Sequences, FiniteSets

CONSTANTS Keys,       \* the configurable objects
          Family,     \* the family of each key
          Values,
          None,       \* the value of an object the text does not mention
          Configs,    \* the candidates operators submit
          RingSize,   \* ROLLBACK_RING_SIZE
          Timers,     \* identities of commit-confirm timer tasks
          NoTimer,
          MaxFaults   \* bound: failed calls, crashes and restarts

\* The steps of apply_and_persist, in order.  A step pushes the objects of one
\* family: those the new text sets ("ensure"), those it drops ("remove"), or
\* both.  (An object's description is in its value.)
L2Steps ==
  << <<"ports", "both">>, <<"vlans", "ensure">>, <<"switchports", "both">>,
     <<"vlans", "remove">>, <<"addresses", "both">>, <<"lags", "ensure">>,
     <<"lacp", "both">>, <<"lags", "remove">> >>
SwitchingSteps ==
  << <<"macTable", "remove">>, <<"macTable", "ensure">>, <<"storm", "both">>,
     <<"mirror", "both">> >>
SecuritySteps ==
  << <<"acls", "ensure">>, <<"aclBindings", "remove">>,
     <<"aclBindings", "ensure">>, <<"acls", "remove">>, <<"copp", "both">>,
     <<"portSecurity", "both">>, <<"dot1x", "both">>,
     <<"snoopSecurity", "both">> >>
QosSteps ==
  << <<"wred", "ensure">>, <<"qosMaps", "both">>, <<"portQos", "both">>,
     <<"wred", "remove">> >>
ServiceSteps ==
  << <<"stpInstances", "ensure">>, <<"stpInstances", "remove">>,
     <<"stp", "both">>, <<"dhcpServer", "both">>, <<"sflowAsic", "both">>,
     <<"sflow", "both">>, <<"snmp", "both">>, <<"lldp", "both">>,
     <<"igmpSnooping", "both">>, <<"mldSnooping", "both">>,
     <<"vrrpMacs", "ensure">>, <<"vrrpMacs", "remove">> >>
ApplyOrder ==
  L2Steps \o SwitchingSteps \o SecuritySteps \o QosSteps \o ServiceSteps

\* The steps of replay_running, in order: it only ever sets objects.  A step
\* that goes over the ports takes the families of one port together.
ReplayL2 ==
  << {"vlans"}, {"ports", "addresses", "switchports"}, {"lags"}, {"lacp"} >>
ReplayServices ==
  << {"stpInstances"}, {"stp"}, {"dhcpServer"}, {"sflowAsic"}, {"sflow"},
     {"snmp"}, {"lldp"}, {"igmpSnooping"}, {"mldSnooping"}, {"macTable"},
     {"storm"}, {"mirror"} >>
ReplaySecurity ==
  << {"acls"}, {"aclBindings"}, {"copp"}, {"portSecurity"}, {"dot1x"},
     {"snoopSecurity"} >>
ReplayQos == << {"wred"}, {"qosMaps"}, {"portQos"}, {"vrrpMacs"} >>
ReplayOrder == ReplayL2 \o ReplayServices \o ReplaySecurity \o ReplayQos

\* Families pushed whole: one call replaces everything the receiver held.
Declarative == {"lacp", "dot1x", "snoopSecurity", "qosMaps", "stp",
                "dhcpServer", "sflowAsic", "sflow", "snmp", "lldp",
                "igmpSnooping", "mldSnooping"}

\* Families held in the memory of orch; in the kernel (addresses, routes, ssh);
\* and in files rendered for other daemons (hostname, FRR, snmpd, rsyslog,
\* dnsmasq).  The last two survive a restart of any Hemlock daemon.
OrchFamilies == {"lacp", "dot1x", "snoopSecurity", "stp", "dhcpServer",
                 "sflow", "snmp", "lldp", "igmpSnooping", "mldSnooping"}
SyncdFamilies ==
  UNION {ReplayOrder[i] : i \in 1..Len(ReplayOrder)} \ OrchFamilies
OsFamilies == {"kernel", "rendered"}
Families == SyncdFamilies \cup OrchFamilies \cup OsFamilies

\* The families whose presence makes needs_syncd_replay return true (those
\* configured on an interface do because its entry is then not empty).
ReplayGate == Families \ (OsFamilies \cup {"lacp", "stpInstances", "stp",
                                           "igmpSnooping", "mldSnooping"})

Config == [Keys -> Values]
EmptyConfig == [k \in Keys |-> None]

ASSUME EngineAssumption ==
  /\ None \in Values
  /\ Family \in [Keys -> Families]
  /\ Configs \subseteq Config
  /\ RingSize \in Nat \ {0}
  /\ MaxFaults \in Nat
  /\ NoTimer \notin Timers

VARIABLES running,    \* running.conf
          candidate,  \* candidate.conf
          ring,       \* the rollback ring, newest first
          dev,        \* what syncd, orch and the kernel hold
          job,        \* what the holder of the engine mutex is doing
          timers,     \* the commit-confirm timer tasks
          pending,    \* pending_confirm: the timer it can cancel
          replaying,  \* what the start-up replay task has still to do
          faults,     \* faults so far
          dirty,      \* ghost: keys a fault may have put out of step
          unconfirmed \* ghost: running awaits a confirmation

vars == <<running, candidate, ring, dev, job, timers, pending, replaying,
          faults, dirty, unconfirmed>>

Jobs == [kind : {"idle", "commit", "autoRollback", "replay"},
         target : Config,       \* the text being applied or replayed
         todo : SUBSET Keys,    \* what is still to be pushed
         confirm : BOOLEAN]     \* confirm_timeout_secs > 0
TimerStates == [state : {"unused", "armed", "fired"}, pre : Config]

Idle == [kind |-> "idle", target |-> EmptyConfig, todo |-> {},
         confirm |-> FALSE]
Unused == [state |-> "unused", pre |-> EmptyConfig]

TypeOK ==
  /\ running \in Config
  /\ candidate \in Config
  /\ ring \in Seq(Config) /\ Len(ring) <= RingSize
  /\ dev \in Config
  /\ job \in Jobs
  /\ timers \in [Timers -> TimerStates]
  /\ pending \in Timers \cup {NoTimer}
  /\ replaying \in {"all", "os", "nothing"}
  /\ faults \in 0..MaxFaults
  /\ dirty \subseteq Keys
  /\ unconfirmed \in BOOLEAN

Init ==
  /\ running = EmptyConfig
  /\ candidate = EmptyConfig
  /\ ring = <<>>
  /\ dev = EmptyConfig
  /\ job = Idle
  /\ timers = [t \in Timers |-> Unused]
  /\ pending = NoTimer
  /\ replaying = "all"
  /\ faults = 0
  /\ dirty = {}
  /\ unconfirmed = FALSE

-----------------------------------------------------------------------------
\* Helpers.

Changed(old, new) == {k \in Keys : old[k] # new[k]}
OsKeys == {k \in Keys : Family[k] \in OsFamilies}

Matches(step, k, target) ==
  /\ step[1] = Family[k]
  /\ step[2] \in {"both", IF target[k] = None THEN "remove" ELSE "ensure"}

\* The position of a key's step in the order of the current job.
Rank(k) ==
  IF job.kind = "replay"
  THEN CHOOSE i \in 1..Len(ReplayOrder) : Family[k] \in ReplayOrder[i]
  ELSE CHOOSE i \in 1..Len(ApplyOrder) : Matches(ApplyOrder[i], k, job.target)

\* The keys one call may push next: one object, or a family that is pushed whole.
NextPushes ==
  {IF Family[k] \in Declarative
   THEN {j \in Keys : Family[j] = Family[k]}
   ELSE {k} :
   k \in {m \in job.todo : \A j \in job.todo : Rank(m) <= Rank(j)}}

Push(keys) == [k \in Keys |-> IF k \in keys THEN job.target[k] ELSE dev[k]]

\* The keys of the current apply that have been pushed ahead of running, and
\* what the devices are then expected to hold.
AheadOfRunning ==
  IF job.kind \in {"commit", "autoRollback"}
  THEN Changed(running, job.target) \ (job.todo \cup OsKeys)
  ELSE {}
Expected == [k \in Keys |->
               IF k \in AheadOfRunning THEN job.target[k] ELSE running[k]]

\* Taking pending_confirm and sending on, or dropping, its cancel handle ends
\* the timer task, unless its sleep has already been chosen by the select!.
Cancelled ==
  [t \in Timers |-> IF t = pending /\ timers[t].state = "armed"
                    THEN Unused
                    ELSE timers[t]]

\* Mutant: objects the new text no longer mentions are not in the diff.
StartApplyOnlySets(kind, target, confirm) ==
  job' = [kind |-> kind, target |-> target,
          todo |-> {k \in Changed(running, target) : target[k] # None}
                     \ OsKeys,
          confirm |-> confirm]

StartApply(kind, target, confirm) ==
  job' = [kind |-> kind, target |-> target,
          todo |-> Changed(running, target) \ OsKeys, confirm |-> confirm]

-----------------------------------------------------------------------------
\* The handlers.  Each one waits for the engine mutex.

\* set_candidate: a text that does not validate leaves the candidate alone.
SetCandidate ==
  /\ job.kind = "idle"
  /\ \E c \in Configs : candidate' = c
  /\ UNCHANGED <<running, ring, dev, job, timers, pending, replaying, faults,
                 dirty, unconfirmed>>

\* rollback: load a ring entry into the candidate.
Rollback ==
  /\ job.kind = "idle"
  /\ \E n \in 1..Len(ring) : candidate' = ring[n]
  /\ UNCHANGED <<running, ring, dev, job, timers, pending, replaying, faults,
                 dirty, unconfirmed>>

\* Bound: a commit asks for a confirmation while a timer identity is free.
MayConfirm ==
  {c \in BOOLEAN :
     c => \E t \in Timers : Cancelled[t] = Unused}

\* commit, up to the first push: it supersedes a pending confirmation.
BeginCommit ==
  /\ job.kind = "idle"
  /\ \E confirm \in MayConfirm : StartApply("commit", candidate, confirm)
  /\ timers' = Cancelled
  /\ pending' = NoTimer
  /\ UNCHANGED <<running, candidate, ring, dev, replaying, faults, dirty,
                 unconfirmed>>

\* commit of a candidate that no longer validates: the confirmation is gone.
CommitRejected ==
  /\ job.kind = "idle"
  /\ faults < MaxFaults
  /\ timers' = Cancelled
  /\ pending' = NoTimer
  /\ faults' = faults + 1
  /\ UNCHANGED <<running, candidate, ring, dev, job, replaying, dirty,
                 unconfirmed>>

\* confirm_commit
ConfirmCommit ==
  /\ job.kind = "idle"
  /\ pending # NoTimer
  /\ timers' = Cancelled
  /\ pending' = NoTimer
  /\ unconfirmed' = FALSE
  /\ UNCHANGED <<running, candidate, ring, dev, job, replaying, faults, dirty>>

\* The sleep of a timer task ends; from here on it waits for the mutex.
TimerFires(t) ==
  /\ timers[t].state = "armed"
  /\ timers' = [timers EXCEPT ![t].state = "fired"]
  /\ UNCHANGED <<running, candidate, ring, dev, job, pending, replaying,
                 faults, dirty, unconfirmed>>

\* Mutant: an expired window does not take the confirmation it was for.
TimerRunsKeepsPending(t) ==
  /\ timers[t].state = "fired"
  /\ job.kind = "idle"
  /\ IF pending = NoTimer
     THEN UNCHANGED job
     ELSE StartApply("autoRollback", timers[t].pre, FALSE)
  /\ timers' = [timers EXCEPT ![t] = Unused]
  /\ UNCHANGED <<running, candidate, ring, dev, pending, replaying, faults,
                 dirty, unconfirmed>>

\* Mutant: the timer task does not look whether it raced with a confirmation.
TimerRunsUnasked(t) ==
  /\ timers[t].state = "fired"
  /\ job.kind = "idle"
  /\ StartApply("autoRollback", timers[t].pre, FALSE)
  /\ timers' = [Cancelled EXCEPT ![t] = Unused]
  /\ pending' = NoTimer
  /\ UNCHANGED <<running, candidate, ring, dev, replaying, faults, dirty,
                 unconfirmed>>

\* The timer task gets the mutex: it rolls back if any confirmation is pending.
TimerRuns(t) ==
  /\ timers[t].state = "fired"
  /\ job.kind = "idle"
  /\ IF pending = NoTimer
     THEN UNCHANGED job
     ELSE StartApply("autoRollback", timers[t].pre, FALSE)
  /\ timers' = [Cancelled EXCEPT ![t] = Unused]
  /\ pending' = NoTimer
  /\ UNCHANGED <<running, candidate, ring, dev, replaying, faults, dirty,
                 unconfirmed>>

-----------------------------------------------------------------------------
\* apply_and_persist and replay_running.

\* A call of the current job to syncd or orch returns Ok.
PushSucceeds ==
  /\ job.kind # "idle"
  /\ \E keys \in NextPushes :
       /\ dev' = Push(keys)
       /\ job' = [job EXCEPT !.todo = @ \ keys]
       /\ dirty' = dirty \ keys
  /\ UNCHANGED <<running, candidate, ring, timers, pending, replaying, faults,
                 unconfirmed>>

\* A call fails, or its deadline passes when it did its work all the same: `?`
\* ends the job and nothing is undone.  The replay task tries again later.
PushFails ==
  /\ job.kind # "idle"
  /\ faults < MaxFaults
  /\ \E keys \in NextPushes :
       /\ dev' \in {dev, Push(keys)}
       /\ dirty' = dirty \cup AheadOfRunning \cup keys
  /\ job' = Idle
  /\ faults' = faults + 1
  /\ UNCHANGED <<running, candidate, ring, timers, pending, replaying,
                 unconfirmed>>

\* What the OS pass pushes.  It is best-effort: some commands may fail.
OsPass == Changed(running, job.target) \cap OsKeys
OsFailures(keys) == {f \in SUBSET keys : f = {} \/ faults < MaxFaults}
FaultsAfter(failed) == IF failed = {} THEN faults ELSE faults + 1

\* The ring once store.commit has pushed the text it replaces.
RingAfter ==
  SubSeq(<<running>> \o ring, 1,
         IF Len(ring) < RingSize THEN Len(ring) + 1 ELSE RingSize)

\* The end of apply_and_persist: the OS pass, store.commit (which makes the
\* candidate the committed text too), and the timer of a commit to confirm.
Persist ==
  /\ job.kind \in {"commit", "autoRollback"}
  /\ job.todo = {}
  /\ \E failed \in OsFailures(OsPass) :
       /\ dev' = Push(OsPass \ failed)
       /\ dirty' = (dirty \ OsPass) \cup failed
       /\ faults' = FaultsAfter(failed)
  /\ running' = job.target
  /\ candidate' = job.target
  /\ ring' = RingAfter
  /\ IF job.confirm
     THEN \E t \in {u \in Timers : Cancelled[u] = Unused} :
            /\ timers' = [Cancelled EXCEPT
                            ![t] = [state |-> "armed", pre |-> running]]
            /\ pending' = t
     ELSE UNCHANGED <<timers, pending>>
  /\ unconfirmed' = job.confirm
  /\ job' = Idle
  /\ UNCHANGED replaying

\* store.commit fails after the OS pass.
PersistFails ==
  /\ job.kind \in {"commit", "autoRollback"}
  /\ job.todo = {}
  /\ faults < MaxFaults
  /\ dev' = Push(OsPass)
  /\ dirty' = dirty \cup AheadOfRunning \cup OsPass
  /\ job' = Idle
  /\ faults' = faults + 1
  /\ UNCHANGED <<running, candidate, ring, timers, pending, replaying,
                 unconfirmed>>

NeedsReplay == \E k \in Keys : running[k] # None /\ Family[k] \in ReplayGate

\* replay_running, up to the first push; Ok(0) ends the task.
BeginReplay ==
  /\ replaying = "all"
  /\ job.kind = "idle"
  /\ IF NeedsReplay
     THEN /\ job' = [kind |-> "replay", target |-> running,
                     todo |-> {k \in Keys : running[k] # None} \ OsKeys,
                     confirm |-> FALSE]
          /\ UNCHANGED replaying
     ELSE replaying' = "nothing" /\ UNCHANGED job
  /\ UNCHANGED <<running, candidate, ring, dev, timers, pending, faults, dirty,
                 unconfirmed>>

\* Mutant: the replay task ends with the first call that succeeds.
EndReplayEarly ==
  /\ job.kind = "replay"
  /\ job' = Idle
  /\ replaying' = "os"
  /\ UNCHANGED <<running, candidate, ring, dev, timers, pending, faults, dirty,
                 unconfirmed>>

\* replay_running returns Ok(n), n > 0; the task releases the mutex.
EndReplay ==
  /\ job.kind = "replay"
  /\ job.todo = {}
  /\ job' = Idle
  /\ replaying' = "os"
  /\ UNCHANGED <<running, candidate, ring, dev, timers, pending, faults, dirty,
                 unconfirmed>>

\* What replay_os sets: the kernel objects the running configuration mentions,
\* and all that is rendered, whether it mentions it or not.
OsReplayed(failed) ==
  {k \in OsKeys \ failed : running[k] # None \/ Family[k] = "rendered"}

\* The second replay_os of the task, once the netdevs of SVIs exist.
ReplayOs ==
  /\ replaying = "os"
  /\ job.kind = "idle"
  /\ \E failed \in OsFailures(OsKeys) :
       /\ dev' = [k \in Keys |->
                    IF k \in OsReplayed(failed) THEN running[k] ELSE dev[k]]
       /\ dirty' = dirty \ OsReplayed(failed)
       /\ faults' = FaultsAfter(failed)
  /\ replaying' = "nothing"
  /\ UNCHANGED <<running, candidate, ring, job, timers, pending, unconfirmed>>

-----------------------------------------------------------------------------
\* Crashes and restarts.

\* What a restart leaves of dev, and of dirty, when it clears some families.
Forget(families) ==
  [k \in Keys |-> IF Family[k] \in families THEN None ELSE dev[k]]
OutOfStep(families) ==
  {k \in Keys : IF Family[k] \in families THEN Expected[k] # None
                                          ELSE k \in dirty}

\* mgmtd starts: the memory of the engine is gone, the replay task begins, and
\* replay_os runs once.
MgmtdBoots(devices, outOfStep) ==
  /\ faults < MaxFaults
  /\ faults' = faults + 1
  /\ job' = Idle
  /\ timers' = [t \in Timers |-> Unused]
  /\ pending' = NoTimer
  /\ replaying' = "all"
  /\ \E failed \in SUBSET OsKeys :
       /\ dev' = [k \in Keys |-> IF k \in OsReplayed(failed)
                                 THEN running[k] ELSE devices[k]]
       /\ dirty' = outOfStep \ OsReplayed(failed)
  /\ UNCHANGED <<running, candidate, ring, unconfirmed>>

\* mgmtd dies, between two calls or between the OS pass and store.commit.
MgmtdRestarts ==
  \/ MgmtdBoots(dev, dirty \cup AheadOfRunning)
  \/ /\ job.kind \in {"commit", "autoRollback"}
     /\ job.todo = {}
     /\ MgmtdBoots(Push(OsPass), dirty \cup AheadOfRunning \cup OsPass)

\* syncd restarts alone: ports are at their defaults and nobody is told.
SyncdRestarts ==
  /\ faults < MaxFaults
  /\ faults' = faults + 1
  /\ dev' = Forget(SyncdFamilies)
  /\ dirty' = OutOfStep(SyncdFamilies)
  /\ UNCHANGED <<running, candidate, ring, job, timers, pending, replaying,
                 unconfirmed>>

OrchRestarts ==
  /\ faults < MaxFaults
  /\ faults' = faults + 1
  /\ dev' = Forget(OrchFamilies)
  /\ dirty' = OutOfStep(OrchFamilies)
  /\ UNCHANGED <<running, candidate, ring, job, timers, pending, replaying,
                 unconfirmed>>

\* The box restarts: every daemon and the kernel start from nothing.
BoxRestarts == MgmtdBoots(EmptyConfig, {k \in Keys : running[k] # None})

Engine ==
  \/ \E t \in Timers : TimerFires(t) \/ TimerRuns(t)
  \/ PushSucceeds \/ Persist \/ BeginReplay \/ EndReplay \/ ReplayOs

Operators == SetCandidate \/ Rollback \/ BeginCommit \/ ConfirmCommit

CallFaults == CommitRejected \/ PushFails \/ PersistFails

Restarts == MgmtdRestarts \/ SyncdRestarts \/ OrchRestarts \/ BoxRestarts

Next == Engine \/ Operators \/ CallFaults \/ Restarts

Spec == Init /\ [][Next]_vars

\* The engine mutex is a FIFO queue, so a task that asks for it again and again
\* gets it (SF); a holder goes on with its calls and a sleep ends (WF).
Fairness ==
  /\ WF_vars(PushSucceeds)
  /\ WF_vars(Persist)
  /\ WF_vars(EndReplay)
  /\ SF_vars(BeginReplay)
  /\ SF_vars(ReplayOs)
  /\ \A t \in Timers : WF_vars(TimerFires(t)) /\ SF_vars(TimerRuns(t))

\* Calls fail, and mgmtd or the whole box restarts, finitely often.
ReplaySpec ==
  /\ Init
  /\ [][Engine \/ Operators \/ CallFaults \/ MgmtdRestarts \/ BoxRestarts]_vars
  /\ Fairness

-----------------------------------------------------------------------------
\* Properties.

(* A failed apply leaves its pushes in place and a restart loses them, but     *)
(* divergence never spreads: every object that no failed call, crash or        *)
(* restart has touched since it was last pushed holds the running              *)
(* configuration's value, or the new one once the apply in progress pushed it. *)
DivergenceIsExplained == \A k \in Keys \ dirty : dev[k] = Expected[k]

(* While no other call holds the engine, a running configuration committed     *)
(* with a timeout and not confirmed has a confirmation pending, so that a      *)
(* timer will still roll it back (hemlockctl/src/config.rs, commit: "run       *)
(* `hemlockctl confirm` within {secs}s or the config rolls back").             *)
UnconfirmedIsTimed ==
  unconfirmed /\ job.kind = "idle" => pending # NoTimer

(* The expiry of a confirmation window restores the text that the commit of    *)
(* that window replaced, and `hemlockctl confirm' disarms a window for good    *)
(* (docs/architecture.md, Commit-confirm).  It does not hold: an expired task  *)
(* that waited for the mutex behind a newer confirmed commit takes the         *)
(* confirmation of that commit and restores the text from before its own.      *)
ExpiryRestoresItsOwnCommit ==
  [][job.kind = "idle" /\ job'.kind = "autoRollback"
       => pending # NoTimer /\ job'.target = timers[pending].pre]_vars

(* What the timer task does when its window has expired, whoever got the mutex *)
(* before it: it never rolls back a configuration that was confirmed or was    *)
(* committed without a timeout, and it restores the newest text of the ring,   *)
(* which is the one that the unconfirmed commit replaced.  Left out of the     *)
(* second part is the one case in which that fails (see above): the task of an *)
(* older window is still waiting for the mutex.                                *)
ExpiryUndoesItsCommit ==
  [][job.kind = "idle" /\ job'.kind = "autoRollback" =>
       /\ unconfirmed
       /\ (\A t \in Timers : timers[t].state = "fired" => t = pending)
            => job'.target = ring[1]]_vars

(* Every confirmation window closes: it is confirmed, superseded or expires.   *)
WindowCloses == pending # NoTimer ~> pending = NoTimer

(* The replay task ends, however often calls failed before, and if the running *)
(* configuration asked for a replay, all that it mentions has been in place    *)
(* once replay_running returned.                                               *)
ReplayConverges ==
  /\ replaying = "all" ~> replaying = "nothing"
  /\ replaying = "all" ~>
       /\ replaying # "all"
       /\ NeedsReplay => \A k \in Keys \ OsKeys :
                           running[k] # None => dev[k] = running[k]
=============================================================================
