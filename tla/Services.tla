------------------------------ MODULE Services ------------------------------
(***************************************************************************)
(* The components that share no state with one another, side by side:      *)
(* the harness's pool lifecycle, the two halves of push delivery, pushes   *)
(* to a git repository and its announcement, and the workflow scheduler.   *)
(* `sys`, chosen at the start, says which of them runs; the others stay in *)
(* their initial states.  So the behaviours are those of each component by *)
(* itself, and a property of a component is checked in all of its states.  *)
(***************************************************************************)
EXTENDS Naturals, FiniteSets

CONSTANTS
  None, Nobody, Crashed,      \* nothing, no claim, a claim whose owner is gone
  Slots, Procs, MaxPoolFaults,
  Inst, MatchEvent, Matcher, MaxGen, MaxTries, MaxMatchErrors,
  WakeEvent, Worker, MaxAttempts, MaxSendErrors,
  Commit, Reach, Branch, Main, Pusher, MaxPacks, Threshold, MaxUpdates,
  MaxPushes, MaxPushErrors,
  Owner, Announce, By, MaxAnnounceErrors,
  Pod, Period, Drift, Every, Interval, MaxTime, MaxFaults

\* What parse_duration_secs and the loop of `run` guarantee, and an engine that runs.
ASSUME ScheduleAssumption ==
  /\ Pod # {} /\ None \notin Nat
  /\ Period \in Nat /\ Drift \in Nat /\ Interval \in Nat \ {0}

\* The tokens of live claims are neither absent nor those of dead processes; the tries
\* are counted; a table has finitely many rows.
ASSUME ClaimAssumption ==
  /\ {Nobody, Crashed} \cap (Matcher \cup Worker) = {}
  /\ MaxTries \in Nat /\ IsFiniteSet(WakeEvent)

\* Every announcement is signed by a pubkey, and no pubkey stands for a free name.
ASSUME SignerAssumption == By \in [Announce -> Owner] /\ None \notin Owner

VARIABLES
  sys,
  lc, ready, work, wakes, wakeChan, proc, respawn, signalled, phase, poolFaults,
  leases, ev, act, job, mt, outbox, matchErrors,
  lease, member, gone, expired, row, wk, sent, sendErrors,
  packs, mans, pointer, past, push, acked, events, pushes, pushErrors,
  name, pointers, an, announceErrors,
  trigger, enabled, now, pod, fires, runs, steady, faults

poolVars     == <<lc, ready, work, wakes, wakeChan, proc, respawn, signalled, phase, poolFaults>>
matchVars    == <<leases, ev, act, job, mt, outbox, matchErrors>>
outboxVars   == <<lease, member, gone, expired, row, wk, sent, sendErrors>>
publishVars  == <<packs, mans, pointer, past, push, acked, events, pushes, pushErrors>>
announceVars == <<name, pointers, an, announceErrors>>
scheduleVars == <<trigger, enabled, now, pod, fires, runs, steady, faults>>

vars == <<sys, poolVars, matchVars, outboxVars, publishVars, announceVars, scheduleVars>>

Pool == INSTANCE PoolLifecycle WITH MaxFaults <- MaxPoolFaults, faults <- poolFaults

Match == INSTANCE PushMatch WITH
           Event <- MatchEvent, MaxErrors <- MaxMatchErrors, lease <- leases, errors <- matchErrors

Outbox == INSTANCE PushOutbox WITH Event <- WakeEvent, MaxErrors <- MaxSendErrors, errors <- sendErrors

Publish == INSTANCE GitPublish WITH MaxErrors <- MaxPushErrors, errors <- pushErrors

Announcing == INSTANCE GitAnnounce WITH
                MaxErrors <- MaxAnnounceErrors, pointer <- pointers, errors <- announceErrors

Schedule == INSTANCE WorkflowSchedule

Init ==
  /\ sys \in {"pool", "match", "outbox", "publish", "announce", "schedule"}
  /\ Pool!Init /\ Match!Init /\ Outbox!Init /\ Publish!Init /\ Announcing!Init /\ Schedule!Init
  /\ sys # "publish" => pointer = None
  /\ sys # "schedule" => trigger = "cron"

Next ==
  \/ /\ sys = "pool" /\ Pool!Next
     /\ UNCHANGED <<sys, matchVars, outboxVars, publishVars, announceVars, scheduleVars>>
  \/ /\ sys = "match" /\ Match!Next
     /\ UNCHANGED <<sys, poolVars, outboxVars, publishVars, announceVars, scheduleVars>>
  \/ /\ sys = "outbox" /\ Outbox!Next
     /\ UNCHANGED <<sys, poolVars, matchVars, publishVars, announceVars, scheduleVars>>
  \/ /\ sys = "publish" /\ Publish!Next
     /\ UNCHANGED <<sys, poolVars, matchVars, outboxVars, announceVars, scheduleVars>>
  \/ /\ sys = "announce" /\ Announcing!Next
     /\ UNCHANGED <<sys, poolVars, matchVars, outboxVars, publishVars, scheduleVars>>
  \/ /\ sys = "schedule" /\ Schedule!Next
     /\ UNCHANGED <<sys, poolVars, matchVars, outboxVars, publishVars, announceVars>>

\* The fairness of the components, each while it runs.
Fairness ==
  /\ WF_poolVars(sys = "pool" /\ Pool!StartWake)
  /\ WF_poolVars(sys = "pool" /\ Pool!RetryDue)
  /\ WF_poolVars(sys = "pool" /\ Pool!HandleWake)
  /\ WF_poolVars(sys = "pool" /\ Pool!HandleWakePanic)
  /\ WF_poolVars(sys = "pool" /\ \E t \in wakes : Pool!WakeStep(t))
  /\ WF_poolVars(sys = "pool" /\ Pool!MainShutdown)
  /\ WF_poolVars(sys = "pool" /\ Pool!Timeouts)
  /\ \A m \in Matcher : WF_matchVars(sys = "match" /\ Match!MatcherStep(m))
  /\ \A e \in MatchEvent : WF_matchVars(sys = "match" /\ Match!Ripens(e))
  /\ WF_matchVars(sys = "match" /\ Match!Reap)
  /\ \A w \in Worker : WF_outboxVars(sys = "outbox" /\ Outbox!WorkerStep(w))
  /\ \A e \in WakeEvent : WF_outboxVars(sys = "outbox" /\ Outbox!Ripens(e))

Spec == Init /\ [][Next]_vars /\ Fairness

-----------------------------------------------------------------------------
(* The components' properties; each module states them with its code. *)

\* pool_lifecycle.rs: a wake attempt has one task or result, and no result is stale.
OneWake == Pool!OneWake
\* lib.rs shutdown: idle agents, and agents in a channel, are reaped and not dropped, but
\* for the one agent whose reaping the end of the grace period interrupts.
DroppedOnlyWhenCutOff == Pool!DroppedOnlyWhenCutOff
\* pool_lifecycle.rs: queued work gets a pool, however often building it failed.
WorkWakesPool == Pool!WorkWakesPool
\* lib.rs shutdown: it ends, even if a turn never does.
ShutdownEnds == Pool!ShutdownEnds

\* 0023_push_match_gate.sql: no event committed under an eligible lease lacks a job.
GateMissesNothing == Match!GateMissesNothing
\* push_runtime.rs matcher: a job is deleted only when every lease it owes a wake
\* has one in the outbox, perhaps from an earlier generation.
MatchedIsDurable == Match!MatchedIsDurable
\* push.rs claims: a job under a live claim is changed by its claimant alone.
ClaimIsExclusive == Match!ClaimIsExclusive
\* push_runtime.rs matcher: every job is removed in the end.
EveryJobLeaves == Match!EveryJobLeaves

\* push.rs outbox: a worker that comes back late cannot undo another's work.
LateWorkerHarmless == Outbox!LateWorkerHarmless
\* push_runtime.rs: a late "gone" answer does not disable the lease that replaced its own.
StaleAnswerIgnored == Outbox!StaleAnswerIgnored
\* push_runtime.rs workers: a wake that is of use and whose lease is in effect is delivered or
\* given up.
EveryWakeSettles == Outbox!EveryWakeSettles

\* cas_publish.rs: whatever the pointer has named can be cloned.
PublishedIsReadable == Publish!PublishedIsReadable
\* cas_publish.rs and finalize_push: acknowledged pushes form one chain.
AckedIsKept == Publish!AckedIsKept
\* resolve_published_head: the head of a repository with branches is one of them.
HeadIsPublished == Publish!HeadIsPublished

\* handle_git_repo_announcement: an announced repository has a pointer.
AnnouncedIsCloneable == Announcing!AnnouncedIsCloneable
\* ensure_manifest_pointer: announcing again does not reset the repository.
AnnounceKeepsPushes == Announcing!AnnounceKeepsPushes

\* buzz-workflow run: no two runs for one scheduled instant.
OneRunPerInstant == Schedule!OneRunPerInstant
\* interval_prefilter_should_fire: an enabled interval workflow does not fall silent.
IntervalKeepsFiring == Schedule!IntervalKeepsFiring

=============================================================================
