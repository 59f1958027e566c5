----------------------------- MODULE PushMatch -----------------------------
(***************************************************************************)
(* Push notifications, first half: from an accepted event to durable wake  *)
(* jobs (crates/buzz-db/src/push.rs, crates/buzz-relay/src/push_runtime.rs *)
(* and the trigger of migrations/0023_push_match_gate.sql).                *)
(*                                                                         *)
(* A device holds a lease; an event inserted while some lease is eligible  *)
(* gets a match job in the same transaction (the gate).  Matchers of any   *)
(* number of relay processes claim jobs under a fencing token, load the    *)
(* leases, write a wake per matching lease into the outbox and delete the  *)
(* jobs.  One community; every lease has an endpoint of its own and        *)
(* matches every event, that is, its filters let the event pass and the    *)
(* event is matched within EVENT_USEFUL_SECS.                              *)
(***************************************************************************)
EXTENDS Naturals, FiniteSets, FiniteSetsExt

CONSTANTS
  Inst,             \* installations: lease addresses of one author
  Event,            \* events of the allowlisted kinds
  Matcher,          \* run_matcher tasks of the relay processes
  Nobody,           \* no claim
  Crashed,          \* the claim of a matcher that is gone
  MaxGen,           \* bound on the accepted lease events
  MaxTries,         \* MAX_MATCH_ATTEMPTS
  MaxErrors         \* bound on database errors and crashes

VARIABLES
  lease,   \* push_leases
  ev,      \* events: their transaction, then the row
  act,     \* the transaction that activates a lease, if one is open
  job,     \* push_match_queue
  mt,      \* the matchers
  outbox,  \* push_wake_outbox: the generation of a wake, 0 for no row
  errors

vars == <<lease, ev, act, job, mt, outbox, errors>>

NoLease == [gen |-> 0, st |-> "off"]
NoAct == [inst |-> Nobody, gen |-> 0]
NoJob == [st |-> "none", tries |-> 0, claim |-> Nobody, ripe |-> FALSE]
Idle == [pc |-> "idle", jobs |-> {}, ctx |-> {}, done |-> {}]

Init ==
  /\ lease = [i \in Inst |-> NoLease] /\ act = NoAct
  /\ ev = [e \in Event |-> "none"] /\ job = [e \in Event |-> NoJob]
  /\ mt = [m \in Matcher |-> Idle]
  /\ outbox = [r \in Inst \X Event |-> 0]
  /\ errors = 0

Error == errors < MaxErrors /\ errors' = errors + 1
Eligible(i) == lease[i].st = "on"
Stored(e) == ev[e] \in {"recent", "old"}
JobsOf(S) == [e \in Event |-> IF e \in S /\ job[e].st = "none"
                              THEN [NoJob EXCEPT !.st = "pending", !.ripe = TRUE] ELSE job[e]]

-----------------------------------------------------------------------------
(* The gate: an advisory lock, shared by inserts, exclusive for activations *)

\* Mutant of GateShared: the trigger looks at the leases without the lock.
GateIgnored == TRUE

GateShared == act = NoAct
GateExclusive == act = NoAct /\ \A e \in Event : ev[e] \notin {"skips", "enqueues"}

\* The insert of an event runs the trigger; both become visible at the commit.
InsertEvent(e) ==
  /\ ev[e] = "none" /\ GateShared
  /\ ev' = [ev EXCEPT ![e] = IF \E i \in Inst : Eligible(i) THEN "enqueues" ELSE "skips"]
  /\ UNCHANGED <<lease, act, job, mt, outbox, errors>>

CommitEvent(e) ==
  /\ ev[e] \in {"skips", "enqueues"}
  /\ ev' = [ev EXCEPT ![e] = "recent"]
  /\ job' = IF ev[e] = "enqueues" THEN JobsOf({e}) ELSE job
  /\ UNCHANGED <<lease, act, mt, outbox, errors>>

DeleteEvent(e) == /\ Stored(e) /\ ev' = [ev EXCEPT ![e] = "deleted"]
                  /\ UNCHANGED <<lease, act, job, mt, outbox, errors>>

\* The event leaves the backfill's window.
EventAges(e) == /\ ev[e] = "recent" /\ ev' = [ev EXCEPT ![e] = "old"]
                /\ UNCHANGED <<lease, act, job, mt, outbox, errors>>

-----------------------------------------------------------------------------
(* accept_lease_event *)

\* A lease event is refused unless it wins the ordering of events and that of
\* generations, and while the author's quota or another lease of the endpoint
\* stands against it; a refusal is rolled back, so only acceptances are steps.
\* Generations are only compared: the next one stands for every higher one.
Wins(i, gen) == /\ gen = lease[i].gen + 1
                /\ MapThenSumSet(LAMBDA j : lease[j].gen, Inst) < MaxGen

ActivateBegins(i, gen) ==
  /\ GateExclusive /\ Wins(i, gen)
  /\ act' = [inst |-> i, gen |-> gen]
  /\ UNCHANGED <<lease, ev, job, mt, outbox, errors>>

\* The lease takes effect together with the backfill: recent events without a
\* job get one.
ActivateCommits ==
  /\ act # NoAct
  /\ lease' = [lease EXCEPT ![act.inst] = [gen |-> act.gen, st |-> "on"]]
  /\ job' = JobsOf({e \in Event : ev[e] = "recent"})
  /\ act' = NoAct /\ UNCHANGED <<ev, mt, outbox, errors>>

\* An inactive replacement makes nothing eligible and does not take the gate;
\* the author's lock keeps it apart from an activation.
Revoke(i, gen) ==
  /\ act = NoAct /\ Wins(i, gen)
  /\ lease' = [lease EXCEPT ![i] = [gen |-> gen, st |-> "off"]]
  /\ UNCHANGED <<ev, act, job, mt, outbox, errors>>

\* expires_at passes; the delivery worker reports a dead endpoint.
LeaseExpires(i) == /\ lease[i].st \in {"on", "disabled"}
                   /\ lease' = [lease EXCEPT ![i].st = "expired"]
                   /\ UNCHANGED <<ev, act, job, mt, outbox, errors>>
DisableEndpoint(i) == /\ Eligible(i) /\ lease' = [lease EXCEPT ![i].st = "disabled"]
                      /\ UNCHANGED <<ev, act, job, mt, outbox, errors>>

-----------------------------------------------------------------------------
(* run_matcher *)

\* Time: a retry falls due, or the claim on a job lapses.
Ripens(e) == /\ job[e].st # "none" /\ ~job[e].ripe
             /\ job' = [job EXCEPT ![e].ripe = TRUE]
             /\ UNCHANGED <<lease, ev, act, mt, outbox, errors>>

Claimable(e) == job[e].st # "none" /\ job[e].ripe /\ job[e].tries < MaxTries

\* claim_due_match_batch: the due jobs are claimed, those of deleted events
\* finished at once; if the events cannot be loaded the claim is left behind.
ClaimBatch(m, loaded) ==
  /\ mt[m].pc = "idle"
  /\ LET batch == {e \in Event : Claimable(e)}
         gone  == {e \in batch : ~Stored(e)}
     IN /\ batch # {}
        /\ job' = [e \in Event |->
             CASE e \in batch /\ (e \notin gone \/ ~loaded) ->
                    [st |-> "matching", tries |-> job[e].tries + 1, claim |-> m, ripe |-> FALSE]
               [] e \in gone /\ loaded -> NoJob
               [] OTHER -> job[e]]
        /\ mt' = IF loaded /\ batch # gone
                 THEN [mt EXCEPT ![m].pc = "load",
                                 ![m].jobs = {<<e, job[e].tries + 1>> : e \in batch \ gone}]
                 ELSE mt
  /\ IF loaded THEN UNCHANGED errors ELSE Error
  /\ UNCHANGED <<lease, ev, act, outbox>>

Mine(m) == {x[1] : x \in mt[m].jobs}

\* Mutant of Fenced: any claim on the job will do.
FencedByState(m, S) == {e \in S : job[e].st = "matching"}

\* The rows of a statement that names the claim it was made under.
Fenced(m, S) == {e \in S : job[e].st = "matching" /\ job[e].claim = m}

Released(S) == [e \in Event |-> IF e \in S
                                THEN [job[e] EXCEPT !.st = "pending", !.claim = Nobody, !.ripe = FALSE]
                                ELSE job[e]]

LoadContext(m) ==
  /\ mt[m].pc = "load"
  /\ mt' = [mt EXCEPT ![m].pc = "flush", ![m].ctx = {<<i, lease[i].gen>> : i \in {j \in Inst : Eligible(j)}}]
  /\ UNCHANGED <<lease, ev, act, job, outbox, errors>>

\* Without a context the whole batch is released for a retry, unless that
\* statement fails as well.
LoadFails(m) ==
  /\ mt[m].pc = "load" /\ Error
  /\ job' \in {Released(Fenced(m, Mine(m))), job} /\ mt' = [mt EXCEPT ![m] = Idle]
  /\ UNCHANGED <<lease, ev, act, outbox>>

\* Mutant of DoneAfter: a failed enqueue does not keep the jobs.
DoneAfterAnyFlush(m, failed) == Mine(m)

\* Which jobs are finished: a failed one only when its tries are used up.
DoneAfter(m, failed) == {x[1] : x \in {y \in mt[m].jobs : y[1] \notin failed \/ y[2] >= MaxTries}}

\* enqueue_wakes in one transaction: each request is checked against its lease
\* again, and the dedup key keeps the first wake.  The jobs in `bad` could not
\* be evaluated; if the transaction fails, so do all that owe a wake.
Flush(m, bad, ok) ==
  /\ mt[m].pc = "flush" /\ bad \subseteq Mine(m)
  /\ LET good == Mine(m) \ bad
         failed == bad \cup IF ok \/ mt[m].ctx = {} THEN {} ELSE good
     IN /\ outbox' = [r \in Inst \X Event |->
             IF ok /\ r[2] \in good /\ outbox[r] = 0
                   /\ <<r[1], lease[r[1]].gen>> \in mt[m].ctx /\ Eligible(r[1])
             THEN lease[r[1]].gen ELSE outbox[r]]
        /\ mt' = [mt EXCEPT ![m].pc = "complete", ![m].done = DoneAfter(m, failed)]
  /\ IF ok /\ bad = {} THEN UNCHANGED errors ELSE Error
  /\ UNCHANGED <<lease, ev, act, job>>

\* complete_match_batch, then retry_match_batch; either may fail and leave
\* its jobs to the lapse of the claim.
Complete(m, ok) ==
  /\ mt[m].pc = "complete" /\ mt' = [mt EXCEPT ![m].pc = "retry", ![m].ctx = {}]
  /\ job' = [e \in Event |-> IF ok /\ e \in Fenced(m, mt[m].done) THEN NoJob ELSE job[e]]
  /\ IF ok THEN UNCHANGED errors ELSE Error
  /\ UNCHANGED <<lease, ev, act, outbox>>

Retry(m, ok) ==
  /\ mt[m].pc = "retry" /\ mt' = [mt EXCEPT ![m] = Idle]
  /\ job' = IF ok THEN Released(Fenced(m, Mine(m) \ mt[m].done)) ELSE job
  /\ IF ok THEN UNCHANGED errors ELSE Error
  /\ UNCHANGED <<lease, ev, act, outbox>>

\* A relay process dies and is restarted: its claims carry a token nobody has.
Crash(m) ==
  /\ mt[m].pc # "idle" /\ Error
  /\ mt' = [mt EXCEPT ![m] = Idle]
  /\ job' = [e \in Event |-> IF job[e].claim = m THEN [job[e] EXCEPT !.claim = Crashed] ELSE job[e]]
  /\ UNCHANGED <<lease, ev, act, outbox>>

\* Mutant of Exhausted: only released jobs are swept.
ExhaustedPending(e) == job[e].tries >= MaxTries /\ job[e].st = "pending"

Exhausted(e) == job[e].tries >= MaxTries /\ (job[e].st = "pending" \/ (job[e].st = "matching" /\ job[e].ripe))

\* reap_exhausted_matches, run by every matcher between two batches.
Reap == /\ \E m \in Matcher : mt[m].pc = "idle"
        /\ \E e \in Event : Exhausted(e)
        /\ job' = [e \in Event |-> IF Exhausted(e) THEN NoJob ELSE job[e]]
        /\ UNCHANGED <<lease, ev, act, mt, outbox, errors>>

MatcherStep(m) ==
  \/ \E ok \in BOOLEAN : ClaimBatch(m, ok) \/ Complete(m, ok) \/ Retry(m, ok)
                         \/ \E bad \in SUBSET Event : Flush(m, bad, ok)
  \/ LoadContext(m) \/ LoadFails(m)

LeaseStep(i) == \/ \E gen \in 1..MaxGen : ActivateBegins(i, gen) \/ Revoke(i, gen)
                \/ LeaseExpires(i) \/ DisableEndpoint(i)

Next ==
  \/ \E e \in Event : InsertEvent(e) \/ CommitEvent(e) \/ DeleteEvent(e) \/ EventAges(e) \/ Ripens(e)
  \/ \E i \in Inst : LeaseStep(i)
  \/ ActivateCommits \/ Reap
  \/ \E m \in Matcher : MatcherStep(m) \/ Crash(m)

Spec == Init /\ [][Next]_vars

-----------------------------------------------------------------------------
(* Properties *)

\* An event committed while a lease was in effect was given a match job, in
\* every interleaving of the insert with an activation (migration 0023: the
\* event's check sees the lease, or the activation follows its commit).
GateMissesNothing ==
  [][\A e \in Event : ~Stored(e) /\ Stored(e)' /\ (\E i \in Inst : Eligible(i))
       => job'[e].st # "none"]_vars

\* The step in which m deletes the job of e, before its tries are used up.
Deletes(m, e) ==
  /\ mt[m].pc = "complete" /\ mt'[m].pc = "retry"
  /\ job[e].claim = m /\ job[e].tries < MaxTries /\ job'[e].st = "none"

\* A job is deleted only when every lease its matcher loaded, and that is still
\* the same lease, has a wake for the event in the outbox.  It need not be of this
\* generation: the key of the outbox has none, so that a wake written under an earlier
\* one stays (ON CONFLICT DO NOTHING).
MatchedIsDurable ==
  [][\A m \in Matcher, e \in Event : Deletes(m, e) =>
       \A i \in Inst : Eligible(i) /\ <<i, lease[i].gen>> \in mt[m].ctx => outbox[<<i, e>>] # 0]_vars

\* While a matcher's claim has not lapsed, nobody else changes the job.
ClaimIsExclusive ==
  [][\A m \in Matcher, e \in Event :
       job[e].st = "matching" /\ job[e].claim = m /\ ~job[e].ripe /\ job'[e] # job[e]
         /\ ~job'[e].ripe
       => mt'[m] # mt[m]]_vars

\* Fairness: the relay keeps matchers running and clocks advance.
Fairness ==
  /\ \A m \in Matcher : WF_vars(MatcherStep(m))
  /\ \A e \in Event : WF_vars(Ripens(e))
  /\ WF_vars(Reap)

FairSpec == Spec /\ Fairness

\* Every match job is in the end removed, whatever crashes and errors hit it.
EveryJobLeaves == \A e \in Event : job[e].st # "none" ~> job[e].st = "none"

\* push.rs on the backfill: an event that is recent when a lease takes effect is
\* matched against that lease.  Its job must not be deleted before.
BackfillReaches ==
  [][\A m \in Matcher, e \in Event : Deletes(m, e) =>
       \A i \in Inst : Eligible(i) /\ ev[e] = "recent" => outbox[<<i, e>>] # 0]_vars

=============================================================================
