# Formal models of hyperbuzz

TLA+ models of the parts of hyperbuzz whose correctness depends on the order of
events: what is modelled, which questions TLC answers about it on small
instances, and what TLAPS proves for every instance. Paths are relative to the
repository's root; `acp/` abbreviates `crates/buzz-acp/src/`.

## 1. The system

Hyperbuzz is a chat system for people and agents built on a Nostr relay. A
relay process stores signed events and fans them out to subscribed connections;
agents join channels like people do, each through a *harness* (`buzz-acp`) that
turns channel events into prompts for agent processes it supervises over the
Agent Client Protocol; desktop, mobile and web clients are user interfaces on
the same events.

| Part | State it keeps | Operations | Where it is hard |
|---|---|---|---|
| ACP event queue (`acp/queue.rs`) | per-channel queues, in-flight marks and deadlines, backoffs and retry counters, cancelled batches, withheld steer events | push, flush_next, mark_complete, the three requeues, the native-steer calls, drain_channel, compaction | a dozen stores that must agree; expiry of a deadline under a running turn; bulk returns at the cap |
| ACP agent pool and prompt tasks (`acp/pool.rs`) | agents by slot, their sessions, the tasks that have checked agents out, control and steer senders | try_claim, return_agent, send_steer, run_prompt_task, session invalidation | tasks report through channels and may panic; control signals can be sent once per turn |
| ACP read loop (`acp/acp.rs`) | the pending steer, idle and hard deadlines | a turn's answer, timeouts, cancel with a drain window, the steer write and its response | a steer answered, unanswered or unread when the turn ends |
| ACP main loop (`acp/lib.rs`) | the heartbeat flag, removed channels, a breaker per slot, respawn jobs | one arm per source of events, dispatch_pending, result, panic and ack handling, maintenance | a biased select over seven sources; handlers that leave work to the next iteration |
| ACP lazy pool and shutdown (`acp/pool_lifecycle.rs`, `acp/lib.rs`) | wake attempt and retry time, wake tasks, every agent process and who owns it | start and complete a wake, build a pool slot by slot, the shutdown sequence | a stale attempt's result; a pool, a result or a respawned agent that arrives while the harness ends |
| ACP relay client (`acp/relay.rs`) | subscriptions, last-seen times, de-duplication sets | connect, resubscribe, deliver | reconnects and replays, newest first |
| Relay subscriptions and connections (`buzz-relay/src/subscription.rs`, `connection.rs`, `handlers/`) | registry and its indexes, per-connection queues | REQ, CLOSE, EVENT, disconnect | an index that disagrees with the registry; slow readers |
| Relay git store (`buzz-relay/src/api/git/`, `handlers/side_effects.rs`, `buzz-db/src/git_repo.rs`) | packs, manifests and a pointer per repository in an object store; reserved names in Postgres | announce, hydrate, receive-pack, compact, publish by compare-and-swap | concurrent pushes without a lock, lost answers, a crash between upload and publish, two announcements of one name |
| Push delivery (`buzz-relay/src/push_runtime.rs`, `buzz-db/src/push.rs`, migrations 0018 and 0023, `buzz-push-gateway`) | leases, match jobs, outbox rows, claims | the gate of the insert trigger, activation and backfill, match, claim, deliver, retry, reap | an insert racing an activation; claims that lapse under a slow worker; answers about a lease that has been replaced |
| Workflow engine (`buzz-workflow`, `buzz-db/src/workflow.rs`) | claimed instants, runs, steps, approvals; per pod the last firing | schedule, trigger, execute, suspend, resume | pods that find the same instant due; a crash between claim and run; approval racing expiry |
| Relay mesh (`buzz-relay-mesh`, `buzz-relay/src/tunnel`) | membership records, peers, tunnel directory | gossip, merge, evict | reordered and stale records |
| Audit log (`buzz-audit`) | hash chain per tenant | append, verify | concurrent appends |
| Pairing (`buzz-pair-relay`, `buzz-core/src/pairing`) | a session's state | offer, confirm, transfer | timeouts and aborts in every state |
| Database, pub/sub, auth, media, search | rows, Redis keys, objects | queries | mostly SQL and I/O |
| Clients, CLIs, SDK, test code | — | — | user interfaces and request-response tools |

The harness is modelled first: it is the part with the most concurrent state
that lives only in memory, where a lost or doubled event is visible to users
and hardly reachable by a unit test. Then come the parts of the relay in which
several processes work on shared rows or objects without a common lock: push
delivery, the git store, and the workflow scheduler.

### How the harness's parts interact

The main loop is a single task. It owns the queue, the pool's idle agents, the
breakers and the flags, and it is the only one to change them. A prompt task
owns the agent it was given until it sends a `PromptResult`, a respawn job
sends a `RespawnResult`, and a steer watcher forwards the oneshot of one
native-steer attempt. So every interleaving is one of (i) steps of tasks, jobs
and read loops, (ii) whole handlers of the main loop, in the order their
messages are picked.

What makes it correct:

- every received event that is kept is in exactly one place, and is in the end
  processed, dead-lettered or discarded on purpose;
- a channel has at most one turn, and a mark that says "busy" always has a task
  and a deadline that will clear it;
- a failing batch is retried with backoff, a bounded number of times;
- a cancelled turn's events come back merged with what cancelled it;
- an agent is in exactly one place, a crashing one is respawned no faster than
  its breaker allows, and the harness gives up only when nothing can come back;
- queued work gets a pool, and at the end every agent process is reaped unless
  what works on it, a task or its own reaping, had to be cut off.

### How the relay's parts interact

Push delivery is a chain of durable queues. The insert of an event runs a
trigger that adds a match job if some lease is eligible; an advisory lock,
shared by inserts and exclusive for activations, orders the two. A matcher
claims jobs under a random claim id that lapses, loads the leases, writes wakes
to the outbox in one transaction and deletes the jobs. A delivery worker claims
wakes the same way, checks each against its lease before and after a membership
check, calls the gateway, and records the outcome under its claim id. Correct
means: no event committed under a lease is without a job; nobody acts under a
claim that is not theirs; a job goes only when its wakes are durable; every job
and every wake comes to an end.

A git push reads the pointer, works on a private copy, uploads content-addressed
packs and a manifest, and swings the pointer only if it has not moved. The
announcement of a repository reserves its name in Postgres and seeds the pointer
in the store: two systems, no transaction over both. Correct means: whatever the
pointer names can be cloned, acknowledged pushes are a chain, and an announced
repository has a pointer that announcing again does not reset.

The workflow scheduler runs on every pod. A claim row per workflow and instant
decides which pod creates the run. Correct means: one run per instant, and a
schedule that keeps firing.

## 2. Modules

| Module | Models |
|---|---|
| `EventQueueOps` | the methods of `EventQueue` as operators on a record |
| `EventQueue` | the queue under an arbitrary owner: one action per group of calls the main loop makes without yielding. It is the abstract specification of how the harness may use the queue |
| `SlotCircuit` | the breaker of one agent slot, as operators |
| `AcpHarness` | the main loop, the pool, the prompt tasks with their read loops, steer attempts and respawn jobs, over `EventQueueOps` and `SlotCircuit`; shown to implement `EventQueue` |
| `PoolLifecycle` | the lazy pool: wake attempts, the task that builds a pool, turns and respawns as owners of agent processes, and the shutdown sequence |
| `PushMatch` | events, leases, the gate and the backfill, match jobs and matchers |
| `PushOutbox` | wakes, delivery workers, the gateway's answers |
| `GitPublish` | pushes to one repository: packs, manifests, the pointer |
| `GitAnnounce` | announcements of one repository name: the reserved row and the pointers |
| `WorkflowSchedule` | the schedule loop of several pods, for one cron or interval workflow |
| `Services` | the six modules above side by side. They share no state, so a behaviour is a behaviour of one of them: the variable `sys` says which. It states their properties and what is assumed of their constants |
| `MCEventQueue`, `MCAcpHarness`, `MCServices` | sets, symmetry, author timestamps and histories for TLC |
| `MCRetryBudget` | `MCAcpHarness` with a history variable that counts an event's failed turns |
| `EventQueueProofs` | the invariants of `EventQueue` that hold even when turns overrun their deadline: its stores agree, an event is in one place, a withheld one is watched |
| `EventQueueTurnProofs` | the ones that need turns to end in time |
| `AcpHarnessProofs` | the invariants of `AcpHarness`, and that it implements `EventQueue` |
| `PoolLifecycleProofs`, `PushMatchProofs`, `GitPublishProofs`, `WorkflowScheduleProofs` | the safety of these components, each on its own |
| `ServicesProofs` | the same results for `Services`, where the runs check them, and the safety of `GitAnnounce` and `PushOutbox` |

### State and code

`EventQueueOps`. The record `eq` has one field per field of the Rust struct.
Events are numbered in order of arrival, so a number stands for the event and
for its `received_at`; `CreatedAt` is the author's timestamp, which a relay's
replay delivers newest first (`NewestFirst` in the MC modules). Clocks are
reduced to what the code asks of them: `throttled` is the set of channels whose
`retry_after` lies ahead, `overdue` the set whose in-flight deadline has
passed; `ThrottleEnds` and `DeadlinePasses` are time. `HashMap` iteration order,
which decides between channels with equal claims, is nondeterminism. A batch
carries the cancelled events merged into it separately, as `FlushBatch` does,
because the requeue methods treat them differently. `in_flight_batch_sizes`
only feeds log lines and is left out, as are the jitter and length of a backoff.

`AcpHarness`. `task[i]` is the task that has slot i's agent checked out, from
`dispatch_pending` until its result or panic is handled; its phase is the part
of `run_prompt_task` it is in. Outcomes that the main loop treats alike are one
outcome: "crashed" for an agent's exit, an idle timeout, a hard timeout with
recent activity and transport errors; "hard_silent" for a hard timeout whose
batch is dead-lettered at once; "error" for application errors, after which the
agent goes back to the pool. `ctl` is the control sender, which a turn's first
signal consumes. A steer attempt is "queued" in the task's capacity-one
channel, "pending" once written to the agent, then "success", "fallback" (send
the cancel+merge signal instead) or "neutral" (just release the event). `loop`
says where the main loop is: at the top of an iteration, where maintenance may
be due; collecting respawn results; asleep in `select`; draining ready panics
after a result; in an iteration of one of the three calls of
`dispatch_pending`; or exited. `faults` and `controls` are bounds, not state of
the program. The pool starts with any non-empty set of its slots filled, as
`initialize_agent_pool` allows.

A handler is one action because the main loop does not yield inside it. The
iterations of `dispatch_pending` are separate steps only so that each uses the
queue once; the main loop does nothing else in between, although tasks do run.

`PoolLifecycle`. A process is in one place: with a wake task, in a pool waiting
in the wake channel, idle in a slot, in a turn, in a result on its way, at
shutdown being reaped (`ResultTaken` to `ResultReaped`, inside the grace period,
one at a time), with a respawn task (the old one to be reaped, the new one to be initialised), in a
respawn result, or gone, either *reaped* by `AcpClient::shutdown` or *dropped*,
that is, left to a destructor that may leave a zombie. The queue is one Boolean,
whether there is flushable work; every handler that ends in `dispatch_pending`
ends in `DispatchPending` here, which moves idle agents into turns until agents
or work run out. `phase` follows the code after the main loop statement by
statement. The circuit breakers, whose module is `SlotCircuit`, are a choice
between their two answers. The module is about a lazy pool; an eager one starts
where a wake has succeeded.

`PushMatch`. A transaction that others can observe half-done is two actions
(`InsertEvent` and `CommitEvent`, `ActivateBegins` and `ActivateCommits`); one
whose effects appear at once is one. A lease is its generation and whether it is
in effect. A job's `claim` stands for the random `claim_id`: a matcher uses a
new one for each batch, so its own name suffices until it crashes, when the
claim is `Crashed`, which nobody holds. `ripe` is time: `next_attempt_at` or
`lease_until` is past. Every lease matches every event: which filters match, and
whether the event is still of use when it is matched (`match_job` skips the lease
otherwise), is data the protocol does not depend on.

`PushOutbox`. One installation. A wake expires with its lease (`LeaseExpires`) or
an hour after its event (`WakeExpires`); then it is neither claimed nor sent, and
unless a worker has it, it stays as it is until it is pruned. `NotSent` is a
request that cannot be signed. The other return before the request, for a relay
without a gateway URL, has no action: `main.rs` starts the delivery worker only
with one. `Stalls` is a claim that lapses while its worker
is still in the batch, the case the fences are for; it is bounded with the
errors. The attempt counter saturates at `MAX_ATTEMPTS` because the code only
compares it with that and with 1.

`GitPublish`. A pack is the set of commits in it and `Reach` the history, so a
delta, a compaction and what a manifest needs are set operations. Keys are
digests of content: an object is its own name, and storing one twice changes
nothing. The pointer's ETag is a digest of its body, so comparing ETags is
comparing manifests, and `AckedIsKept` includes that a manifest is never named
twice, without which that comparison would be unsound. `ReceivePack` lets git
set any branches to any commits or delete them, at most `MaxUpdates` in one push.

`GitAnnounce`. Each statement and each call to the store is a step, and so is
the failure of each. A push by the owner may happen as soon as an announcement
is stored, which is before its handler runs.

`WorkflowSchedule`. Time is an integer clock that all pods read; `Period` is
the sleep and the cron window of 60 s, `Drift` bounds how late a wake-up or the
end of a tick's work is. `last_fired` is memory and lost in a restart; claims
and runs are rows. `steady` is a history variable for one property.

## 3. Runs

Passing runs:

| Run | Question | Instance |
|---|---|---|
| `queue_overrun` | do the queue's stores agree in every order of calls, even when turns outlive their deadline? | 2 channels, 3 events, cap 2, batch 2, 2 retries |
| `queue_ontime` | what does the queue add if turns end in time? | 4 events, otherwise the same |
| `harness_steer` | does the harness use the queue only as `EventQueue` allows, in steer mode with failures, panics, respawns and membership changes? are steers always answered? | 1 agent, 2 channels, 3 events, 1 fault, 1 command or removal |
| `harness_pool` | do slots, breakers and the exit test agree? | 2 agents or a partial pool, owner-interrupt mode, 2 events, 3 faults with a breaker threshold of 2 |
| `harness_overrun` | the same refinement with two agents, where a channel whose task overruns can get a second one; is an overrun the only way to that? | 2 agents, initial messages, 2 events, 1 fault |
| `harness_live` | is every kept event settled, every channel freed, every slot refilled? | 1 agent, steer mode, 2 events, 2 faults, fair |
| `services` | for each of the six components: do crashes, errors, lapses and interleavings break what it promises? | see below |

Instances of `services` (module `MCServices`, which extends `Services`): a pool of 2 slots, 6 processes, 2 faults; 1
installation with 2 lease generations, 1 event, 2 matchers, 2 tries, 1 error;
1 wake, 2 workers, 2 generations, 2 attempts, 2 errors; 2 pushes at once out of
3, 2 commits, 2 branches of which a push changes one, at most 2 packs with compaction from 2, 1 error;
3 announcements, two of them by one owner, 2 errors; 2 pods, a clock up to 13
with a period of 1, a drift of 1 and an interval of 3, 2 faults. Together about
530,000 states.

| Property of `services` | What it says |
|---|---|
| `OneWake` | a wake attempt has exactly one task or result, so no result is stale |
| `DroppedOnlyWhenCutOff` | a process is left to its destructor only if its task panicked or was aborted, it crashed behind an open breaker, or it is the one agent being reaped when the grace period ends |
| `WorkWakesPool`, `ShutdownEnds` | queued work gets a pool however often building it failed; shutdown ends even if a turn never does |
| `GateMissesNothing` | no event committed under an eligible lease lacks a match job |
| `ClaimIsExclusive`, `MatchedIsDurable`, `EveryJobLeaves` | a live claim is its matcher's alone; a job is deleted only when every lease it owes a wake has one for the event in the outbox, of this or an earlier generation; every job is removed in the end |
| `LateWorkerHarmless`, `StaleAnswerIgnored`, `EveryWakeSettles` | a late worker changes nothing that is not its own; a late "gone" does not disable the next lease; a wake that has not expired and whose lease stays in effect is delivered or given up |
| `PublishedIsReadable`, `AckedIsKept`, `HeadIsPublished` | what the pointer has named can be cloned, is one chain that contains every acknowledged push, and has a head that exists |
| `AnnouncedIsCloneable`, `AnnounceKeepsPushes` | an announced repository has a pointer; no announcement empties one |
| `OneRunPerInstant`, `IntervalKeepsFiring` | pods never create two runs for an instant; an interval workflow does not fall silent |

The bounds reach the interesting cases: two events fill a queue to its cap, so
evictions and trims happen; three let one be running, one withheld and one
queued; two retries reach the second backoff and the dead letter; a threshold
of two opens a breaker, and one more fault fails the respawn after it or the
probe. Two channels show one channel's calls leaving the other alone and give
fairness between channels a choice to make. In `services`, one fault fails a
wake and another one its retry, a turn or a respawn; one event is enough for
the push queues because their statements treat rows independently, and two
generations make every stale snapshot possible; two errors allow a lapse and
the loss of the answer that follows it; a third push starts while the first two
conflict or compacts what they left; two faults let a workflow be disabled and
enabled again, or a restart meet a failed statement, and the clock runs past
the longest silence `IntervalKeepsFiring` allows after a claim or a fault that
happens by time 4, which is when the first claim can be won.

Runs that expect a violation, each a disagreement between the code and what it
says of itself:

| Run | What TLC finds |
|---|---|
| `cancelled_lost` | A turn is interrupted, its cancel times out, its agent is respawned; the dispatch at the end of the same handler flushes the interrupting event with the cancelled one merged in, finds no agent, and `requeue_preserve_timestamps` puts back only the former. The cancelled event is lost. |
| `retry_budget` | A batch in backoff whose throttle ends while all agents are busy is flushed and put back; the `mark_complete` that follows takes the ended throttle for a success and resets the retry counter. The batch is retried without bound. |
| `backfill_race` | A device renews its lease while a matcher works on a recent event with the old generation. The backfill finds the event's job still there and adds none; the matcher's request is refused as inactive and the job is deleted. Nobody wakes the device. |
| `wake_unsent` | The claim on a wake lapses while its worker is slow to get to it. The check before the request then answers like for a revoked lease, and the worker fails the wake for good: the fence of `fail_wake` is the claim id alone, which is still in the row, and no other worker gets a chance to recover the wake. |
| `cron_missed` | A tick works for a moment, so the next one is more than a period later; an instant just after the first tick is older than the window of the second, and no tick fires it. |

Three more things that the models show, without a run
of their own: with `Timers = FALSE` (no heartbeat, the default, and
`--no-presence`, `--no-typing`) `EveryEventSettles` fails, since maintenance and
the collection of respawned agents have no arm in the `select`; after
an overrun a channel has two tasks at once, although the queue's comments and
the README of `buzz-acp` ("Each channel has at most one prompt in flight") allow
one: the in-flight deadline runs from the flush and leaves a buffer of 100 s,
the hard timeout's clock starts with the prompt, after context fetches and the
requests that set up a session (up to 90 s for `session/new` alone), and an
initial message is a turn of its own; and in `GitAnnounce` an announcement
whose seed fails releases the name although another one of the same owner has
succeeded with it in between, after which another owner can take the name.

### Fairness

`FairSpec` assumes weak fairness of what runs by itself: a prompt task ends
every await, since each has a timeout; a respawn job ends; a throttle and a
cooldown run out; the loop leaves its top and goes on with a drain or dispatch
it has begun; a timer that is configured fires. It assumes strong fairness of
the arms for results, panics and steer acks, which are disabled while another
arm's handler runs and come first in the biased `select`, and of maintenance,
whose interval elapses again and again between visits to the top. No fairness
is assumed of arrivals, owner commands, membership changes, heartbeats,
deadlines or of an agent's answer to a steer. `Timers` says whether any of the
heartbeat, presence and typing intervals is on; presence and typing are on by
default, and on in `harness_live`.

In `services` weak fairness is assumed of the main loop's wake arms and of the
code after the loop, of a wake task (its handshakes have a timeout), of the
retry delay and the grace periods, of each matcher and each delivery worker
(endless loops that the relay supervises), of the reaper, and of time: a retry
falls due and a claim nobody works under lapses. None is assumed of arrivals,
lease changes, turns, answers of a particular kind, or faults. `GitPublish`,
`GitAnnounce` and `WorkflowSchedule` have only safety properties;
`IntervalKeepsFiring` bounds the time without a firing instead.

## 4. Proofs

Every invariant and every action property that a passing run checks has a
theorem, for every value of the constants that the assumptions allow; the bounds
of section 3 are arbitrary there. Only liveness is left to TLC (end of this
section).

### The event queue

`EventQueueProofs` and `EventQueueTurnProofs` are about `EventQueue` with any
sets of channels and events, any limits (`LimitAssumption`: cap and batch size
positive), either dedup mode and any timestamps.

The invariants of a single queue (marks have deadlines, queues are within their
cap, counters match throttles, reasons match batches) are gathered in a
predicate `Sound` on the queue record. Handlers compose several methods in one
step and the invariants are not all true between them for arbitrary arguments,
so each method gets two lemmas: it keeps the record's type, and it keeps
`Sound`. `Inv` adds what ties the queue to its tasks: a channel in flight has a
held batch, and a held batch is not empty. The latter is what makes
`RequeueAsCancelled` keep the reasons matched: a cancelled empty batch would
leave a reason without events. `FlushNextEffect` says what a flush takes and
marks; `StableSortsType` that the sort of a batch is a permutation of the same
length. `Invariance` is `Spec => []Inv`.

`OnePlace` is not kept by a method on its own: a requeue adds to a store what a
task gives up in the same step, and it says nothing of an event that is yet to
arrive. `PlaceInv` restates it store by store (`Distinct`: the stores of a
channel hold no event twice, and neither two channels, nor two batches, nor a
store and a batch share one), and adds `Fresh`, that all of them have arrived,
so that the next arrival is new to every store, and `WithheldIsWatched`. Each
method gets a lemma that says what it does to the set of events a channel
stores. `EventsInOnePlace` and `WithheldEventsWatched` follow, with no
assumption on deadlines.

`OneTurnPerChannel`, `BackoffRespected` and `SteeredIsNotDispatched` need
`MayOverrun = FALSE`, and the theorems say so. It is a hypothesis: the buffer of
100 s in the in-flight deadline is meant to make it true, but nothing enforces it
(section 3), so `AcpHarness` lets any task overrun. The first needs
marks to last as long as batches (`BatchIsMarked`), hence no overdue channel.
The second is not obvious from the code, because the fallback of `flush_next`
never looks at `retry_after`: it holds because a throttled channel has no
cancelled batch (`Quiet`), which holds because a throttle starts only when a turn
ends, a flush takes the channel's cancelled batch along, and while the turn runs
nothing can store another. The third adds to both invariants that the event of
an attempt is out of reach of `flush_next` and that no two attempts are about
one event (`Aside`).

### The harness

`AcpHarnessProofs` is about any set of slots, any channels, either dedup mode,
every handling mode and any number of faults and commands. `Held` and `Tries`
are the batches and the attempts that the tasks stand for, and `Q` is
`EventQueueTurnProofs` with them in the place of the queue's own, so that the
lemmas about the queue can be cited.

`HInv` is the harness's own invariant and the queue's `PlaceInv` together.
Neither is inductive alone: that a task's step is a step of `EventQueue` needs to
know that its batch is of its channel and nobody else's, and that it is so needs
to know that events are in one place. `Own` says what a task in each phase has
(`Typed`), that slots, breakers and the exit test agree (`Slots`), that removed
sessions are gone, that a steer attempt without an ack has a running task to read
it, and that no two tasks carry one batch and no two attempts one event
(`Separate`). `NextKeeps` takes each of the loop's actions and shows at once that
it keeps `HInv` and that it is a step of `EventQueue` or changes nothing there;
`HarnessRefinesQueue` is `Spec => RefinesQueue`. So whatever is proved of the
queue holds in the harness.

`ChannelsHaveOneTask` is `Spec => OneTaskUnlessOverrun`: if no deadline passes in
a behaviour, no channel has two tasks in it. It takes the step of
`OneTurnPerChannel`'s proof under the weaker hypothesis that no channel is overdue
after the step, and holds with and without an initial message.

Assumed: a channel is not `Heartbeat`, the value that stands for a task without
one (`HeartbeatAssumption`; channel ids are UUIDs, a heartbeat's is `None`).

### The other components

`Services` names what is assumed of their constants, and TLC evaluates it on the
instance of the run. `ScheduleAssumption`: there is a pod, and an interval is
positive, as `parse_duration_secs` guarantees. `ClaimAssumption`: the token of a
live claim is neither the absent one nor one of a process that is gone (claim ids
are random UUIDs), and a table has finitely many rows. `SignerAssumption`: an
announcement is signed by some pubkey. The theorems about `GitPublish` also
assume `NoneIsNoManifest`, that an absent parent (`Option::None`) is not a
manifest; it quantifies over all values, so that TLC cannot evaluate it.

- `GitPublishProofs`. `Holds` says what a push knows at each of its steps: from
  hydration on its parent can be read in full, from composition on its manifest
  is complete and names that parent. `Named` and `Chained` say that the pointer
  is the last of a sequence of complete manifests, each the parent of the next,
  none twice. The compare-and-swap extends the chain because the push's parent
  is then the pointer, and a manifest with that parent cannot have been named
  before. `Reported` says that answers and announced states are of the chain.
- `WorkflowScheduleProofs`. `Claimed`, for `OneRunPerInstant`: a pod about to
  create a run has the claim of its instant alone and the instant has no run.
  `Firing`, for `IntervalKeepsFiring`: some pod will win a claim in time. A pod
  can lose every claim for a while, because its own `last_fired` is ahead of or
  behind the claims of others, so the invariant cannot speak of every pod; it
  follows the one that is due next (`Overdue`, asleep; `FiresNext`, at work) and
  says of all that they are on time. The arithmetic of interval buckets is in
  lemmas of its own.
- `PushMatchProofs`. `Gate`: an open insert that skipped the queue excludes an
  activation, so that no lease is eligible when it commits. `Generations`: they
  only grow, so a replaced lease does not match what a matcher loaded. `Claims`:
  a matcher that still has the claim knows how often the job was tried.
  `Durable`: a job about to be deleted has its wakes, or its last try is over.
- `PoolLifecycleProofs`. `OneWake` does not say what the processes of a wake are
  doing. `Attempts` and `Owners` do: before the pool is there each process
  belongs to the task that builds it or to the result on its way. `Emptied`: each
  phase of the shutdown leaves no process behind in the place it has emptied, and
  one agent at most is being reaped, from which `DroppedOnlyWhenCutOff` follows for every step.
- `ServicesProofs`. The step relation of `Services` is one component's and leaves
  the others' variables alone, so each component's invariant is one of `Services`.
  Proved here from the start: `GitAnnounce`, whose handler that has succeeded
  has seen or made its owner's pointer (`Seen`), and pointers are never removed
  (`Kept`); and `PushOutbox`, where only a wake that is being sent carries a
  worker's claim and a worker at work has a wake left to deliver (`Delivering`).

### Only model-checked

Liveness: `EveryEventSettles`, `EveryChannelFrees`, `EverySlotRefills`,
`WorkWakesPool`, `ShutdownEnds`, `EveryJobLeaves` and `EveryWakeSettles` rest on
fairness, hence on `ENABLED`, which the prover does not handle. The runs that
expect a violation have nothing to prove.

## 5. Plan

What is left to prove: consequences of the refinement stated in the harness's
own terms (an event of a task is in no queue; a task's channel is in flight),
and for each run that expects a violation the weaker fact that does hold, such as
that a throttled batch keeps its retry counter as long as agents are free.

Further modules:

1. The relay's subscription registry and its indexes against a direct match over
   all subscriptions; then connections with bounded send queues.
2. Workflow runs with approvals and their expiry.
3. Mesh membership and tunnel directory; the audit chain; the pairing session;
   the ACP relay client's resubscription and de-duplication.
4. The push gateway's grants and replay protection.

## 6. Not modelled

Prompt text, scope and reply-anchor formatting; context fetches; usage metrics
and observer frames; event filters and author gates (any event may pass or not,
by arriving or not); the contents of JSON-RPC messages; an eager pool's start.

Push: filters, quotas, endpoints shared by two leases (a refusal that is rolled
back), events matched when they are no longer of use, the pruning of settled and
expired rows, the grants and requests of the gateway. Git: permissions and the
hook, tags and other refs, the splitting of a pack by size, partial uploads of a
compaction (content-addressed, so harmless), index files, caches, the order of
ref-state events at their readers. Workflow: event triggers, execution,
approvals, clocks that differ between pods, and edits of a trigger.

Of the other parts nothing yet: see section 5, and the component list in
`PROJECT.json` with a reason for each. Most of the repository's lines are user
interfaces, command-line tools, SQL, parsing and tests, which have no state
machine of their own to check.
