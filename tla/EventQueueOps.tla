---------------------------- MODULE EventQueueOps ----------------------------
(***************************************************************************)
(* The per-channel event queue of the ACP harness                          *)
(* (crates/buzz-acp/src/queue.rs, struct EventQueue), as operators that    *)
(* take the queue's state, a record, and return its next state.  The       *)
(* harness calls several of them in one handler, so the modules that use   *)
(* this one compose them inside one action.                                *)
(*                                                                         *)
(* Events are numbered in the order the harness receives them, so an       *)
(* event's number stands for its `received_at`; its `created_at`, stamped  *)
(* by the author, is the parameter CreatedAt.  Clocks are abstracted to    *)
(* what the code compares them with: `throttled` is the set of channels    *)
(* whose retry_after lies in the future (an entry in the past behaves like *)
(* no entry in every method), `overdue` the set of channels whose          *)
(* in-flight deadline has passed.  A map entry that holds no event and a   *)
(* missing entry are the same empty sequence.                              *)
(***************************************************************************)
EXTENDS Naturals, Sequences, Functions

CONSTANTS Channel,       \* channel ids
          Event,         \* event numbers, in order of arrival
          CreatedAt(_),  \* the author's timestamp of an event
          Dedup,         \* config.dedup_mode
          MaxPending,    \* MAX_PENDING_PER_CHANNEL
          MaxBatch,      \* MAX_BATCH_EVENTS
          MaxRetries     \* MAX_RETRIES

ASSUME EventAssumption == Event \subseteq Nat
ASSUME CreatedAtAssumption == \A e \in Event : CreatedAt(e) \in Nat
ASSUME DedupAssumption == Dedup \in {"drop", "queue"}
ASSUME LimitAssumption == /\ MaxPending \in Nat \ {0}
                          /\ MaxBatch \in Nat \ {0}
                          /\ MaxRetries \in Nat

\* Why a turn was cancelled; "none" when no cancelled events are stored.
CancelReason == {"steer", "interrupt"}

Batch == [chan : Channel, events : Seq(Event), cancelled : Seq(Event),
          reason : CancelReason \cup {"none"}]

QueueState == [queues      : [Channel -> Seq(Event)],
               inFlight    : SUBSET Channel,
               deadlines   : SUBSET Channel,
               overdue     : SUBSET Channel,
               throttled   : SUBSET Channel,
               retryCounts : [Channel -> Nat],
               cancelled   : [Channel -> Seq(Event)],
               reasons     : [Channel -> CancelReason \cup {"none"}],
               withheld    : [Channel -> Seq(Event)]]

\* EventQueue::new
NewQueue == [queues      |-> [c \in Channel |-> <<>>],
             inFlight    |-> {},
             deadlines   |-> {},
             overdue     |-> {},
             throttled   |-> {},
             retryCounts |-> [c \in Channel |-> 0],
             cancelled   |-> [c \in Channel |-> <<>>],
             reasons     |-> [c \in Channel |-> "none"],
             withheld    |-> [c \in Channel |-> <<>>]]

-----------------------------------------------------------------------------
(* Sequence helpers.                                                       *)

\* Mutant of TrimBack: the cap is not enforced.
TrimBackNothing(s) == s

\* while queue.len() > MAX_PENDING_PER_CHANNEL { queue.pop_back() }
TrimBack(s) == IF Len(s) > MaxPending THEN SubSeq(s, 1, MaxPending) ELSE s

\* Prepend evs, in order, to the queue of c and enforce the cap at the back.
PushFront(q, c, evs) == [q EXCEPT !.queues[c] = TrimBack(evs \o @)]

\* s without e.  Event ids are unique within a store, so the `position` +
\* `remove` and the `retain` of the code both take out at most one element.
Without(s, e) ==
  IF e \in Range(s)
  THEN LET i == CHOOSE i \in DOMAIN s : s[i] = e
       IN  SubSeq(s, 1, i - 1) \o SubSeq(s, i + 1, Len(s))
  ELSE s

\* sort_by_key(created_at), a stable sort, as a relation: the sequences s \o p
\* for the permutation p that orders by created_at and, within one second, by
\* the position in s.  There is exactly one.
StableSorts(s) ==
  { [i \in DOMAIN s |-> s[p[i]]] :
      p \in { p \in Bijection(DOMAIN s, DOMAIN s) :
                \A i, j \in DOMAIN s : i < j =>
                   \/ CreatedAt(s[p[i]]) < CreatedAt(s[p[j]])
                   \/ CreatedAt(s[p[i]]) = CreatedAt(s[p[j]]) /\ p[i] < p[j] } }

-----------------------------------------------------------------------------
(* Arrival.                                                                *)

\* The test at the head of push: Drop mode refuses a busy channel's event.
Accepts(q, c) == ~(Dedup = "drop" /\ c \in q.inFlight)

\* push, for an accepted event: the oldest event makes room at the cap.
Push(q, c, e) ==
  [q EXCEPT !.queues[c] = Append(IF Len(@) >= MaxPending THEN Tail(@) ELSE @, e)]

-----------------------------------------------------------------------------
(* Dispatch.                                                               *)

\* recover_withheld_for_expired_channel: the queue of c with its withheld events
\* back at the front.
Recovered(q, c) == TrimBack(q.withheld[c] \o q.queues[c])

\* Mutant of Expire: the withheld events are copied back, not moved.
ExpireCopiesWithheld(q) ==
  [q EXCEPT
     !.inFlight  = @ \ q.overdue,
     !.deadlines = @ \ q.overdue,
     !.overdue   = {},
     !.queues    = [c \in Channel |-> IF c \in q.overdue THEN Recovered(q, c) ELSE q.queues[c]]]

\* The expiry block that opens flush_next and has_flushable_work: release the
\* channels whose deadline has passed and recover their withheld events.
Expire(q) ==
  [q EXCEPT
     !.inFlight  = @ \ q.overdue,
     !.deadlines = @ \ q.overdue,
     !.overdue   = {},
     !.queues    = [c \in Channel |-> IF c \in q.overdue THEN Recovered(q, c) ELSE q.queues[c]],
     !.withheld  = [c \in Channel |-> IF c \in q.overdue THEN <<>> ELSE q.withheld[c]]]

\* Mutants of Ready: a busy channel, or one in backoff, is not skipped.
ReadyIgnoresInFlight(q) == {c \in Channel : q.queues[c] # <<>> /\ c \notin q.throttled}
ReadyIgnoresThrottle(q) == {c \in Channel : q.queues[c] # <<>> /\ c \notin q.inFlight}

\* Channels whose queued events may be flushed now.
Ready(q) == {c \in Channel : /\ q.queues[c] # <<>>
                             /\ c \notin q.inFlight
                             /\ c \notin q.throttled}

\* Channels that hold only the events of a cancelled turn to re-dispatch.
Interrupted(q) == {c \in Channel : q.cancelled[c] # <<>> /\ c \notin q.inFlight}

\* has_flushable_work, applied after its expiry block.
HasFlushableWork(q) == Ready(q) \cup Interrupted(q) # {}

\* The ready channels whose head event was received first.
Oldest(q) == {c \in Ready(q) : \A d \in Ready(q) : Head(q.queues[c]) <= Head(q.queues[d])}

\* Mutant of Claim: the reason stays behind.
ClaimKeepsReason(q, c) ==
  [q EXCEPT !.inFlight     = @ \cup {c},
            !.deadlines    = @ \cup {c},
            !.overdue      = @ \ {c},
            !.cancelled[c] = <<>>]

\* in_flight_channels.insert and in_flight_deadlines.insert of a fresh deadline;
\* the channel's cancelled batch and its reason leave the queue with the flush.
Claim(q, c) ==
  [q EXCEPT !.inFlight     = @ \cup {c},
            !.deadlines    = @ \cup {c},
            !.overdue      = @ \ {c},
            !.cancelled[c] = <<>>,
            !.reasons[c]   = "none"]

\* flush_next, for the ready channel c it picked: drain up to MaxBatch events,
\* sorted by created_at, and merge the channel's cancelled events into the batch.
FlushQueued(q, c) ==
  LET n == IF Len(q.queues[c]) < MaxBatch THEN Len(q.queues[c]) ELSE MaxBatch
  IN  { [q     |-> Claim([q EXCEPT !.queues[c] = SubSeq(@, n + 1, Len(@))], c),
         batch |-> [chan |-> c, events |-> evs, cancelled |-> q.cancelled[c],
                    reason |-> IF q.cancelled[c] = <<>> THEN "none" ELSE q.reasons[c]]] :
          evs \in StableSorts(SubSeq(q.queues[c], 1, n)) }

\* flush_next's fallback: re-dispatch the cancelled batch of c as an ordinary
\* one.  It does not look at retry_after.
FlushCancelled(q, c) ==
  [q     |-> Claim(q, c),
   batch |-> [chan |-> c, events |-> q.cancelled[c], cancelled |-> <<>>,
              reason |-> q.reasons[c]]]

\* flush_next after its expiry block: the possible (next state, batch) pairs,
\* none when it returns None.  The fallback is reached only when no queue is
\* ready, and finds any of the channels first (HashMap iteration order).
FlushNext(q) == IF Ready(q) # {}
                THEN UNION {FlushQueued(q, c) : c \in Oldest(q)}
                ELSE {FlushCancelled(q, c) : c \in Interrupted(q)}

-----------------------------------------------------------------------------
(* The end of a turn.                                                      *)

\* Mutants of MarkComplete: the counter is always reset, or counted down.
MarkCompleteForgetsThrottle(q, c) ==
  [q EXCEPT !.inFlight       = @ \ {c},
            !.deadlines      = @ \ {c},
            !.overdue        = @ \ {c},
            !.retryCounts[c] = 0]

MarkCompleteCountsDown(q, c) ==
  [q EXCEPT !.inFlight       = @ \ {c},
            !.deadlines      = @ \ {c},
            !.overdue        = @ \ {c},
            !.retryCounts[c] = IF c \in q.throttled THEN @ ELSE @ - 1]

\* mark_complete: an active throttle means the batch was requeued, and keeps
\* the retry counter.
MarkComplete(q, c) ==
  [q EXCEPT !.inFlight       = @ \ {c},
            !.deadlines      = @ \ {c},
            !.overdue        = @ \ {c},
            !.retryCounts[c] = IF c \in q.throttled THEN @ ELSE 0]

\* requeue gives up on the batch: this attempt is one more than MAX_RETRIES.
DeadLetters(q, c) == q.retryCounts[c] + 1 > MaxRetries

\* requeue.  Only batch.events go back to the queue.
Requeue(q, b) ==
  IF DeadLetters(q, b.chan)
  THEN [q EXCEPT !.retryCounts[b.chan] = 0, !.throttled = @ \ {b.chan}]
  ELSE [PushFront(q, b.chan, b.events) EXCEPT !.retryCounts[b.chan] = @ + 1,
                                              !.throttled = @ \cup {b.chan}]

\* requeue_preserve_timestamps.  Only batch.events go back to the queue.
RequeuePreserve(q, b) == PushFront(q, b.chan, b.events)

\* requeue_as_cancelled
RequeueAsCancelled(q, b, reason) ==
  [q EXCEPT !.cancelled[b.chan] = @ \o b.cancelled \o b.events,
            !.reasons[b.chan]   = reason]

-----------------------------------------------------------------------------
(* Native steering.                                                        *)

\* Mutant of MarkNativeSteerPending: the event stays in the queue.
MarkNativeSteerPendingNot(q, c, e) == q

\* mark_native_steer_pending: a no-op when e is not in the queue.
MarkNativeSteerPending(q, c, e) ==
  IF e \in Range(q.queues[c])
  THEN [q EXCEPT !.queues[c] = Without(@, e), !.withheld[c] = Append(@, e)]
  ELSE q

\* release_native_steer: a no-op when e is not withheld.
ReleaseNativeSteer(q, c, e) ==
  IF e \in Range(q.withheld[c])
  THEN PushFront([q EXCEPT !.withheld[c] = Without(@, e)], c, <<e>>)
  ELSE q

\* Mutant of RemoveEvent: the withheld store is forgotten.
RemoveEventFromQueueOnly(q, c, e) == [q EXCEPT !.queues[c] = Without(@, e)]

\* remove_event
RemoveEvent(q, c, e) ==
  [q EXCEPT !.withheld[c] = Without(@, e), !.queues[c] = Without(@, e)]

\* Mutant of ExtendInFlightDeadline: a late ack resurrects a finished turn's mark.
ExtendResurrects(q, c) ==
  [q EXCEPT !.inFlight  = @ \cup {c},
            !.deadlines = @ \cup {c},
            !.overdue   = @ \ {c}]

\* extend_in_flight_deadline: only a channel that still has a deadline gets a
\* new one, and a new one lies in the future.
ExtendInFlightDeadline(q, c) == [q EXCEPT !.overdue = @ \ {c}]

-----------------------------------------------------------------------------
(* Housekeeping.                                                           *)

\* Mutant of DrainChannel: the deadline goes and the mark stays.
DrainChannelDropsDeadline(q, c) ==
  [q EXCEPT !.queues[c]      = <<>>,
            !.throttled      = @ \ {c},
            !.retryCounts[c] = 0,
            !.cancelled[c]   = <<>>,
            !.reasons[c]     = "none",
            !.withheld[c]    = <<>>,
            !.deadlines      = @ \ {c},
            !.overdue        = @ \ {c}]

\* drain_channel: everything but the in-flight marks.
DrainChannel(q, c) ==
  [q EXCEPT !.queues[c]      = <<>>,
            !.throttled      = @ \ {c},
            !.retryCounts[c] = 0,
            !.cancelled[c]   = <<>>,
            !.reasons[c]     = "none",
            !.withheld[c]    = <<>>]

\* compact_expired_state
CompactExpiredState(q) ==
  [q EXCEPT !.retryCounts = [c \in Channel |->
     IF c \in q.throttled \/ q.queues[c] # <<>> \/ c \in q.inFlight
     THEN q.retryCounts[c] ELSE 0]]

=============================================================================
