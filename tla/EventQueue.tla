----------------------------- MODULE EventQueue -----------------------------
(***************************************************************************)
(* The event queue of the ACP harness and the calls its owner makes on it. *)
(* One action is one group of calls the main loop makes without yielding:  *)
(* `push` with the native-steer withhold that may follow it, `flush_next`, *)
(* `requeue*` with the `mark_complete` that follows it, and so on.         *)
(*                                                                         *)
(* `held` are the batches handed to prompt tasks and not yet settled,      *)
(* `steering` the native-steer attempts whose ack has not been processed.  *)
(***************************************************************************)
EXTENDS EventQueueOps

CONSTANT MayOverrun      \* may a turn outlive its in-flight deadline?

ASSUME MayOverrunAssumption == MayOverrun \in BOOLEAN

VARIABLES eq,            \* the EventQueue
          held,          \* batches in the hands of prompt tasks
          steering,      \* outstanding native-steer attempts
          arrived        \* number of events received so far

vars == <<eq, held, steering, arrived>>

Attempt == [chan : Channel, event : Event]

Init == /\ eq = NewQueue
        /\ held = {}
        /\ steering = {}
        /\ arrived = 0

\* An event arrives; Drop mode may refuse it.
Receive(c) ==
  /\ arrived + 1 \in Event
  /\ arrived' = arrived + 1
  /\ eq' = IF Accepts(eq, c) THEN Push(eq, c, arrived + 1) ELSE eq
  /\ UNCHANGED <<held, steering>>

\* An event arrives for a busy channel and the read loop takes the steer: the
\* event is withheld before anything else can run.
ReceiveSteered(c) ==
  /\ arrived + 1 \in Event
  /\ Accepts(eq, c)
  /\ c \in eq.inFlight
  /\ arrived' = arrived + 1
  /\ eq' = MarkNativeSteerPending(Push(eq, c, arrived + 1), c, arrived + 1)
  /\ steering' = steering \cup {[chan |-> c, event |-> arrived + 1]}
  /\ UNCHANGED held

\* flush_next hands a batch to an idle agent.
Dispatch ==
  \E r \in FlushNext(Expire(eq)) :
     /\ eq' = r.q
     /\ held' = held \cup {r.batch}
     /\ UNCHANGED <<steering, arrived>>

\* flush_next took a batch but no agent is idle: it goes straight back.
DispatchNoAgent ==
  \E r \in FlushNext(Expire(eq)) :
     /\ eq' = MarkComplete(RequeuePreserve(r.q, r.batch), r.batch.chan)
     /\ UNCHANGED <<held, steering, arrived>>

\* has_flushable_work, or a flush_next that returns None.
CheckWork ==
  /\ eq' = Expire(eq)
  /\ UNCHANGED <<held, steering, arrived>>

\* The turn of b ends and its batch is not kept: it was processed, dropped, or
\* dead-lettered by a hard timeout.
Finish(b) ==
  /\ held' = held \ {b}
  /\ eq' = MarkComplete(eq, b.chan)
  /\ UNCHANGED <<steering, arrived>>

\* The turn of b failed: requeue, then mark_complete.
Fail(b) ==
  /\ Dedup = "queue"
  /\ held' = held \ {b}
  /\ eq' = MarkComplete(Requeue(eq, b), b.chan)
  /\ UNCHANGED <<steering, arrived>>

\* The turn of b was cancelled to be merged with newer events.
Cancel(b, reason) ==
  /\ Dedup = "queue"
  /\ held' = held \ {b}
  /\ eq' = MarkComplete(RequeueAsCancelled(eq, b, reason), b.chan)
  /\ UNCHANGED <<steering, arrived>>

\* The ack of a steer that reached the agent.
SteerDelivered(s) ==
  /\ steering' = steering \ {s}
  /\ eq' = RemoveEvent(ExtendInFlightDeadline(eq, s.chan), s.chan, s.event)
  /\ UNCHANGED <<held, arrived>>

\* Any other ack.
SteerReleased(s) ==
  /\ steering' = steering \ {s}
  /\ eq' = ReleaseNativeSteer(eq, s.chan, s.event)
  /\ UNCHANGED <<held, arrived>>

\* The agent was removed from the channel.
Drain(c) ==
  /\ eq' = DrainChannel(eq, c)
  /\ UNCHANGED <<held, steering, arrived>>

\* Periodic maintenance: compact_expired_state, then has_flushable_work.
Maintain ==
  /\ eq' = Expire(CompactExpiredState(eq))
  /\ UNCHANGED <<held, steering, arrived>>

\* Time passes: a backoff ends, or an in-flight deadline goes by.
ThrottleEnds(c) ==
  /\ c \in eq.throttled
  /\ eq' = [eq EXCEPT !.throttled = @ \ {c}]
  /\ UNCHANGED <<held, steering, arrived>>

DeadlinePasses(c) ==
  /\ MayOverrun
  /\ c \in eq.deadlines \ eq.overdue
  /\ eq' = [eq EXCEPT !.overdue = @ \cup {c}]
  /\ UNCHANGED <<held, steering, arrived>>

Next == \/ \E c \in Channel : \/ Receive(c)
                              \/ ReceiveSteered(c)
                              \/ Drain(c)
                              \/ ThrottleEnds(c)
                              \/ DeadlinePasses(c)
        \/ \E b \in held : \/ Finish(b)
                           \/ Fail(b)
                           \/ \E reason \in CancelReason : Cancel(b, reason)
        \/ \E s \in steering : SteerDelivered(s) \/ SteerReleased(s)
        \/ Dispatch
        \/ DispatchNoAgent
        \/ CheckWork
        \/ Maintain

Spec == Init /\ [][Next]_vars

-----------------------------------------------------------------------------
(* Properties that hold whatever the turns do.                             *)

\* The state keeps its shape through every method of EventQueue.
TypeOK == /\ eq \in QueueState
          /\ held \subseteq Batch
          /\ steering \subseteq Attempt
          /\ arrived \in Nat

\* No channel is blocked for good: a channel in in_flight_channels has a deadline
\* that will release it, whatever order of drain_channel, expiry, late
\* mark_complete and extend_in_flight_deadline led here (queue.rs:636-640).
InFlightHasDeadline == /\ eq.inFlight = eq.deadlines
                       /\ eq.overdue \subseteq eq.deadlines

\* A channel is marked busy only while some unsettled batch of it exists, whose
\* end will call mark_complete.
InFlightHasBatch == \A c \in eq.inFlight : \E b \in held : b.chan = c

\* MAX_PENDING_PER_CHANNEL bounds every queue, also after the bulk push_fronts of
\* requeue, release and expiry recovery.
QueueBounded == \A c \in Channel : Len(eq.queues[c]) <= MaxPending

\* The backoff sequence is never restarted while its throttle runs, and never
\* grows past MAX_RETRIES: requeue and mark_complete agree on what a retry is.
BackoffCounted == \A c \in Channel :
                    /\ eq.retryCounts[c] <= MaxRetries
                    /\ c \in eq.throttled => eq.retryCounts[c] >= 1

\* A stored cancelled batch has the reason that frames its merged prompt, and a
\* reason never outlives its batch (it would frame an unrelated later one).
ReasonMatchesBatch == \A c \in Channel :
                        eq.cancelled[c] # <<>> <=> eq.reasons[c] # "none"

\* Every event the queue keeps for c, and every event a batch carries.
Waiting(c) == eq.withheld[c] \o eq.queues[c] \o eq.cancelled[c]
Carried(b) == b.cancelled \o b.events

\* No event is in two places: withheld, queued, stored as cancelled, or in the
\* batch of a task.  Two places are two deliveries to the agent.
OnePlace ==
  /\ \A c \in Channel : IsInjective(Waiting(c))
  /\ \A b \in held : IsInjective(Carried(b))
  /\ \A c \in Channel, b \in held : Range(Waiting(c)) \cap Range(Carried(b)) = {}
  /\ \A c, d \in Channel : c # d => Range(Waiting(c)) \cap Range(Waiting(d)) = {}
  /\ \A b1, b2 \in held : b1 # b2 => Range(Carried(b1)) \cap Range(Carried(b2)) = {}

\* A withheld event always has a watcher that will release or consume it.
WithheldIsWatched ==
  \A c \in Channel : \A e \in Range(eq.withheld[c]) : [chan |-> c, event |-> e] \in steering

-----------------------------------------------------------------------------
(* Properties that rest on turns ending before their in-flight deadline.   *)

\* Two batches of one channel never run at the same time.
OneTurnPerChannel == \A b1, b2 \in held : b1.chan = b2.chan => b1 = b2

\* An event is not dispatched to an agent while a steer of it is unresolved.
SteeredIsNotDispatched ==
  \A s \in steering, b \in held : s.event \notin Range(Carried(b))

\* No batch of a channel is handed out while its backoff runs, although the
\* cancelled-batch fallback of flush_next does not look at retry_after.
BackoffRespected ==
  [][\A b \in held' \ held : b.chan \notin eq.throttled]_vars

=============================================================================
