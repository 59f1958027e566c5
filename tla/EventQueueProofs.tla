-------------------------- MODULE EventQueueProofs --------------------------
(***************************************************************************)
(* Theorems about EventQueue, for every set of channels and events, every  *)
(* order of the authors' timestamps and every value of the limits.         *)
(***************************************************************************)
EXTENDS EventQueue, SequenceTheorems, TLAPS

-----------------------------------------------------------------------------
(* What the sequence helpers return.                                       *)

\* A prefix or a suffix of a sequence is a sequence of the same elements, not
\* longer than it.
LEMMA SubSeqType ==
  ASSUME NEW S, NEW s \in Seq(S), NEW n \in 0..Len(s)
  PROVE  /\ SubSeq(s, 1, n) \in Seq(S) /\ Len(SubSeq(s, 1, n)) = n
         /\ SubSeq(s, n + 1, Len(s)) \in Seq(S)
         /\ Len(SubSeq(s, n + 1, Len(s))) = Len(s) - n
  BY SubSeqProperties

\* The trim that follows every bulk push_front enforces the cap.
LEMMA TrimBackType ==
  ASSUME NEW s \in Seq(Event)
  PROVE  TrimBack(s) \in Seq(Event) /\ Len(TrimBack(s)) <= MaxPending
  <1>1. CASE Len(s) > MaxPending
    <2>1. MaxPending \in 0..Len(s)
      BY <1>1, LimitAssumption
    <2>2. QED
      BY <1>1, <2>1, SubSeqType, LimitAssumption DEF TrimBack
  <1>2. CASE ~(Len(s) > MaxPending)
    BY <1>2, LimitAssumption DEF TrimBack
  <1>3. QED
    BY <1>1, <1>2

\* Taking an event out of a sequence leaves a sequence, not a longer one.
LEMMA WithoutType ==
  ASSUME NEW s \in Seq(Event), NEW e
  PROVE  Without(s, e) \in Seq(Event) /\ Len(Without(s, e)) <= Len(s)
  <1>1. CASE e \in Range(s)
    <2> DEFINE i == CHOOSE i \in DOMAIN s : s[i] = e
    <2>1. i \in DOMAIN s
      BY <1>1 DEF Range
    <2>2. i \in 1..Len(s) /\ i - 1 \in 0..Len(s) /\ i \in 0..Len(s)
      BY <2>1
    <2> HIDE DEF i
    <2>3. /\ SubSeq(s, 1, i - 1) \in Seq(Event) /\ Len(SubSeq(s, 1, i - 1)) = i - 1
          /\ SubSeq(s, i + 1, Len(s)) \in Seq(Event)
          /\ Len(SubSeq(s, i + 1, Len(s))) = Len(s) - i
      BY <2>2, SubSeqType
    <2>4. Without(s, e) = SubSeq(s, 1, i - 1) \o SubSeq(s, i + 1, Len(s))
      BY <1>1 DEF Without, i
    <2>5. /\ Without(s, e) \in Seq(Event)
          /\ Len(Without(s, e)) = (i - 1) + (Len(s) - i)
      BY <2>3, <2>4, ConcatProperties
    <2>6. QED
      BY <2>2, <2>5
  <1>2. CASE e \notin Range(s)
    BY <1>2 DEF Without
  <1>3. QED
    BY <1>1, <1>2

\* The sorted batch has as many events as the drained one.
LEMMA StableSortsType ==
  ASSUME NEW s \in Seq(Event), NEW t \in StableSorts(s)
  PROVE  t \in Seq(Event) /\ Len(t) = Len(s)
  <1>1. PICK p \in [DOMAIN s -> DOMAIN s] : t = [i \in DOMAIN s |-> s[p[i]]]
    BY DEF StableSorts, Bijection, Injection
  <1>2. DOMAIN s = 1..Len(s) /\ Len(s) \in Nat
    OBVIOUS
  <1>3. \A i \in 1..Len(s) : s[p[i]] \in Event
    BY <1>1, <1>2
  <1>4. QED
    BY <1>1, <1>2, <1>3

-----------------------------------------------------------------------------
(* The operators keep the state's shape.                                   *)

\* The bulk push_front with its cap yields a queue state.
LEMMA PushFrontType ==
  ASSUME NEW q \in QueueState, NEW c \in Channel, NEW evs \in Seq(Event)
  PROVE  PushFront(q, c, evs) \in QueueState
  <1>1. TrimBack(evs \o q.queues[c]) \in Seq(Event)
    BY TrimBackType, ConcatProperties DEF QueueState
  <1>2. QED
    BY <1>1 DEF PushFront, QueueState

\* push yields a queue state, also when it evicts the oldest event.
LEMMA PushType ==
  ASSUME NEW q \in QueueState, NEW c \in Channel, NEW e \in Event
  PROVE  Push(q, c, e) \in QueueState
  <1>1. q.queues[c] \in Seq(Event)
    BY DEF QueueState
  <1>2. Append(IF Len(q.queues[c]) >= MaxPending THEN Tail(q.queues[c]) ELSE q.queues[c], e) \in Seq(Event)
    BY <1>1, LimitAssumption, HeadTailProperties, AppendProperties
  <1>3. QED
    BY <1>2 DEF Push, QueueState

\* The expiry block of flush_next yields a queue state.
LEMMA ExpireType ==
  ASSUME NEW q \in QueueState
  PROVE  Expire(q) \in QueueState
  <1> DEFINE qs == [c \in Channel |-> IF c \in q.overdue THEN Recovered(q, c) ELSE q.queues[c]]
             ws == [c \in Channel |-> IF c \in q.overdue THEN <<>> ELSE q.withheld[c]]
  <1>1. \A c \in Channel : Recovered(q, c) \in Seq(Event)
    BY TrimBackType, ConcatProperties DEF QueueState, Recovered
  <1>2. qs \in [Channel -> Seq(Event)]
    BY <1>1 DEF QueueState
  <1>3. ws \in [Channel -> Seq(Event)]
    BY DEF QueueState
  <1>4. Expire(q) = [q EXCEPT !.inFlight  = @ \ q.overdue,
                              !.deadlines = @ \ q.overdue,
                              !.overdue   = {},
                              !.queues    = qs,
                              !.withheld  = ws]
    BY DEF Expire
  <1> HIDE DEF qs, ws
  <1>5. QED
    BY <1>2, <1>3, <1>4, ZenonT(60) DEF QueueState

\* Marking a channel in flight yields a queue state.
LEMMA ClaimType ==
  ASSUME NEW q \in QueueState, NEW c \in Channel
  PROVE  Claim(q, c) \in QueueState
  <1>1. <<>> \in Seq(Event)
    OBVIOUS
  <1>2. [q.cancelled EXCEPT ![c] = <<>>] \in [Channel -> Seq(Event)]
    BY <1>1 DEF QueueState
  <1>3. [q.reasons EXCEPT ![c] = "none"] \in [Channel -> CancelReason \cup {"none"}]
    BY DEF QueueState
  <1>4. QED
    BY <1>2, <1>3 DEF Claim, QueueState

\* mark_complete yields a queue state.
LEMMA MarkCompleteType ==
  ASSUME NEW q \in QueueState, NEW c \in Channel
  PROVE  MarkComplete(q, c) \in QueueState
  BY DEF MarkComplete, QueueState

\* requeue yields a queue state, retried or dead-lettered.
LEMMA RequeueType ==
  ASSUME NEW q \in QueueState, NEW b \in Batch
  PROVE  Requeue(q, b) \in QueueState
  <1>1. b.chan \in Channel /\ b.events \in Seq(Event)
    BY DEF Batch
  <1>2. PushFront(q, b.chan, b.events) \in QueueState
    BY <1>1, PushFrontType
  <1>3. CASE DeadLetters(q, b.chan)
    BY <1>1, <1>3 DEF Requeue, QueueState
  <1>4. CASE ~DeadLetters(q, b.chan)
    <2> DEFINE r == PushFront(q, b.chan, b.events)
    <2>1. Requeue(q, b) = [r EXCEPT !.retryCounts[b.chan] = @ + 1, !.throttled = @ \cup {b.chan}]
      BY <1>4 DEF Requeue
    <2> HIDE DEF r
    <2>2. r \in QueueState
      BY <1>2 DEF r
    <2>3. [r.retryCounts EXCEPT ![b.chan] = @ + 1] \in [Channel -> Nat]
      <3>1. PICK f, c : f = r.retryCounts /\ c = b.chan
        OBVIOUS
      <3>2. f \in [Channel -> Nat] /\ c \in Channel
        BY <1>1, <2>2, <3>1 DEF QueueState
      <3>3. [f EXCEPT ![c] = @ + 1] \in [Channel -> Nat]
        BY <3>2
      <3>4. QED
        BY <3>1, <3>3, Zenon
    <2>4. r.throttled \cup {b.chan} \in SUBSET Channel
      BY <1>1, <2>2 DEF QueueState
    <2>5. QED
      BY <2>1, <2>2, <2>3, <2>4 DEF QueueState
  <1>5. QED
    BY <1>3, <1>4

\* requeue_preserve_timestamps yields a queue state.
LEMMA RequeuePreserveType ==
  ASSUME NEW q \in QueueState, NEW b \in Batch
  PROVE  RequeuePreserve(q, b) \in QueueState
  BY PushFrontType DEF RequeuePreserve, Batch

\* requeue_as_cancelled yields a queue state.
LEMMA RequeueAsCancelledType ==
  ASSUME NEW q \in QueueState, NEW b \in Batch, NEW reason \in CancelReason
  PROVE  RequeueAsCancelled(q, b, reason) \in QueueState
  <1>1. /\ b.chan \in Channel
        /\ q.cancelled[b.chan] \o b.cancelled \o b.events \in Seq(Event)
    BY ConcatProperties DEF Batch, QueueState
  <1>2. [q.cancelled EXCEPT ![b.chan] = @ \o b.cancelled \o b.events] \in [Channel -> Seq(Event)]
    BY <1>1 DEF QueueState
  <1>3. [q.reasons EXCEPT ![b.chan] = reason] \in [Channel -> CancelReason \cup {"none"}]
    BY <1>1 DEF QueueState
  <1>4. QED
    BY <1>2, <1>3 DEF RequeueAsCancelled, QueueState

\* mark_native_steer_pending yields a queue state.
LEMMA MarkNativeSteerPendingType ==
  ASSUME NEW q \in QueueState, NEW c \in Channel, NEW e \in Event
  PROVE  MarkNativeSteerPending(q, c, e) \in QueueState
  <1>1. Without(q.queues[c], e) \in Seq(Event)
    BY WithoutType DEF QueueState
  <1>2. Append(q.withheld[c], e) \in Seq(Event)
    BY AppendProperties DEF QueueState
  <1>3. QED
    BY <1>1, <1>2 DEF MarkNativeSteerPending, QueueState

\* release_native_steer yields a queue state.
LEMMA ReleaseNativeSteerType ==
  ASSUME NEW q \in QueueState, NEW c \in Channel, NEW e \in Event
  PROVE  ReleaseNativeSteer(q, c, e) \in QueueState
  <1>1. Without(q.withheld[c], e) \in Seq(Event)
    BY WithoutType DEF QueueState
  <1>2. [q EXCEPT !.withheld[c] = Without(@, e)] \in QueueState
    BY <1>1 DEF QueueState
  <1>3. <<e>> \in Seq(Event)
    OBVIOUS
  <1>4. QED
    BY <1>2, <1>3, PushFrontType DEF ReleaseNativeSteer

\* remove_event yields a queue state.
LEMMA RemoveEventType ==
  ASSUME NEW q \in QueueState, NEW c \in Channel, NEW e \in Event
  PROVE  RemoveEvent(ExtendInFlightDeadline(q, c), c, e) \in QueueState
  <1>1. Without(q.withheld[c], e) \in Seq(Event) /\ Without(q.queues[c], e) \in Seq(Event)
    BY WithoutType DEF QueueState
  <1>2. QED
    BY <1>1 DEF RemoveEvent, ExtendInFlightDeadline, QueueState

\* drain_channel yields a queue state.
LEMMA DrainChannelType ==
  ASSUME NEW q \in QueueState, NEW c \in Channel
  PROVE  DrainChannel(q, c) \in QueueState
  <1>1. \A f \in [Channel -> Seq(Event)] : [f EXCEPT ![c] = <<>>] \in [Channel -> Seq(Event)]
    OBVIOUS
  <1>2. [q.reasons EXCEPT ![c] = "none"] \in [Channel -> CancelReason \cup {"none"}]
    BY DEF QueueState
  <1>3. [q.retryCounts EXCEPT ![c] = 0] \in [Channel -> Nat]
    BY DEF QueueState
  <1>4. QED
    BY <1>1, <1>2, <1>3, ZenonT(60) DEF DrainChannel, QueueState

\* compact_expired_state yields a queue state.
LEMMA CompactExpiredStateType ==
  ASSUME NEW q \in QueueState
  PROVE  CompactExpiredState(q) \in QueueState
  BY DEF CompactExpiredState, QueueState

\* What flush_next returns: a batch of at least one event for a channel that was
\* not in flight, which it marks; the rest of the state stays but for the
\* channel's drained queue and its consumed cancelled batch.
LEMMA FlushNextEffect ==
  ASSUME NEW q \in QueueState, NEW r \in FlushNext(q)
  PROVE  LET c == r.batch.chan IN
         /\ r.batch \in Batch /\ r.batch.events # <<>>
         /\ r.q \in QueueState
         /\ c \in Channel \ q.inFlight
         /\ c \in q.throttled => q.cancelled[c] # <<>>
         /\ r.q.inFlight = q.inFlight \cup {c}
         /\ r.q.deadlines = q.deadlines \cup {c}
         /\ r.q.overdue = q.overdue \ {c}
         /\ r.q.throttled = q.throttled
         /\ r.q.retryCounts = q.retryCounts
         /\ r.q.withheld = q.withheld
         /\ r.q.cancelled = [q.cancelled EXCEPT ![c] = <<>>]
         /\ r.q.reasons = [q.reasons EXCEPT ![c] = "none"]
         /\ \A d \in Channel : Len(r.q.queues[d]) <= Len(q.queues[d])
  <1>1. CASE Ready(q) # {}
    <2>1. PICK c \in Ready(q) : r \in FlushQueued(q, c)
      BY <1>1 DEF FlushNext, Oldest
    <2>2. /\ c \in Channel /\ c \notin q.inFlight /\ c \notin q.throttled
          /\ q.queues[c] # <<>> /\ q.queues[c] \in Seq(Event)
      BY <2>1 DEF Ready, QueueState
    <2> DEFINE n == IF Len(q.queues[c]) < MaxBatch THEN Len(q.queues[c]) ELSE MaxBatch
               rest == SubSeq(q.queues[c], n + 1, Len(q.queues[c]))
               q1 == [q EXCEPT !.queues[c] = rest]
    <2>3. n \in 1..Len(q.queues[c]) /\ n \in 0..Len(q.queues[c])
      BY <2>2, LimitAssumption, EmptySeq
    <2>4. PICK evs \in StableSorts(SubSeq(q.queues[c], 1, n)) :
            r = [q     |-> Claim([q EXCEPT !.queues[c] = SubSeq(@, n + 1, Len(@))], c),
                 batch |-> [chan |-> c, events |-> evs, cancelled |-> q.cancelled[c],
                            reason |-> IF q.cancelled[c] = <<>> THEN "none" ELSE q.reasons[c]]]
      BY <2>1, Zenon DEF FlushQueued
    <2>5. q1 = [q EXCEPT !.queues[c] = SubSeq(@, n + 1, Len(@))]
      BY <2>2 DEF QueueState
    <2>6. /\ r.q = Claim(q1, c)
           /\ r.batch = [chan |-> c, events |-> evs, cancelled |-> q.cancelled[c],
                         reason |-> IF q.cancelled[c] = <<>> THEN "none" ELSE q.reasons[c]]
      BY <2>4, <2>5, Zenon
    <2> HIDE DEF n
    <2>7. /\ SubSeq(q.queues[c], 1, n) \in Seq(Event) /\ Len(SubSeq(q.queues[c], 1, n)) = n
          /\ rest \in Seq(Event) /\ Len(rest) = Len(q.queues[c]) - n
      BY <2>2, <2>3, SubSeqType
    <2>8. evs \in Seq(Event) /\ Len(evs) = n
      BY <2>7, StableSortsType
    <2>9. evs # <<>>
      BY <2>3, <2>8
    <2> HIDE DEF rest
    <2>10. q1 \in QueueState
      BY <2>7 DEF QueueState
    <2>11. r.q \in QueueState
      BY <2>2, <2>6, <2>10, ClaimType
    <2>12. r.batch \in Batch
      BY <2>2, <2>6, <2>8 DEF Batch, QueueState
    <2>13. \A d \in Channel : Len(r.q.queues[d]) <= Len(q.queues[d])
      BY <2>2, <2>3, <2>6, <2>7 DEF Claim, QueueState
    <2>14. QED
      BY <2>2, <2>6, <2>9, <2>11, <2>12, <2>13 DEF Claim, QueueState
  <1>2. CASE Ready(q) = {}
    <2>1. PICK c \in Interrupted(q) : r = FlushCancelled(q, c)
      BY <1>2 DEF FlushNext
    <2>2. /\ c \in Channel /\ c \notin q.inFlight
          /\ q.cancelled[c] # <<>> /\ q.cancelled[c] \in Seq(Event)
      BY <2>1 DEF Interrupted, QueueState
    <2>3. /\ r.q = Claim(q, c)
          /\ r.batch = [chan |-> c, events |-> q.cancelled[c], cancelled |-> <<>>,
                        reason |-> q.reasons[c]]
      BY <2>1 DEF FlushCancelled
    <2>4. r.q \in QueueState
      BY <2>2, <2>3, ClaimType
    <2>5. r.batch \in Batch
      BY <2>2, <2>3 DEF Batch, QueueState
    <2>6. \A d \in Channel : Len(r.q.queues[d]) <= Len(q.queues[d])
      BY <2>2, <2>3 DEF Claim, QueueState
    <2>7. QED
      BY <2>2, <2>3, <2>4, <2>5, <2>6 DEF Claim, QueueState
  <1>3. QED
    BY <1>1, <1>2

-----------------------------------------------------------------------------
(* The four properties that concern the queue alone, as one predicate on   *)
(* its state: handlers compose several methods in one step, and each       *)
(* method keeps it.                                                        *)

Marked(q) == q.inFlight = q.deadlines /\ q.overdue \subseteq q.deadlines
Bounded(q) == \A c \in Channel : Len(q.queues[c]) <= MaxPending
Counted(q) == \A c \in Channel : /\ q.retryCounts[c] <= MaxRetries
                                 /\ c \in q.throttled => q.retryCounts[c] >= 1
Reasoned(q) == \A c \in Channel : q.cancelled[c] # <<>> <=> q.reasons[c] # "none"

Sound(q) == Marked(q) /\ Bounded(q) /\ Counted(q) /\ Reasoned(q)

\* The trim after a bulk push_front restores the cap of every queue.
LEMMA PushFrontBounded ==
  ASSUME NEW q \in QueueState, NEW c \in Channel, NEW evs \in Seq(Event), Bounded(q)
  PROVE  Bounded(PushFront(q, c, evs))
  <1>1. evs \o q.queues[c] \in Seq(Event)
    BY ConcatProperties DEF QueueState
  <1>2. Len(TrimBack(evs \o q.queues[c])) <= MaxPending
    BY <1>1, TrimBackType
  <1>3. QED
    BY <1>2 DEF Bounded, PushFront, QueueState

\* A bulk push_front keeps a queue sound.
LEMMA PushFrontSound ==
  ASSUME NEW q \in QueueState, NEW c \in Channel, NEW evs \in Seq(Event), Sound(q)
  PROVE  Sound(PushFront(q, c, evs))
  <1>1. Bounded(PushFront(q, c, evs))
    BY PushFrontBounded DEF Sound
  <1>2. QED
    BY <1>1 DEF Sound, Marked, Counted, Reasoned, PushFront, QueueState

\* push keeps a queue sound: at the cap it evicts before it appends.
LEMMA PushSound ==
  ASSUME NEW q \in QueueState, NEW c \in Channel, NEW e \in Event, Sound(q)
  PROVE  Sound(Push(q, c, e))
  <1> DEFINE s == IF Len(q.queues[c]) >= MaxPending THEN Tail(q.queues[c]) ELSE q.queues[c]
  <1>1. q.queues[c] \in Seq(Event) /\ Len(q.queues[c]) <= MaxPending
    BY DEF Sound, Bounded, QueueState
  <1>2. s \in Seq(Event) /\ Len(s) < MaxPending
    BY <1>1, LimitAssumption, HeadTailProperties
  <1>3. Len(Append(s, e)) <= MaxPending
    BY <1>2, LimitAssumption, AppendProperties
  <1>4. Push(q, c, e) = [q EXCEPT !.queues[c] = Append(s, e)]
    BY <1>1 DEF Push, QueueState
  <1> HIDE DEF s
  <1>5. QED
    BY <1>3, <1>4 DEF Sound, Marked, Bounded, Counted, Reasoned, QueueState

\* The expiry block keeps a queue sound: mark and deadline go together, and
\* the recovered events are trimmed to the cap.
LEMMA ExpireSound ==
  ASSUME NEW q \in QueueState, Sound(q)
  PROVE  Sound(Expire(q))
  <1>1. \A c \in Channel : q.withheld[c] \o q.queues[c] \in Seq(Event)
    BY ConcatProperties DEF QueueState
  <1>2. \A c \in Channel : Len(Recovered(q, c)) <= MaxPending
    BY <1>1, TrimBackType DEF Recovered
  <1>3. Bounded(Expire(q))
    BY <1>2 DEF Sound, Bounded, Expire, QueueState
  <1>4. QED
    BY <1>3 DEF Sound, Marked, Counted, Reasoned, Expire, QueueState

\* flush_next keeps a queue sound: a reason leaves with its batch.
LEMMA FlushNextSound ==
  ASSUME NEW q \in QueueState, NEW r \in FlushNext(q), Sound(q)
  PROVE  Sound(r.q)
  <1> DEFINE c == r.batch.chan
  <1>1. /\ r.q \in QueueState /\ c \in Channel
        /\ r.q.inFlight = q.inFlight \cup {c} /\ r.q.deadlines = q.deadlines \cup {c}
        /\ r.q.overdue = q.overdue \ {c}
        /\ r.q.throttled = q.throttled /\ r.q.retryCounts = q.retryCounts
        /\ r.q.cancelled = [q.cancelled EXCEPT ![c] = <<>>]
        /\ r.q.reasons = [q.reasons EXCEPT ![c] = "none"]
        /\ \A d \in Channel : Len(r.q.queues[d]) <= Len(q.queues[d])
    BY FlushNextEffect
  <1> HIDE DEF c
  <1>2. Bounded(r.q)
    <2>1. \A d \in Channel : /\ Len(r.q.queues[d]) \in Nat /\ Len(q.queues[d]) \in Nat
                             /\ Len(q.queues[d]) <= MaxPending
      BY <1>1, SMTT(60) DEF Sound, Bounded, QueueState
    <2>2. QED
      BY <1>1, <2>1, LimitAssumption DEF Bounded
  <1>3. Marked(r.q)
    BY <1>1 DEF Sound, Marked
  <1>4. Counted(r.q)
    BY <1>1 DEF Sound, Counted
  <1>5. Reasoned(r.q)
    BY <1>1 DEF Sound, Reasoned, QueueState
  <1>6. QED
    BY <1>2, <1>3, <1>4, <1>5 DEF Sound

\* mark_complete keeps a queue sound: it spares the counter of a throttled channel.
LEMMA MarkCompleteSound ==
  ASSUME NEW q \in QueueState, NEW c \in Channel, Sound(q)
  PROVE  Sound(MarkComplete(q, c))
  BY LimitAssumption DEF Sound, Marked, Bounded, Counted, Reasoned, MarkComplete, QueueState

\* requeue keeps a queue sound: the counter never passes MaxRetries.
LEMMA RequeueSound ==
  ASSUME NEW q \in QueueState, NEW b \in Batch, Sound(q)
  PROVE  Sound(Requeue(q, b))
  <1>1. b.chan \in Channel /\ b.events \in Seq(Event)
    BY DEF Batch
  <1>2. CASE DeadLetters(q, b.chan)
    BY <1>1, <1>2, LimitAssumption
       DEF Requeue, Sound, Marked, Bounded, Counted, Reasoned, QueueState
  <1>3. CASE ~DeadLetters(q, b.chan)
    <2> DEFINE r == PushFront(q, b.chan, b.events)
    <2>1. r \in QueueState /\ Sound(r)
      BY <1>1, PushFrontType, PushFrontSound
    <2>2. r.retryCounts[b.chan] + 1 <= MaxRetries
      BY <1>1, <1>3, LimitAssumption DEF DeadLetters, PushFront, QueueState
    <2>3. Requeue(q, b) = [r EXCEPT !.retryCounts[b.chan] = @ + 1, !.throttled = @ \cup {b.chan}]
      BY <1>3 DEF Requeue
    <2> HIDE DEF r
    <2> DEFINE s == [r EXCEPT !.retryCounts[b.chan] = @ + 1, !.throttled = @ \cup {b.chan}]
    <2>4. /\ s.queues = r.queues /\ s.cancelled = r.cancelled /\ s.reasons = r.reasons
          /\ s.inFlight = r.inFlight /\ s.deadlines = r.deadlines /\ s.overdue = r.overdue
          /\ s.throttled = r.throttled \cup {b.chan}
          /\ s.retryCounts = [r.retryCounts EXCEPT ![b.chan] = @ + 1]
      BY <2>1 DEF QueueState
    <2> HIDE DEF s
    <2>5. Marked(s) /\ Bounded(s) /\ Reasoned(s)
      BY <2>1, <2>4 DEF Sound, Marked, Bounded, Reasoned
    <2>6. Counted(s)
      <3>1. r.retryCounts \in [Channel -> Nat] /\ Counted(r)
        BY <2>1 DEF QueueState, Sound
      <3>2. QED
        BY <1>1, <2>2, <2>4, <3>1 DEF Counted
    <2>7. QED
      BY <2>3, <2>5, <2>6 DEF Sound, s
  <1>4. QED
    BY <1>2, <1>3

\* requeue_as_cancelled keeps a queue sound, for a batch that carries an event.
LEMMA RequeueAsCancelledSound ==
  ASSUME NEW q \in QueueState, NEW b \in Batch, NEW reason \in CancelReason,
         Sound(q), b.events # <<>>
  PROVE  Sound(RequeueAsCancelled(q, b, reason))
  <1> DEFINE s == q.cancelled[b.chan] \o b.cancelled \o b.events
  <1>1. b.chan \in Channel /\ b.events \in Seq(Event) /\ b.cancelled \in Seq(Event)
    BY DEF Batch
  <1>2. q.cancelled[b.chan] \o b.cancelled \in Seq(Event)
    BY <1>1, ConcatProperties DEF QueueState
  <1>3. Len(s) = Len(q.cancelled[b.chan] \o b.cancelled) + Len(b.events)
    BY <1>1, <1>2, ConcatProperties
  <1>4. Len(b.events) > 0 /\ s \in Seq(Event)
    BY <1>1, <1>2, ConcatProperties, EmptySeq
  <1>5. s # <<>>
    BY <1>2, <1>3, <1>4
  <1>6. reason # "none"
    BY DEF CancelReason
  <1>7. RequeueAsCancelled(q, b, reason)
          = [q EXCEPT !.cancelled[b.chan] = s, !.reasons[b.chan] = reason]
    BY <1>1 DEF RequeueAsCancelled, QueueState
  <1> HIDE DEF s
  <1>8. QED
    BY <1>1, <1>5, <1>6, <1>7 DEF Sound, Marked, Bounded, Counted, Reasoned, QueueState

\* mark_native_steer_pending keeps a queue sound.
LEMMA MarkNativeSteerPendingSound ==
  ASSUME NEW q \in QueueState, NEW c \in Channel, NEW e \in Event, Sound(q)
  PROVE  Sound(MarkNativeSteerPending(q, c, e))
  <1>1. /\ Without(q.queues[c], e) \in Seq(Event)
        /\ Len(Without(q.queues[c], e)) <= Len(q.queues[c])
        /\ Len(q.queues[c]) <= MaxPending /\ Len(q.queues[c]) \in Nat
    BY WithoutType DEF QueueState, Sound, Bounded
  <1>2. Len(Without(q.queues[c], e)) <= MaxPending
    BY <1>1, LimitAssumption
  <1>3. QED
    BY <1>2 DEF MarkNativeSteerPending, Sound, Marked, Bounded, Counted, Reasoned, QueueState

\* release_native_steer keeps a queue sound.
LEMMA ReleaseNativeSteerSound ==
  ASSUME NEW q \in QueueState, NEW c \in Channel, NEW e \in Event, Sound(q)
  PROVE  Sound(ReleaseNativeSteer(q, c, e))
  <1>1. Without(q.withheld[c], e) \in Seq(Event)
    BY WithoutType DEF QueueState
  <1>2. [q EXCEPT !.withheld[c] = Without(@, e)] \in QueueState
    BY <1>1 DEF QueueState
  <1>3. Sound([q EXCEPT !.withheld[c] = Without(@, e)])
    BY DEF Sound, Marked, Bounded, Counted, Reasoned, QueueState
  <1>4. <<e>> \in Seq(Event)
    OBVIOUS
  <1>5. QED
    BY <1>2, <1>3, <1>4, PushFrontSound DEF ReleaseNativeSteer

\* remove_event keeps a queue sound.
LEMMA RemoveEventSound ==
  ASSUME NEW q \in QueueState, NEW c \in Channel, NEW e \in Event, Sound(q)
  PROVE  Sound(RemoveEvent(ExtendInFlightDeadline(q, c), c, e))
  <1>1. /\ Without(q.queues[c], e) \in Seq(Event)
        /\ Len(Without(q.queues[c], e)) <= Len(q.queues[c])
        /\ Len(q.queues[c]) <= MaxPending /\ Len(q.queues[c]) \in Nat
    BY WithoutType DEF QueueState, Sound, Bounded
  <1>2. Len(Without(q.queues[c], e)) <= MaxPending
    BY <1>1, LimitAssumption
  <1>3. QED
    BY <1>2 DEF RemoveEvent, ExtendInFlightDeadline,
                Sound, Marked, Bounded, Counted, Reasoned, QueueState

\* drain_channel keeps a queue sound: mark and deadline both stay.
LEMMA DrainChannelSound ==
  ASSUME NEW q \in QueueState, NEW c \in Channel, Sound(q)
  PROVE  Sound(DrainChannel(q, c))
  <1>1. Len(<<>>) <= MaxPending
    BY LimitAssumption
  <1>2. QED
    BY <1>1, LimitAssumption
       DEF DrainChannel, Sound, Marked, Bounded, Counted, Reasoned, QueueState

\* compact_expired_state keeps a queue sound: it spares throttled counters.
LEMMA CompactExpiredStateSound ==
  ASSUME NEW q \in QueueState, Sound(q)
  PROVE  Sound(CompactExpiredState(q))
  BY LimitAssumption DEF CompactExpiredState, Sound, Marked, Bounded, Counted, Reasoned, QueueState

\* Which methods touch in_flight_channels, and how.
LEMMA InFlightEffect ==
  ASSUME NEW q \in QueueState
  PROVE  /\ Expire(q).inFlight = q.inFlight \ q.overdue
         /\ CompactExpiredState(q).inFlight = q.inFlight
         /\ \A c \in Channel : /\ MarkComplete(q, c).inFlight = q.inFlight \ {c}
                              /\ DrainChannel(q, c).inFlight = q.inFlight
         /\ \A c \in Channel, e \in Event :
              /\ Push(q, c, e).inFlight = q.inFlight
              /\ MarkNativeSteerPending(q, c, e).inFlight = q.inFlight
              /\ ReleaseNativeSteer(q, c, e).inFlight = q.inFlight
              /\ RemoveEvent(ExtendInFlightDeadline(q, c), c, e).inFlight = q.inFlight
         /\ \A b \in Batch :
              /\ Requeue(q, b).inFlight = q.inFlight
              /\ RequeuePreserve(q, b).inFlight = q.inFlight
              /\ \A reason \in CancelReason : RequeueAsCancelled(q, b, reason).inFlight = q.inFlight
  <1>1. /\ Expire(q).inFlight = q.inFlight \ q.overdue
        /\ CompactExpiredState(q).inFlight = q.inFlight
    BY DEF Expire, CompactExpiredState, QueueState
  <1>2. \A c \in Channel : /\ MarkComplete(q, c).inFlight = q.inFlight \ {c}
                          /\ DrainChannel(q, c).inFlight = q.inFlight
    BY DEF MarkComplete, DrainChannel, QueueState
  <1>3. \A c \in Channel, e \in Event :
              /\ Push(q, c, e).inFlight = q.inFlight
              /\ MarkNativeSteerPending(q, c, e).inFlight = q.inFlight
              /\ ReleaseNativeSteer(q, c, e).inFlight = q.inFlight
              /\ RemoveEvent(ExtendInFlightDeadline(q, c), c, e).inFlight = q.inFlight
    BY DEF Push, MarkNativeSteerPending, ReleaseNativeSteer, PushFront, RemoveEvent,
           ExtendInFlightDeadline, QueueState
  <1>4. \A b \in Batch :
              /\ Requeue(q, b).inFlight = q.inFlight
              /\ RequeuePreserve(q, b).inFlight = q.inFlight
              /\ \A reason \in CancelReason : RequeueAsCancelled(q, b, reason).inFlight = q.inFlight
    BY DEF Requeue, RequeuePreserve, RequeueAsCancelled, PushFront, QueueState
  <1>5. QED
    BY <1>1, <1>2, <1>3, <1>4

-----------------------------------------------------------------------------
(* The inductive invariant.  BatchesNonEmpty is what ReasonMatchesBatch    *)
(* needs: cancelling an empty batch would store a reason without events.   *)

BatchesNonEmpty == \A b \in held : b.events # <<>>

Inv == TypeOK /\ Sound(eq) /\ InFlightHasBatch /\ BatchesNonEmpty

\* A new queue satisfies the inductive invariant.
LEMMA InitInv == Init => Inv
  <1> SUFFICES ASSUME Init PROVE Inv
    OBVIOUS
  <1>1. eq \in QueueState
    BY DEF Init, NewQueue, QueueState
  <1>2. Len(<<>>) <= MaxPending
    BY LimitAssumption
  <1>3. Sound(eq)
    BY <1>2, LimitAssumption DEF Init, NewQueue, Sound, Marked, Bounded, Counted, Reasoned
  <1>4. QED
    BY <1>1, <1>3 DEF Init, NewQueue, Inv, TypeOK, InFlightHasBatch, BatchesNonEmpty

\* A step that takes the batch b from its task and clears its channel's mark.
LEMMA SettleInv ==
  ASSUME Inv, NEW b \in held, eq' \in QueueState, Sound(eq'),
         eq'.inFlight = eq.inFlight \ {b.chan}, held' = held \ {b},
         UNCHANGED <<steering, arrived>>
  PROVE  Inv'
  <1>1. InFlightHasBatch'
    BY DEF Inv, InFlightHasBatch
  <1>2. QED
    BY <1>1 DEF Inv, TypeOK, BatchesNonEmpty

\* A step that takes no batch from a task and marks no channel.
LEMMA KeepInv ==
  ASSUME Inv, eq' \in QueueState, Sound(eq'), eq'.inFlight \subseteq eq.inFlight,
         held' = held, steering' \subseteq Attempt, arrived' \in Nat
  PROVE  Inv'
  <1>1. InFlightHasBatch'
    BY DEF Inv, InFlightHasBatch
  <1>2. QED
    BY <1>1 DEF Inv, TypeOK, BatchesNonEmpty

\* Every group of calls of the main loop preserves the inductive invariant.
LEMMA NextInv == Inv /\ [Next]_vars => Inv'
  <1> SUFFICES ASSUME Inv, [Next]_vars PROVE Inv'
    OBVIOUS
  <1>0. /\ eq \in QueueState /\ Sound(eq) /\ held \subseteq Batch
        /\ steering \subseteq Attempt /\ arrived \in Nat
    BY DEF Inv, TypeOK
  <1>1. ASSUME NEW c \in Channel, Receive(c) PROVE Inv'
    <2>1. arrived + 1 \in Event /\ arrived' \in Nat /\ UNCHANGED <<held, steering>>
      BY <1>0, <1>1 DEF Receive
    <2>2. eq' \in QueueState /\ Sound(eq') /\ eq'.inFlight = eq.inFlight
      BY <1>0, <1>1, <2>1, PushType, PushSound, InFlightEffect DEF Receive
    <2>3. QED
      BY <1>0, <2>1, <2>2, KeepInv
  <1>2. ASSUME NEW c \in Channel, ReceiveSteered(c) PROVE Inv'
    <2> DEFINE q == Push(eq, c, arrived + 1)
    <2>1. /\ arrived + 1 \in Event /\ arrived' \in Nat /\ UNCHANGED held
          /\ eq' = MarkNativeSteerPending(q, c, arrived + 1)
      BY <1>0, <1>2 DEF ReceiveSteered
    <2>2. steering' \subseteq Attempt
      BY <1>0, <1>2, <2>1 DEF ReceiveSteered, Attempt
    <2>3. q \in QueueState /\ Sound(q) /\ q.inFlight = eq.inFlight
      BY <1>0, <2>1, PushType, PushSound, InFlightEffect
    <2> HIDE DEF q
    <2>4. eq' \in QueueState /\ Sound(eq') /\ eq'.inFlight = eq.inFlight
      BY <2>1, <2>3, MarkNativeSteerPendingType, MarkNativeSteerPendingSound, InFlightEffect
    <2>5. QED
      BY <2>1, <2>2, <2>4, KeepInv
  <1>3. ASSUME Dispatch PROVE Inv'
    <2>1. Expire(eq) \in QueueState /\ Sound(Expire(eq))
      BY <1>0, ExpireType, ExpireSound
    <2>2. PICK r \in FlushNext(Expire(eq)) :
            eq' = r.q /\ held' = held \cup {r.batch} /\ UNCHANGED <<steering, arrived>>
      BY <1>3 DEF Dispatch
    <2>3. /\ r.batch \in Batch /\ r.batch.events # <<>> /\ eq' \in QueueState
          /\ eq'.inFlight = Expire(eq).inFlight \cup {r.batch.chan}
      BY <2>1, <2>2, FlushNextEffect
    <2>4. Sound(eq')
      BY <2>1, <2>2, FlushNextSound
    <2>5. Expire(eq).inFlight \subseteq eq.inFlight
      BY <1>0, InFlightEffect
    <2>6. InFlightHasBatch'
      BY <2>2, <2>3, <2>5 DEF Inv, InFlightHasBatch
    <2>7. QED
      BY <2>2, <2>3, <2>4, <2>6 DEF Inv, TypeOK, BatchesNonEmpty
  <1>4. ASSUME DispatchNoAgent PROVE Inv'
    <2>1. Expire(eq) \in QueueState /\ Sound(Expire(eq))
      BY <1>0, ExpireType, ExpireSound
    <2>2. PICK r \in FlushNext(Expire(eq)) :
            /\ eq' = MarkComplete(RequeuePreserve(r.q, r.batch), r.batch.chan)
            /\ UNCHANGED <<held, steering, arrived>>
      BY <1>4 DEF DispatchNoAgent
    <2> DEFINE q == RequeuePreserve(r.q, r.batch)
    <2>3. /\ r.batch \in Batch /\ r.batch.chan \in Channel /\ r.batch.events \in Seq(Event)
          /\ r.q \in QueueState
          /\ r.q.inFlight = Expire(eq).inFlight \cup {r.batch.chan}
      BY <2>1, <2>2, FlushNextEffect DEF Batch
    <2>4. Sound(r.q)
      BY <2>1, <2>2, FlushNextSound
    <2>5. q \in QueueState /\ q.inFlight = r.q.inFlight
      BY <2>3, RequeuePreserveType, InFlightEffect
    <2>6. Sound(q)
      BY <2>3, <2>4, PushFrontSound DEF RequeuePreserve
    <2>7. eq' = MarkComplete(q, r.batch.chan)
      BY <2>2
    <2> HIDE DEF q
    <2>8. eq' \in QueueState /\ Sound(eq') /\ eq'.inFlight = q.inFlight \ {r.batch.chan}
      BY <2>3, <2>5, <2>6, <2>7, MarkCompleteType, MarkCompleteSound, InFlightEffect
    <2>9. eq'.inFlight \subseteq eq.inFlight
      BY <1>0, <2>3, <2>5, <2>8, InFlightEffect
    <2>10. QED
      BY <1>0, <2>2, <2>8, <2>9, KeepInv
  <1>5. ASSUME CheckWork PROVE Inv'
    <2>1. eq' = Expire(eq) /\ UNCHANGED <<held, steering, arrived>>
      BY <1>5 DEF CheckWork
    <2>2. eq' \in QueueState /\ Sound(eq') /\ eq'.inFlight \subseteq eq.inFlight
      BY <1>0, <2>1, ExpireType, ExpireSound, InFlightEffect
    <2>3. QED
      BY <1>0, <2>1, <2>2, KeepInv
  <1>6. ASSUME NEW b \in held, Finish(b) PROVE Inv'
    <2>1. b \in Batch /\ b.chan \in Channel
      BY <1>0 DEF Batch
    <2>2. eq' = MarkComplete(eq, b.chan) /\ held' = held \ {b} /\ UNCHANGED <<steering, arrived>>
      BY <1>6 DEF Finish
    <2>3. eq' \in QueueState /\ Sound(eq') /\ eq'.inFlight = eq.inFlight \ {b.chan}
      BY <1>0, <2>1, <2>2, MarkCompleteType, MarkCompleteSound, InFlightEffect
    <2>4. QED
      BY <2>2, <2>3, SettleInv
  <1>7. ASSUME NEW b \in held, Fail(b) PROVE Inv'
    <2> DEFINE q == Requeue(eq, b)
    <2>1. b \in Batch /\ b.chan \in Channel
      BY <1>0 DEF Batch
    <2>2. eq' = MarkComplete(q, b.chan) /\ held' = held \ {b} /\ UNCHANGED <<steering, arrived>>
      BY <1>7 DEF Fail
    <2>3. q \in QueueState /\ Sound(q) /\ q.inFlight = eq.inFlight
      BY <1>0, <2>1, RequeueType, RequeueSound, InFlightEffect
    <2> HIDE DEF q
    <2>4. eq' \in QueueState /\ Sound(eq') /\ eq'.inFlight = eq.inFlight \ {b.chan}
      BY <2>1, <2>2, <2>3, MarkCompleteType, MarkCompleteSound, InFlightEffect
    <2>5. QED
      BY <2>2, <2>4, SettleInv
  <1>8. ASSUME NEW b \in held, NEW reason \in CancelReason, Cancel(b, reason) PROVE Inv'
    <2> DEFINE q == RequeueAsCancelled(eq, b, reason)
    <2>1. b \in Batch /\ b.chan \in Channel /\ b.events # <<>>
      BY <1>0 DEF Batch, Inv, BatchesNonEmpty
    <2>2. eq' = MarkComplete(q, b.chan) /\ held' = held \ {b} /\ UNCHANGED <<steering, arrived>>
      BY <1>8 DEF Cancel
    <2>3. q \in QueueState /\ Sound(q) /\ q.inFlight = eq.inFlight
      BY <1>0, <2>1, RequeueAsCancelledType, RequeueAsCancelledSound, InFlightEffect
    <2> HIDE DEF q
    <2>4. eq' \in QueueState /\ Sound(eq') /\ eq'.inFlight = eq.inFlight \ {b.chan}
      BY <2>1, <2>2, <2>3, MarkCompleteType, MarkCompleteSound, InFlightEffect
    <2>5. QED
      BY <2>2, <2>4, SettleInv
  <1>9. ASSUME NEW s \in steering, SteerDelivered(s) PROVE Inv'
    <2>1. s.chan \in Channel /\ s.event \in Event
      BY <1>0 DEF Attempt
    <2>2. /\ eq' = RemoveEvent(ExtendInFlightDeadline(eq, s.chan), s.chan, s.event)
          /\ steering' \subseteq Attempt /\ UNCHANGED <<held, arrived>>
      BY <1>0, <1>9 DEF SteerDelivered
    <2>3. eq' \in QueueState /\ Sound(eq') /\ eq'.inFlight = eq.inFlight
      BY <1>0, <2>1, <2>2, RemoveEventType, RemoveEventSound, InFlightEffect
    <2>4. QED
      BY <1>0, <2>2, <2>3, KeepInv
  <1>10. ASSUME NEW s \in steering, SteerReleased(s) PROVE Inv'
    <2>1. s.chan \in Channel /\ s.event \in Event
      BY <1>0 DEF Attempt
    <2>2. /\ eq' = ReleaseNativeSteer(eq, s.chan, s.event)
          /\ steering' \subseteq Attempt /\ UNCHANGED <<held, arrived>>
      BY <1>0, <1>10 DEF SteerReleased
    <2>3. eq' \in QueueState /\ Sound(eq') /\ eq'.inFlight = eq.inFlight
      BY <1>0, <2>1, <2>2, ReleaseNativeSteerType, ReleaseNativeSteerSound, InFlightEffect
    <2>4. QED
      BY <1>0, <2>2, <2>3, KeepInv
  <1>11. ASSUME NEW c \in Channel, Drain(c) PROVE Inv'
    <2>1. eq' = DrainChannel(eq, c) /\ UNCHANGED <<held, steering, arrived>>
      BY <1>11 DEF Drain
    <2>2. eq' \in QueueState /\ Sound(eq') /\ eq'.inFlight = eq.inFlight
      BY <1>0, <2>1, DrainChannelType, DrainChannelSound, InFlightEffect
    <2>3. QED
      BY <1>0, <2>1, <2>2, KeepInv
  <1>12. ASSUME Maintain PROVE Inv'
    <2> DEFINE q == CompactExpiredState(eq)
    <2>1. eq' = Expire(q) /\ UNCHANGED <<held, steering, arrived>>
      BY <1>12 DEF Maintain
    <2>2. q \in QueueState /\ Sound(q) /\ q.inFlight = eq.inFlight
      BY <1>0, CompactExpiredStateType, CompactExpiredStateSound, InFlightEffect
    <2> HIDE DEF q
    <2>3. eq' \in QueueState /\ Sound(eq') /\ eq'.inFlight \subseteq eq.inFlight
      BY <2>1, <2>2, ExpireType, ExpireSound, InFlightEffect
    <2>4. QED
      BY <1>0, <2>1, <2>3, KeepInv
  <1>13. ASSUME NEW c \in Channel, ThrottleEnds(c) PROVE Inv'
    <2>1. /\ eq' = [eq EXCEPT !.throttled = @ \ {c}]
          /\ UNCHANGED <<held, steering, arrived>>
      BY <1>13 DEF ThrottleEnds
    <2>2. eq' \in QueueState /\ eq'.inFlight = eq.inFlight
      BY <1>0, <2>1 DEF QueueState
    <2>3. Sound(eq')
      BY <1>0, <2>1 DEF Sound, Marked, Bounded, Counted, Reasoned, QueueState
    <2>4. QED
      BY <1>0, <2>1, <2>2, <2>3, KeepInv
  <1>14. ASSUME NEW c \in Channel, DeadlinePasses(c) PROVE Inv'
    <2>1. /\ eq' = [eq EXCEPT !.overdue = @ \cup {c}] /\ c \in eq.deadlines
          /\ UNCHANGED <<held, steering, arrived>>
      BY <1>14 DEF DeadlinePasses
    <2>2. eq' \in QueueState /\ eq'.inFlight = eq.inFlight
      BY <1>0, <2>1 DEF QueueState
    <2>3. Sound(eq')
      BY <1>0, <2>1 DEF Sound, Marked, Bounded, Counted, Reasoned, QueueState
    <2>4. QED
      BY <1>0, <2>1, <2>2, <2>3, KeepInv
  <1>15. CASE UNCHANGED vars
    BY <1>0, <1>15, KeepInv DEF vars
  <1>16. QED
    BY <1>1, <1>2, <1>3, <1>4, <1>5, <1>6, <1>7, <1>8, <1>9, <1>10, <1>11, <1>12,
       <1>13, <1>14, <1>15 DEF Next

\* Inv is an invariant of the queue.
THEOREM Invariance == Spec => []Inv
  BY InitInv, NextInv, PTL DEF Spec

\* The queue's state keeps its shape through every sequence of calls.
THEOREM TypeCorrect == Spec => []TypeOK
  <1>1. Inv => TypeOK
    BY DEF Inv
  <1>2. QED
    BY <1>1, Invariance, PTL

\* No channel stays blocked without a deadline that releases it, whatever order of
\* drain_channel, expiry, late mark_complete and extend_in_flight_deadline.
THEOREM InFlightDeadlines == Spec => []InFlightHasDeadline
  <1>1. Inv => InFlightHasDeadline
    BY DEF Inv, Sound, Marked, InFlightHasDeadline
  <1>2. QED
    BY <1>1, Invariance, PTL

\* No channel is marked busy without an unsettled batch.
THEOREM InFlightBatches == Spec => []InFlightHasBatch
  <1>1. Inv => InFlightHasBatch
    BY DEF Inv
  <1>2. QED
    BY <1>1, Invariance, PTL

\* MAX_PENDING_PER_CHANNEL bounds every queue, whatever is requeued, released or
\* recovered into it.
THEOREM QueuesBounded == Spec => []QueueBounded
  <1>1. Inv => QueueBounded
    BY DEF Inv, Sound, Bounded, QueueBounded
  <1>2. QED
    BY <1>1, Invariance, PTL

\* The retry counter stays within MAX_RETRIES and is never reset under a running
\* throttle.
THEOREM BackoffCounts == Spec => []BackoffCounted
  <1>1. Inv => BackoffCounted
    BY DEF Inv, Sound, Counted, BackoffCounted
  <1>2. QED
    BY <1>1, Invariance, PTL

\* A stored cancelled batch and its reason come and go together.
THEOREM ReasonsMatch == Spec => []ReasonMatchesBatch
  <1>1. Inv => ReasonMatchesBatch
    BY DEF Inv, Sound, Reasoned, ReasonMatchesBatch
  <1>2. QED
    BY <1>1, Invariance, PTL

-----------------------------------------------------------------------------
(* Sequences without repetitions.                                          *)

\* The elements of a sequence, by position.
LEMMA RangeIsElements ==
  ASSUME NEW S, NEW s \in Seq(S)
  PROVE  Range(s) = {s[i] : i \in 1..Len(s)} /\ Range(s) \subseteq S
  BY DEF Range

\* A sequence repeats nothing iff its parts repeat nothing and have nothing in common.
LEMMA ConcatInjective ==
  ASSUME NEW S, NEW s \in Seq(S), NEW t \in Seq(S)
  PROVE  /\ s \o t \in Seq(S) /\ Range(s \o t) = Range(s) \cup Range(t)
         /\ IsInjective(s \o t) <=> /\ IsInjective(s) /\ IsInjective(t)
                                    /\ Range(s) \cap Range(t) = {}
  <1> DEFINE m == Len(s)
             n == Len(t)
             u == s \o t
  <1>1. /\ m \in Nat /\ n \in Nat /\ u \in Seq(S) /\ Len(u) = m + n
        /\ DOMAIN s = 1..m /\ DOMAIN t = 1..n /\ DOMAIN u = 1..(m + n)
    BY ConcatProperties
  <1>2. /\ \A i \in 1..m : u[i] = s[i]
        /\ \A i \in 1..n : u[m + i] = t[i]
    <2>1. \A i \in 1..(m + n) : u[i] = IF i <= m THEN s[i] ELSE t[i - m]
      BY ConcatProperties
    <2>2. ASSUME NEW i \in 1..n PROVE u[m + i] = t[i]
      <3>1. m + i \in 1..(m + n) /\ ~(m + i <= m) /\ (m + i) - m = i
        BY <1>1
      <3>2. QED
        BY <2>1, <3>1
    <2>3. ASSUME NEW i \in 1..m PROVE u[i] = s[i]
      BY <1>1, <2>1
    <2>4. QED
      BY <2>2, <2>3
  <1>3. Range(s) = {s[i] : i \in 1..m} /\ Range(t) = {t[i] : i \in 1..n} /\ Range(u) = {u[i] : i \in 1..(m + n)}
    BY <1>1, RangeIsElements
  <1> HIDE DEF m, n, u
  <1>4. \A k \in 1..(m + n) : k \in 1..m \/ \E i \in 1..n : k = m + i
    <2> SUFFICES ASSUME NEW k \in 1..(m + n), k \notin 1..m PROVE \E i \in 1..n : k = m + i
      OBVIOUS
    <2>1. k - m \in 1..n /\ k = m + (k - m)
      BY <1>1
    <2>2. QED
      BY <2>1
  <1>5. \A i \in 1..m, j \in 1..n : i \in 1..(m + n) /\ m + j \in 1..(m + n) /\ i # m + j
    BY <1>1
  <1>6. \A i, j \in 1..n : m + i = m + j => i = j
    BY <1>1
  <1>7. Range(u) = Range(s) \cup Range(t)
    <2>1. Range(u) \subseteq Range(s) \cup Range(t)
      BY <1>2, <1>3, <1>4
    <2>2. Range(s) \subseteq Range(u)
      <3>1. \A i \in 1..m : i \in 1..(m + n)
        BY <1>1
      <3>2. QED
        BY <1>2, <1>3, <3>1
    <2>3. Range(t) \subseteq Range(u)
      <3>1. \A i \in 1..n : m + i \in 1..(m + n)
        BY <1>1
      <3>2. QED
        BY <1>2, <1>3, <3>1
    <2>4. QED
      BY <2>1, <2>2, <2>3
  <1>8. ASSUME IsInjective(u)
        PROVE  IsInjective(s) /\ IsInjective(t) /\ Range(s) \cap Range(t) = {}
    <2>1. \A i, j \in 1..(m + n) : u[i] = u[j] => i = j
      BY <1>1, <1>8 DEF IsInjective
    <2>2. IsInjective(s)
      <3>1. \A i \in 1..m : i \in 1..(m + n)
        BY <1>1
      <3>2. QED
        BY <1>1, <1>2, <2>1, <3>1 DEF IsInjective
    <2>3. IsInjective(t)
      <3>1. \A i \in 1..n : m + i \in 1..(m + n)
        BY <1>1
      <3>2. QED
        BY <1>1, <1>2, <1>6, <2>1, <3>1 DEF IsInjective
    <2>4. Range(s) \cap Range(t) = {}
      <3>1. ASSUME NEW i \in 1..m, NEW j \in 1..n PROVE s[i] # t[j]
        BY <1>2, <1>5, <2>1
      <3>2. QED
        BY <1>3, <3>1
    <2>5. QED
      BY <2>2, <2>3, <2>4
  <1>9. ASSUME IsInjective(s), IsInjective(t), Range(s) \cap Range(t) = {}
        PROVE  IsInjective(u)
    <2>1. \A i \in 1..m, j \in 1..n : s[i] # t[j]
      BY <1>3, <1>9
    <2>2. /\ \A i, j \in 1..m : s[i] = s[j] => i = j
          /\ \A i, j \in 1..n : t[i] = t[j] => i = j
      BY <1>1, <1>9 DEF IsInjective
    <2>3. ASSUME NEW k \in 1..(m + n), NEW l \in 1..(m + n), u[k] = u[l]
          PROVE  k = l
      <3>1. CASE k \in 1..m /\ l \in 1..m
        BY <1>2, <2>2, <2>3, <3>1
      <3>2. CASE k \in 1..m /\ l \notin 1..m
        <4>1. PICK j \in 1..n : l = m + j
          BY <1>4, <3>2
        <4>2. QED
          BY <1>2, <2>1, <2>3, <3>2, <4>1
      <3>3. CASE k \notin 1..m /\ l \in 1..m
        <4>1. PICK j \in 1..n : k = m + j
          BY <1>4, <3>3
        <4>2. QED
          BY <1>2, <2>1, <2>3, <3>3, <4>1
      <3>4. CASE k \notin 1..m /\ l \notin 1..m
        <4>1. PICK i \in 1..n : k = m + i
          BY <1>4, <3>4
        <4>2. PICK j \in 1..n : l = m + j
          BY <1>4, <3>4
        <4>3. QED
          BY <1>2, <2>2, <2>3, <4>1, <4>2
      <3>5. QED
        BY <3>1, <3>2, <3>3, <3>4
    <2>4. QED
      BY <1>1, <2>3 DEF IsInjective
  <1>10. QED
    BY <1>1, <1>7, <1>8, <1>9 DEF u

\* A sequence is a prefix and the rest.
LEMMA SplitSeq ==
  ASSUME NEW S, NEW s \in Seq(S), NEW n \in 0..Len(s)
  PROVE  s = SubSeq(s, 1, n) \o SubSeq(s, n + 1, Len(s))
  <1> DEFINE a == SubSeq(s, 1, n)
             b == SubSeq(s, n + 1, Len(s))
  <1>0. Len(s) \in Nat /\ n \in Nat /\ n <= Len(s)
    OBVIOUS
  <1>1. /\ a \in Seq(S) /\ Len(a) = n /\ b \in Seq(S) /\ Len(b) = Len(s) - n
    BY SubSeqType
  <1>2. \A i \in 1..n : a[i] = s[i]
    BY <1>0
  <1>3. \A i \in 1..(Len(s) - n) : b[i] = s[n + i]
    BY <1>0
  <1> HIDE DEF a, b
  <1>4. a \o b \in Seq(S) /\ Len(a \o b) = Len(s)
    <2>1. a \o b \in Seq(S) /\ Len(a \o b) = Len(a) + Len(b)
      BY <1>1, ConcatProperties
    <2>2. QED
      BY <1>0, <1>1, <2>1
  <1>5. ASSUME NEW i \in 1..Len(s) PROVE (a \o b)[i] = s[i]
    <2>1. (a \o b)[i] = IF i <= n THEN a[i] ELSE b[i - n]
      BY <1>0, <1>1, ConcatProperties
    <2>2. CASE i <= n
      BY <1>0, <1>2, <2>1, <2>2
    <2>3. CASE ~(i <= n)
      <3>1. i - n \in 1..(Len(s) - n) /\ n + (i - n) = i
        BY <1>0, <2>3
      <3>2. QED
        BY <1>3, <2>1, <2>3, <3>1
    <2>4. QED
      BY <2>2, <2>3
  <1>6. s = a \o b
    BY <1>4, <1>5, SeqEqual
  <1>7. QED
    BY <1>6 DEF a, b

\* The two parts of a sequence that repeats nothing.
LEMMA SplitInjective ==
  ASSUME NEW s \in Seq(Event), NEW n \in 0..Len(s), IsInjective(s)
  PROVE  LET a == SubSeq(s, 1, n)
             b == SubSeq(s, n + 1, Len(s))
         IN /\ a \in Seq(Event) /\ b \in Seq(Event)
            /\ IsInjective(a) /\ IsInjective(b) /\ Range(a) \cap Range(b) = {}
            /\ Range(a) \cup Range(b) = Range(s)
  <1> DEFINE a == SubSeq(s, 1, n)
             b == SubSeq(s, n + 1, Len(s))
  <1>1. a \in Seq(Event) /\ b \in Seq(Event)
    BY SubSeqType
  <1>2. s = a \o b
    BY SplitSeq
  <1> HIDE DEF a, b
  <1>3. IsInjective(a \o b) /\ Range(a \o b) = Range(s)
    BY <1>2
  <1>4. /\ IsInjective(a) /\ IsInjective(b) /\ Range(a) \cap Range(b) = {}
        /\ Range(a) \cup Range(b) = Range(s)
    BY <1>1, <1>3, ConcatInjective
  <1>5. QED
    BY <1>1, <1>4 DEF a, b

\* Cutting a queue back to its cap keeps part of it.
LEMMA TrimBackInjective ==
  ASSUME NEW s \in Seq(Event), IsInjective(s)
  PROVE  TrimBack(s) \in Seq(Event) /\ IsInjective(TrimBack(s)) /\ Range(TrimBack(s)) \subseteq Range(s)
  <1>1. CASE Len(s) > MaxPending
    <2>1. MaxPending \in 0..Len(s)
      BY <1>1, LimitAssumption
    <2>2. QED
      BY <1>1, <2>1, SplitInjective DEF TrimBack
  <1>2. CASE ~(Len(s) > MaxPending)
    BY <1>2 DEF TrimBack
  <1>3. QED
    BY <1>1, <1>2

\* Evicting the oldest event keeps the others.
LEMMA TailInjective ==
  ASSUME NEW s \in Seq(Event), s # <<>>, IsInjective(s)
  PROVE  Tail(s) \in Seq(Event) /\ IsInjective(Tail(s)) /\ Range(Tail(s)) \subseteq Range(s)
  <1>1. 1 \in 0..Len(s)
    BY EmptySeq
  <1>2. LET b == SubSeq(s, 1 + 1, Len(s))
        IN  b \in Seq(Event) /\ IsInjective(b) /\ Range(b) \subseteq Range(s)
    BY <1>1, SplitInjective
  <1>3. Tail(s) = SubSeq(s, 1 + 1, Len(s))
    BY TailIsSubSeq
  <1>4. QED
    BY <1>2, <1>3, Zenon

\* One event more, at the back or at the front.
LEMMA AppendInjectiveSeq ==
  ASSUME NEW s \in Seq(Event), NEW e \in Event, IsInjective(s), e \notin Range(s)
  PROVE  /\ Append(s, e) \in Seq(Event) /\ IsInjective(Append(s, e))
         /\ Range(Append(s, e)) = Range(s) \cup {e}
  <1>1. <<e>> \in Seq(Event) /\ IsInjective(<<e>>) /\ Range(<<e>>) = {e}
    BY DEF IsInjective, Range
  <1>2. Append(s, e) = s \o <<e>>
    BY AppendIsConcat
  <1> DEFINE t == <<e>>
  <1>3. t \in Seq(Event) /\ IsInjective(t) /\ Range(t) = {e} /\ Append(s, e) = s \o t
    BY <1>1, <1>2
  <1> HIDE DEF t
  <1>4. Range(s) \cap Range(t) = {}
    BY <1>3
  <1>5. s \o t \in Seq(Event) /\ IsInjective(s \o t) /\ Range(s \o t) = Range(s) \cup Range(t)
    BY <1>3, <1>4, ConcatInjective
  <1>6. QED
    BY <1>3, <1>5

\* Taking an event out takes it out for good.
LEMMA WithoutInjective ==
  ASSUME NEW s \in Seq(Event), NEW e, IsInjective(s)
  PROVE  /\ Without(s, e) \in Seq(Event) /\ IsInjective(Without(s, e))
         /\ Range(Without(s, e)) \subseteq Range(s) \ {e}
  <1>1. CASE e \notin Range(s)
    BY <1>1 DEF Without
  <1>2. CASE e \in Range(s)
    <2> DEFINE k == CHOOSE k \in DOMAIN s : s[k] = e
    <2>1. k \in DOMAIN s /\ s[k] = e
      BY <1>2 DEF Range
    <2>2. k \in 1..Len(s) /\ Len(s) \in Nat /\ k - 1 \in 0..Len(s) /\ k \in 0..Len(s)
      BY <2>1
    <2>3. Without(s, e) = SubSeq(s, 1, k - 1) \o SubSeq(s, k + 1, Len(s))
      BY <1>2 DEF Without
    <2> HIDE DEF k
    <2> DEFINE a == SubSeq(s, 1, k - 1)
               b == SubSeq(s, k + 1, Len(s))
    <2>4. /\ a \in Seq(Event) /\ IsInjective(a) /\ Range(a) \subseteq Range(s)
      BY <2>2, SplitInjective
    <2>5. /\ b \in Seq(Event) /\ IsInjective(b) /\ Range(b) \subseteq Range(s)
      BY <2>2, SplitInjective
    <2>6. Len(a) = k - 1 /\ Len(b) = Len(s) - k
      BY <2>2, SubSeqType
    <2>7. \A i \in 1..(k - 1) : a[i] = s[i]
      BY <2>2
    <2>8. \A i \in 1..(Len(s) - k) : b[i] = s[k + i]
      BY <2>2
    <2> HIDE DEF a, b
    <2>9. Range(a) = {a[i] : i \in 1..(k - 1)} /\ Range(b) = {b[i] : i \in 1..(Len(s) - k)}
      BY <2>4, <2>5, <2>6, RangeIsElements
    <2>10. \A i, j \in 1..Len(s) : s[i] = s[j] => i = j
      BY DEF IsInjective
    <2>11. /\ \A i \in 1..(k - 1) : i \in 1..Len(s) /\ i # k
           /\ \A i \in 1..(Len(s) - k) : k + i \in 1..Len(s) /\ k + i # k
      BY <2>2
    <2>12. e \notin Range(a)
      BY <2>1, <2>2, <2>7, <2>9, <2>10, <2>11
    <2>13. e \notin Range(b)
      <3>1. ASSUME NEW i \in 1..(Len(s) - k) PROVE b[i] # e
        BY <2>1, <2>2, <2>8, <2>10, <2>11
      <3>2. QED
        BY <2>9, <3>1
    <2>14. Range(a) \cap Range(b) = {}
      <3>1. \A i \in 1..(k - 1), j \in 1..(Len(s) - k) : i # k + j
        BY <2>2
      <3>2. \A i \in 1..(k - 1), j \in 1..(Len(s) - k) : a[i] # b[j]
        BY <2>7, <2>8, <2>10, <2>11, <3>1
      <3>3. QED
        BY <2>9, <3>2
    <2>15. /\ a \o b \in Seq(Event) /\ IsInjective(a \o b)
           /\ Range(a \o b) = Range(a) \cup Range(b)
      BY <2>4, <2>5, <2>14, ConcatInjective
    <2>16. Without(s, e) = a \o b
      BY <2>3 DEF a, b
    <2>17. QED
      BY <2>4, <2>5, <2>12, <2>13, <2>15, <2>16
  <1>3. QED
    BY <1>1, <1>2

\* Sorting a batch neither adds nor repeats an event.
LEMMA SortInjective ==
  ASSUME NEW s \in Seq(Event), IsInjective(s), NEW t \in StableSorts(s)
  PROVE  t \in Seq(Event) /\ IsInjective(t) /\ Range(t) \subseteq Range(s)
  <1>1. PICK p \in Bijection(DOMAIN s, DOMAIN s) : t = [i \in DOMAIN s |-> s[p[i]]]
    BY DEF StableSorts
  <1>2. p \in [DOMAIN s -> DOMAIN s] /\ \A i, j \in DOMAIN s : p[i] = p[j] => i = j
    BY DEF Bijection, Injection, IsInjective
  <1>3. DOMAIN t = DOMAIN s /\ \A i \in DOMAIN s : t[i] = s[p[i]] /\ p[i] \in DOMAIN s
    BY <1>1, <1>2
  <1>4. IsInjective(t)
    BY <1>2, <1>3 DEF IsInjective
  <1>5. Range(t) \subseteq Range(s)
    BY <1>3 DEF Range
  <1>6. QED
    BY <1>4, <1>5, StableSortsType

-----------------------------------------------------------------------------
(* Where the events of a channel are: withheld, queued or stored as        *)
(* cancelled.  Each method moves events between these stores and the       *)
(* batch it is given or returns.                                           *)

Stored(q, c) == Range(q.withheld[c]) \cup Range(q.queues[c]) \cup Range(q.cancelled[c])

Apart(q, c) ==
  /\ IsInjective(q.withheld[c]) /\ IsInjective(q.queues[c]) /\ IsInjective(q.cancelled[c])
  /\ Range(q.withheld[c]) \cap Range(q.queues[c]) = {}
  /\ Range(q.withheld[c]) \cap Range(q.cancelled[c]) = {}
  /\ Range(q.queues[c]) \cap Range(q.cancelled[c]) = {}

SameStores(q, r, c) ==
  r.withheld[c] = q.withheld[c] /\ r.queues[c] = q.queues[c] /\ r.cancelled[c] = q.cancelled[c]

\* The stores of a queue state are sequences.
LEMMA StoresType ==
  ASSUME NEW q \in QueueState, NEW c \in Channel
  PROVE  q.withheld[c] \in Seq(Event) /\ q.queues[c] \in Seq(Event) /\ q.cancelled[c] \in Seq(Event)
  BY DEF QueueState

\* The empty sequence repeats nothing.
LEMMA EmptyInjective == IsInjective(<<>>) /\ Range(<<>>) = {}
  BY DEF IsInjective, Range

\* What the property calls injective is that the stores are apart.
LEMMA ApartIsInjective ==
  ASSUME NEW q \in QueueState, NEW c \in Channel
  PROVE  LET w == q.withheld[c] \o q.queues[c] \o q.cancelled[c]
         IN (IsInjective(w) <=> Apart(q, c)) /\ Range(w) = Stored(q, c)
  <1> DEFINE a == q.withheld[c]
             b == q.queues[c]
             d == q.cancelled[c]
  <1>1. a \in Seq(Event) /\ b \in Seq(Event) /\ d \in Seq(Event)
    BY StoresType
  <1> HIDE DEF a, b, d
  <1>2. /\ a \o b \in Seq(Event) /\ Range(a \o b) = Range(a) \cup Range(b)
        /\ IsInjective(a \o b) <=> IsInjective(a) /\ IsInjective(b) /\ Range(a) \cap Range(b) = {}
    BY <1>1, ConcatInjective
  <1>3. PICK ab : ab = a \o b
    OBVIOUS
  <1>4. /\ Range(ab \o d) = Range(ab) \cup Range(d)
        /\ IsInjective(ab \o d) <=> IsInjective(ab) /\ IsInjective(d) /\ Range(ab) \cap Range(d) = {}
    BY <1>1, <1>2, <1>3, ConcatInjective, ZenonT(60)
  <1>5. /\ Range(ab \o d) = Range(a) \cup Range(b) \cup Range(d)
        /\ IsInjective(ab \o d) <=> /\ IsInjective(a) /\ IsInjective(b) /\ IsInjective(d)
                                    /\ Range(a) \cap Range(b) = {}
                                    /\ Range(a) \cap Range(d) = {}
                                    /\ Range(b) \cap Range(d) = {}
    BY <1>2, <1>3, <1>4
  <1>6. QED
    BY <1>3, <1>5 DEF a, b, d, Apart, Stored

\* The methods that move no event.
LEMMA UnmovedPlaces ==
  ASSUME NEW q \in QueueState, NEW d \in Channel
  PROVE  /\ SameStores(q, CompactExpiredState(q), d)
         /\ \A c \in Channel : /\ SameStores(q, MarkComplete(q, c), d)
                               /\ SameStores(q, ExtendInFlightDeadline(q, c), d)
         /\ \A S : /\ SameStores(q, [q EXCEPT !.throttled = S], d)
                   /\ SameStores(q, [q EXCEPT !.overdue = S], d)
  BY DEF SameStores, CompactExpiredState, MarkComplete, ExtendInFlightDeadline, QueueState

\* Expiry moves withheld events back to the queue, as far as they fit.
LEMMA ExpirePlaces ==
  ASSUME NEW q \in QueueState, NEW c \in Channel, Apart(q, c)
  PROVE  /\ Apart(Expire(q), c) /\ Stored(Expire(q), c) \subseteq Stored(q, c)
         /\ Range(Expire(q).withheld[c]) \subseteq Range(q.withheld[c])
         /\ q.overdue = {} => SameStores(q, Expire(q), c)
  <1>1. /\ Expire(q).queues[c] = IF c \in q.overdue THEN TrimBack(q.withheld[c] \o q.queues[c]) ELSE q.queues[c]
        /\ Expire(q).withheld[c] = IF c \in q.overdue THEN <<>> ELSE q.withheld[c]
        /\ Expire(q).cancelled[c] = q.cancelled[c]
    BY DEF Expire, Recovered, QueueState
  <1>2. CASE c \notin q.overdue
    BY <1>1, <1>2 DEF Apart, Stored, SameStores
  <1>3. CASE c \in q.overdue
    <2>1. PICK s : s = q.withheld[c] \o q.queues[c]
      OBVIOUS
    <2>2. s \in Seq(Event) /\ IsInjective(s) /\ Range(s) = Range(q.withheld[c]) \cup Range(q.queues[c])
      BY <2>1, StoresType, ConcatInjective DEF Apart
    <2>3. IsInjective(TrimBack(s)) /\ Range(TrimBack(s)) \subseteq Range(s)
      BY <2>2, TrimBackInjective
    <2>4. /\ Expire(q).queues[c] = TrimBack(s) /\ Expire(q).withheld[c] = <<>>
          /\ Expire(q).cancelled[c] = q.cancelled[c]
      BY <1>1, <1>3, <2>1
    <2>5. QED
      BY <1>3, <2>2, <2>3, <2>4, EmptyInjective DEF Apart, Stored
  <1>4. QED
    BY <1>2, <1>3

\* A bulk push_front of events that are nowhere in the channel.
LEMMA PushFrontPlaces ==
  ASSUME NEW q \in QueueState, NEW c \in Channel, Apart(q, c), NEW evs \in Seq(Event),
         IsInjective(evs), Range(evs) \cap Stored(q, c) = {}
  PROVE  LET r == PushFront(q, c, evs)
         IN /\ \A d \in Channel \ {c} : SameStores(q, r, d)
            /\ Apart(r, c) /\ r.withheld[c] = q.withheld[c] /\ r.cancelled[c] = q.cancelled[c]
            /\ Range(r.queues[c]) \subseteq Range(q.queues[c]) \cup Range(evs)
  <1> DEFINE r == PushFront(q, c, evs)
  <1>1. PICK s : s = evs \o q.queues[c]
    OBVIOUS
  <1>2. /\ \A d \in Channel \ {c} : SameStores(q, r, d)
        /\ r.withheld[c] = q.withheld[c] /\ r.cancelled[c] = q.cancelled[c]
        /\ r.queues[c] = TrimBack(s)
    BY <1>1 DEF PushFront, SameStores, QueueState
  <1> HIDE DEF r
  <1>3. Range(evs) \cap Range(q.queues[c]) = {}
    BY DEF Stored
  <1>4. s \in Seq(Event) /\ IsInjective(s) /\ Range(s) = Range(evs) \cup Range(q.queues[c])
    BY <1>1, <1>3, StoresType, ConcatInjective DEF Apart
  <1>5. IsInjective(TrimBack(s)) /\ Range(TrimBack(s)) \subseteq Range(s)
    BY <1>4, TrimBackInjective
  <1>6. Apart(r, c) /\ Range(r.queues[c]) \subseteq Range(q.queues[c]) \cup Range(evs)
    BY <1>2, <1>4, <1>5 DEF Apart, Stored
  <1>7. QED
    BY <1>2, <1>6 DEF r

\* push of an event that is nowhere in the channel.
LEMMA PushPlaces ==
  ASSUME NEW q \in QueueState, NEW c \in Channel, Apart(q, c), NEW e \in Event, e \notin Stored(q, c)
  PROVE  LET r == Push(q, c, e)
         IN /\ \A d \in Channel \ {c} : SameStores(q, r, d)
            /\ Apart(r, c) /\ r.withheld[c] = q.withheld[c] /\ r.cancelled[c] = q.cancelled[c]
            /\ Range(r.queues[c]) \subseteq Range(q.queues[c]) \cup {e}
            /\ e \in Range(r.queues[c])
  <1> DEFINE r == Push(q, c, e)
  <1>1. PICK s : s = IF Len(q.queues[c]) >= MaxPending THEN Tail(q.queues[c]) ELSE q.queues[c]
    OBVIOUS
  <1>2. /\ \A d \in Channel \ {c} : SameStores(q, r, d)
        /\ r.withheld[c] = q.withheld[c] /\ r.cancelled[c] = q.cancelled[c]
        /\ r.queues[c] = Append(s, e)
    BY <1>1 DEF Push, SameStores, QueueState
  <1> HIDE DEF r
  <1>3. s \in Seq(Event) /\ IsInjective(s) /\ Range(s) \subseteq Range(q.queues[c])
    <2>1. Len(q.queues[c]) >= MaxPending => q.queues[c] # <<>>
      BY LimitAssumption, EmptySeq
    <2>2. QED
      BY <1>1, <2>1, StoresType, TailInjective DEF Apart
  <1>4. e \notin Range(s)
    BY <1>3 DEF Stored
  <1>5. IsInjective(Append(s, e)) /\ Range(Append(s, e)) = Range(s) \cup {e}
    BY <1>3, <1>4, AppendInjectiveSeq
  <1>6. /\ Apart(r, c) /\ Range(r.queues[c]) \subseteq Range(q.queues[c]) \cup {e}
        /\ e \in Range(r.queues[c])
    BY <1>2, <1>3, <1>5 DEF Apart, Stored
  <1>7. QED
    BY <1>2, <1>6 DEF r

\* mark_native_steer_pending moves a queued event to the withheld store.
LEMMA PendingPlaces ==
  ASSUME NEW q \in QueueState, NEW c \in Channel, Apart(q, c), NEW e \in Event, e \in Range(q.queues[c])
  PROVE  LET r == MarkNativeSteerPending(q, c, e)
         IN /\ \A d \in Channel \ {c} : SameStores(q, r, d)
            /\ Apart(r, c) /\ r.cancelled[c] = q.cancelled[c]
            /\ Range(r.queues[c]) \subseteq Range(q.queues[c]) \ {e}
            /\ Range(r.withheld[c]) = Range(q.withheld[c]) \cup {e}
  <1> DEFINE r == MarkNativeSteerPending(q, c, e)
  <1>1. /\ \A d \in Channel \ {c} : SameStores(q, r, d)
        /\ r.queues[c] = Without(q.queues[c], e) /\ r.cancelled[c] = q.cancelled[c]
        /\ r.withheld[c] = Append(q.withheld[c], e)
    BY DEF MarkNativeSteerPending, SameStores, QueueState
  <1> HIDE DEF r
  <1>2. /\ IsInjective(Without(q.queues[c], e))
        /\ Range(Without(q.queues[c], e)) \subseteq Range(q.queues[c]) \ {e}
    BY StoresType, WithoutInjective DEF Apart
  <1>3. e \notin Range(q.withheld[c]) /\ e \notin Range(q.cancelled[c])
    BY DEF Apart
  <1>4. /\ IsInjective(Append(q.withheld[c], e))
        /\ Range(Append(q.withheld[c], e)) = Range(q.withheld[c]) \cup {e}
    BY <1>3, StoresType, AppendInjectiveSeq DEF Apart
  <1>5. /\ Apart(r, c) /\ Range(r.queues[c]) \subseteq Range(q.queues[c]) \ {e}
        /\ Range(r.withheld[c]) = Range(q.withheld[c]) \cup {e}
    BY <1>1, <1>2, <1>3, <1>4 DEF Apart
  <1>6. QED
    BY <1>1, <1>5 DEF r

\* release_native_steer moves it back.
LEMMA ReleasePlaces ==
  ASSUME NEW q \in QueueState, NEW c \in Channel, Apart(q, c), NEW e \in Event
  PROVE  LET r == ReleaseNativeSteer(q, c, e)
         IN /\ \A d \in Channel \ {c} : SameStores(q, r, d)
            /\ Apart(r, c) /\ r.cancelled[c] = q.cancelled[c]
            /\ Range(r.queues[c]) \subseteq Range(q.queues[c]) \cup (Range(q.withheld[c]) \cap {e})
            /\ Range(r.withheld[c]) \subseteq Range(q.withheld[c]) \ {e}
  <1>1. CASE e \notin Range(q.withheld[c])
    BY <1>1 DEF ReleaseNativeSteer, SameStores, Apart
  <1>2. CASE e \in Range(q.withheld[c])
    <2>1. PICK w : w = Without(q.withheld[c], e)
      OBVIOUS
    <2>2. PICK p : p = [q EXCEPT !.withheld[c] = w]
      OBVIOUS
    <2>3. w \in Seq(Event) /\ IsInjective(w) /\ Range(w) \subseteq Range(q.withheld[c]) \ {e}
      BY <2>1, StoresType, WithoutInjective DEF Apart
    <2>4. /\ p \in QueueState /\ p.withheld[c] = w /\ p.queues[c] = q.queues[c]
          /\ p.cancelled[c] = q.cancelled[c] /\ \A d \in Channel \ {c} : SameStores(q, p, d)
      <3>1. p \in QueueState
        BY <2>2, <2>3 DEF QueueState
      <3>2. /\ p.withheld[c] = w /\ p.queues[c] = q.queues[c]
            /\ p.cancelled[c] = q.cancelled[c] /\ \A d \in Channel \ {c} : SameStores(q, p, d)
        BY <2>2 DEF SameStores, QueueState
      <3>3. QED
        BY <3>1, <3>2
    <2>5. PICK r : r = PushFront(p, c, <<e>>)
      OBVIOUS
    <2>6. r = ReleaseNativeSteer(q, c, e)
      BY <1>2, <2>1, <2>2, <2>5 DEF ReleaseNativeSteer
    <2>7. Apart(p, c) /\ e \notin Stored(p, c)
      BY <1>2, <2>3, <2>4 DEF Apart, Stored
    <2>8. <<e>> \in Seq(Event) /\ IsInjective(<<e>>) /\ Range(<<e>>) = {e}
      BY DEF IsInjective, Range
    <2>9. PICK evs : evs = <<e>>
      OBVIOUS
    <2>10. evs \in Seq(Event) /\ IsInjective(evs) /\ Range(evs) \cap Stored(p, c) = {} /\ Range(evs) = {e}
      BY <2>7, <2>8, <2>9
    <2>11. /\ \A d \in Channel \ {c} : SameStores(p, r, d)
           /\ Apart(r, c) /\ r.withheld[c] = p.withheld[c] /\ r.cancelled[c] = p.cancelled[c]
           /\ Range(r.queues[c]) \subseteq Range(p.queues[c]) \cup Range(evs)
      BY <2>4, <2>5, <2>7, <2>9, <2>10, PushFrontPlaces
    <2>12. \A d \in Channel \ {c} : SameStores(q, r, d)
      BY <2>4, <2>11 DEF SameStores
    <2>13. QED
      BY <1>2, <2>3, <2>4, <2>6, <2>10, <2>11, <2>12
  <1>3. QED
    BY <1>1, <1>2

\* remove_event takes an event out of the stores it may be in.
LEMMA RemovePlaces ==
  ASSUME NEW q \in QueueState, NEW c \in Channel, Apart(q, c), NEW e \in Event
  PROVE  LET r == RemoveEvent(ExtendInFlightDeadline(q, c), c, e)
         IN /\ \A d \in Channel \ {c} : SameStores(q, r, d)
            /\ Apart(r, c) /\ r.cancelled[c] = q.cancelled[c]
            /\ Range(r.queues[c]) \subseteq Range(q.queues[c])
            /\ Range(r.withheld[c]) \subseteq Range(q.withheld[c]) \ {e}
  <1> DEFINE r == RemoveEvent(ExtendInFlightDeadline(q, c), c, e)
  <1>1. /\ \A d \in Channel \ {c} : SameStores(q, r, d)
        /\ r.queues[c] = Without(q.queues[c], e) /\ r.cancelled[c] = q.cancelled[c]
        /\ r.withheld[c] = Without(q.withheld[c], e)
    BY DEF RemoveEvent, ExtendInFlightDeadline, SameStores, QueueState
  <1> HIDE DEF r
  <1>2. /\ IsInjective(Without(q.queues[c], e))
        /\ Range(Without(q.queues[c], e)) \subseteq Range(q.queues[c])
        /\ IsInjective(Without(q.withheld[c], e))
        /\ Range(Without(q.withheld[c], e)) \subseteq Range(q.withheld[c]) \ {e}
    BY StoresType, WithoutInjective DEF Apart
  <1>3. Apart(r, c)
    BY <1>1, <1>2 DEF Apart
  <1>4. QED
    BY <1>1, <1>2, <1>3 DEF r

\* drain_channel empties the stores of the channel.
LEMMA DrainPlaces ==
  ASSUME NEW q \in QueueState, NEW c \in Channel
  PROVE  LET r == DrainChannel(q, c)
         IN /\ \A d \in Channel \ {c} : SameStores(q, r, d)
            /\ Apart(r, c) /\ Stored(r, c) = {} /\ r.withheld[c] = <<>>
  <1> DEFINE r == DrainChannel(q, c)
  <1>1. /\ \A d \in Channel \ {c} : SameStores(q, r, d)
        /\ r.queues[c] = <<>> /\ r.cancelled[c] = <<>> /\ r.withheld[c] = <<>>
    BY DEF DrainChannel, SameStores, QueueState
  <1> HIDE DEF r
  <1>2. QED
    BY <1>1, EmptyInjective DEF r, Apart, Stored

\* requeue_as_cancelled stores the events of the batch, which are nowhere in the channel.
LEMMA CancelPlaces ==
  ASSUME NEW q \in QueueState, NEW b \in Batch, Apart(q, b.chan), NEW reason \in CancelReason,
         IsInjective(Carried(b)), Range(Carried(b)) \cap Stored(q, b.chan) = {}
  PROVE  LET c == b.chan
             r == RequeueAsCancelled(q, b, reason)
         IN /\ \A d \in Channel \ {c} : SameStores(q, r, d)
            /\ Apart(r, c) /\ r.withheld[c] = q.withheld[c] /\ r.queues[c] = q.queues[c]
            /\ Range(r.cancelled[c]) = Range(q.cancelled[c]) \cup Range(Carried(b))
  <1> DEFINE c == b.chan
             r == RequeueAsCancelled(q, b, reason)
  <1>1. c \in Channel /\ b.cancelled \in Seq(Event) /\ b.events \in Seq(Event)
    BY DEF Batch
  <1>2. PICK x : x = (q.cancelled[c] \o b.cancelled) \o b.events
    OBVIOUS
  <1>3. /\ \A d \in Channel \ {c} : SameStores(q, r, d)
        /\ r.withheld[c] = q.withheld[c] /\ r.queues[c] = q.queues[c] /\ r.cancelled[c] = x
    BY <1>1, <1>2 DEF RequeueAsCancelled, SameStores, QueueState
  <1> HIDE DEF c, r
  <1>4. q.cancelled[c] \in Seq(Event)
    BY <1>1, StoresType
  <1>5. PICK t : t = Carried(b)
    OBVIOUS
  <1>6. t \in Seq(Event) /\ x = q.cancelled[c] \o t
    <2>1. PICK u, v, w : u = q.cancelled[c] /\ v = b.cancelled /\ w = b.events
      OBVIOUS
    <2>2. u \in Seq(Event) /\ v \in Seq(Event) /\ w \in Seq(Event)
      BY <1>1, <1>4, <2>1
    <2>3. (u \o v) \o w = u \o (v \o w) /\ v \o w \in Seq(Event)
      BY <2>2, ConcatAssociative, ConcatProperties
    <2>4. x = (u \o v) \o w /\ t = v \o w
      BY <1>2, <1>5, <2>1, Zenon DEF Carried
    <2>5. QED
      BY <2>1, <2>3, <2>4, Zenon
  <1>7. IsInjective(t) /\ IsInjective(q.cancelled[c]) /\ Range(q.cancelled[c]) \cap Range(t) = {}
    BY <1>5 DEF c, Apart, Stored
  <1>8. IsInjective(x) /\ Range(x) = Range(q.cancelled[c]) \cup Range(t)
    BY <1>4, <1>6, <1>7, ConcatInjective
  <1>9. Apart(r, c)
    BY <1>3, <1>5, <1>8 DEF Apart, Stored, c
  <1>10. QED
    BY <1>3, <1>5, <1>8, <1>9 DEF c, r

\* requeue puts the events of the batch back, or gives them up.
LEMMA RequeuePlaces ==
  ASSUME NEW q \in QueueState, NEW b \in Batch, Apart(q, b.chan),
         IsInjective(b.events), Range(b.events) \cap Stored(q, b.chan) = {}
  PROVE  LET c == b.chan
             r == Requeue(q, b)
         IN /\ \A d \in Channel \ {c} : SameStores(q, r, d)
            /\ Apart(r, c) /\ r.withheld[c] = q.withheld[c] /\ r.cancelled[c] = q.cancelled[c]
            /\ Range(r.queues[c]) \subseteq Range(q.queues[c]) \cup Range(b.events)
  <1> DEFINE c == b.chan
             r == Requeue(q, b)
  <1>1. c \in Channel /\ b.events \in Seq(Event)
    BY DEF Batch
  <1>2. CASE DeadLetters(q, c)
    <2>1. \A d \in Channel : SameStores(q, r, d)
      BY <1>1, <1>2 DEF Requeue, SameStores, QueueState
    <2> HIDE DEF c, r
    <2>2. QED
      BY <1>1, <2>1 DEF SameStores, Apart, c, r
  <1>3. CASE ~DeadLetters(q, c)
    <2>1. PICK p : p = PushFront(q, c, b.events)
      OBVIOUS
    <2>2. p \in QueueState
      BY <1>1, <2>1, PushFrontType
    <2>3. /\ \A d \in Channel \ {c} : SameStores(q, p, d)
          /\ Apart(p, c) /\ p.withheld[c] = q.withheld[c] /\ p.cancelled[c] = q.cancelled[c]
          /\ Range(p.queues[c]) \subseteq Range(q.queues[c]) \cup Range(b.events)
      BY <1>1, <2>1, PushFrontPlaces
    <2>4. r = [p EXCEPT !.retryCounts[c] = @ + 1, !.throttled = @ \cup {c}]
      BY <1>3, <2>1 DEF Requeue
    <2> HIDE DEF c, r
    <2>5. \A d \in Channel : SameStores(p, r, d)
      BY <2>2, <2>4 DEF SameStores, QueueState
    <2>6. QED
      BY <1>1, <2>3, <2>5 DEF SameStores, Apart, c, r
  <1>4. QED
    BY <1>2, <1>3

\* flush_next moves events of one channel, queued or cancelled, into the batch.
LEMMA FlushPlaces ==
  ASSUME NEW q \in QueueState, \A d \in Channel : Apart(q, d), NEW r \in FlushNext(q)
  PROVE  LET c == r.batch.chan
         IN /\ \A d \in Channel \ {c} : SameStores(q, r.q, d)
            /\ Apart(r.q, c) /\ r.q.withheld[c] = q.withheld[c] /\ r.q.cancelled[c] = <<>>
            /\ Range(r.q.queues[c]) \subseteq Range(q.queues[c])
            /\ IsInjective(Carried(r.batch)) /\ IsInjective(r.batch.events)
            /\ Range(r.batch.events) \subseteq Range(Carried(r.batch))
            /\ Range(Carried(r.batch)) \subseteq Range(q.queues[c]) \cup Range(q.cancelled[c])
            /\ Range(Carried(r.batch)) \cap Stored(r.q, c) = {}
  <1> DEFINE b == r.batch
  <1>1. /\ b \in Batch /\ b.chan \in Channel /\ r.q \in QueueState
        /\ b.events \in Seq(Event) /\ b.cancelled \in Seq(Event)
    BY FlushNextEffect DEF Batch
  <1>2. CASE Ready(q) # {}
    <2>1. PICK c \in Ready(q) : r \in FlushQueued(q, c)
      BY <1>2 DEF FlushNext, Oldest
    <2>2. c \in Channel /\ q.queues[c] \in Seq(Event) /\ q.cancelled[c] \in Seq(Event)
      BY <2>1, StoresType DEF Ready
    <2>3. PICK n : n = IF Len(q.queues[c]) < MaxBatch THEN Len(q.queues[c]) ELSE MaxBatch
      OBVIOUS
    <2>4. n \in 0..Len(q.queues[c])
      BY <2>2, <2>3, LimitAssumption
    <2>5. PICK evs \in StableSorts(SubSeq(q.queues[c], 1, n)) :
            r = [q     |-> Claim([q EXCEPT !.queues[c] = SubSeq(@, n + 1, Len(@))], c),
                 batch |-> [chan |-> c, events |-> evs, cancelled |-> q.cancelled[c],
                            reason |-> IF q.cancelled[c] = <<>> THEN "none" ELSE q.reasons[c]]]
      BY <2>1, <2>3, Zenon DEF FlushQueued
    <2>6. b.chan = c /\ b.events = evs /\ b.cancelled = q.cancelled[c]
      BY <2>5
    <2>7. PICK front, rest : front = SubSeq(q.queues[c], 1, n)
                             /\ rest = SubSeq(q.queues[c], n + 1, Len(q.queues[c]))
      OBVIOUS
    <2>8. /\ \A d \in Channel \ {c} : SameStores(q, r.q, d)
          /\ r.q.withheld[c] = q.withheld[c] /\ r.q.cancelled[c] = <<>> /\ r.q.queues[c] = rest
      <3>1. r.q = Claim([q EXCEPT !.queues[c] = rest], c)
        BY <2>2, <2>5, <2>7 DEF QueueState
      <3>2. QED
        BY <2>2, <3>1 DEF Claim, SameStores, QueueState
    <2>9. /\ front \in Seq(Event) /\ rest \in Seq(Event)
          /\ IsInjective(front) /\ IsInjective(rest) /\ Range(front) \cap Range(rest) = {}
          /\ Range(front) \cup Range(rest) = Range(q.queues[c])
      BY <2>2, <2>4, <2>7, SplitInjective DEF Apart
    <2>10. evs \in Seq(Event) /\ IsInjective(evs) /\ Range(evs) \subseteq Range(front)
      BY <2>5, <2>7, <2>9, SortInjective
    <2>11. /\ IsInjective(q.cancelled[c]) /\ Range(q.cancelled[c]) \cap Range(evs) = {}
           /\ Range(q.cancelled[c]) \cap Range(q.queues[c]) = {}
           /\ Range(q.cancelled[c]) \cap Range(q.withheld[c]) = {}
           /\ Range(q.queues[c]) \cap Range(q.withheld[c]) = {}
           /\ IsInjective(q.withheld[c])
      BY <2>2, <2>9, <2>10 DEF Apart
    <2>12. PICK t : t = Carried(b)
      OBVIOUS
    <2>13. IsInjective(t) /\ Range(t) = Range(q.cancelled[c]) \cup Range(evs)
      BY <2>2, <2>6, <2>10, <2>11, <2>12, ConcatInjective DEF Carried
    <2>14. Apart(r.q, c)
      BY <2>8, <2>9, <2>11, EmptyInjective DEF Apart
    <2>15. Range(t) \cap Stored(r.q, c) = {}
      BY <2>8, <2>9, <2>10, <2>11, <2>13, EmptyInjective DEF Stored
    <2>16. Range(t) \subseteq Range(q.queues[c]) \cup Range(q.cancelled[c])
      BY <2>9, <2>10, <2>13
    <2>17. QED
      BY <2>6, <2>8, <2>9, <2>10, <2>12, <2>13, <2>14, <2>15, <2>16
  <1>3. CASE Ready(q) = {}
    <2>1. PICK c \in Interrupted(q) : r = FlushCancelled(q, c)
      BY <1>3 DEF FlushNext
    <2>2. c \in Channel /\ q.cancelled[c] \in Seq(Event)
      BY <2>1, StoresType DEF Interrupted
    <2>3. /\ r.q = Claim(q, c)
          /\ b.chan = c /\ b.events = q.cancelled[c] /\ b.cancelled = <<>>
      BY <2>1 DEF FlushCancelled
    <2>4. /\ \A d \in Channel \ {c} : SameStores(q, r.q, d)
          /\ r.q.withheld[c] = q.withheld[c] /\ r.q.cancelled[c] = <<>> /\ r.q.queues[c] = q.queues[c]
      BY <2>2, <2>3 DEF Claim, SameStores, QueueState
    <2>5. Carried(b) = q.cancelled[c]
      BY <2>2, <2>3, ConcatEmptySeq DEF Carried
    <2>6. /\ IsInjective(q.cancelled[c])
          /\ Range(q.cancelled[c]) \cap Range(q.queues[c]) = {}
          /\ Range(q.cancelled[c]) \cap Range(q.withheld[c]) = {}
      BY <2>2 DEF Apart
    <2>7. Apart(r.q, c)
      BY <2>2, <2>4, EmptyInjective DEF Apart
    <2>8. Range(Carried(b)) \cap Stored(r.q, c) = {}
      BY <2>4, <2>5, <2>6, EmptyInjective DEF Stored
    <2>9. QED
      BY <2>3, <2>4, <2>5, <2>6, <2>7, <2>8
  <1>4. QED
    BY <1>2, <1>3

-----------------------------------------------------------------------------
(* The inductive invariant of the places.  `Fresh` is what makes an event  *)
(* that arrives new to every store, and WithheldIsWatched is kept with it. *)

Distinct ==
  /\ \A c \in Channel : Apart(eq, c)
  /\ \A b \in held : IsInjective(Carried(b))
  /\ \A c \in Channel, b \in held : Stored(eq, c) \cap Range(Carried(b)) = {}
  /\ \A c, d \in Channel : c # d => Stored(eq, c) \cap Stored(eq, d) = {}
  /\ \A b1, b2 \in held : b1 # b2 => Range(Carried(b1)) \cap Range(Carried(b2)) = {}

Fresh ==
  /\ \A c \in Channel : \A e \in Stored(eq, c) : e <= arrived
  /\ \A b \in held : \A e \in Range(Carried(b)) : e <= arrived
  /\ \A s \in steering : s.event <= arrived

PlaceInv == Inv /\ Distinct /\ Fresh /\ WithheldIsWatched

\* What a call may do to a channel it is not about.
Shrunk(q, r, c) ==
  /\ Apart(r, c) /\ Stored(r, c) \subseteq Stored(q, c)
  /\ Range(r.withheld[c]) \subseteq Range(q.withheld[c])

\* Distinct is the property the runs check, store by store.
LEMMA DistinctIsOnePlace == TypeOK => (Distinct <=> OnePlace)
  <1> SUFFICES ASSUME TypeOK PROVE Distinct <=> OnePlace
    OBVIOUS
  <1>1. \A c \in Channel : (IsInjective(Waiting(c)) <=> Apart(eq, c)) /\ Range(Waiting(c)) = Stored(eq, c)
    BY ApartIsInjective DEF TypeOK, Waiting
  <1>2. QED
    BY <1>1 DEF Distinct, OnePlace

\* What is stored or carried is an event.
LEMMA PlacesType ==
  ASSUME TypeOK
  PROVE  /\ \A c \in Channel : Stored(eq, c) \subseteq Event
         /\ \A b \in held : Range(Carried(b)) \subseteq Event
         /\ \A s \in steering : s.chan \in Channel /\ s.event \in Event
  <1>1. ASSUME NEW c \in Channel PROVE Stored(eq, c) \subseteq Event
    BY StoresType, RangeIsElements DEF TypeOK, Stored
  <1>2. ASSUME NEW b \in held PROVE Range(Carried(b)) \subseteq Event
    <2>1. b.cancelled \in Seq(Event) /\ b.events \in Seq(Event)
      BY DEF TypeOK, Batch
    <2>2. Range(Carried(b)) = Range(b.cancelled) \cup Range(b.events)
      BY <2>1, ConcatInjective DEF Carried
    <2>3. QED
      BY <2>1, <2>2, RangeIsElements
  <1>3. QED
    BY <1>1, <1>2 DEF TypeOK, Attempt

\* A channel whose stores are the same has lost nothing and gained nothing.
LEMMA SameIsShrunk ==
  ASSUME NEW q, NEW r, NEW c, Apart(q, c), SameStores(q, r, c)
  PROVE  Shrunk(q, r, c)
  BY DEF Shrunk, SameStores, Apart, Stored

\* A step that stores the events X in the channel c, and takes the batches that
\* carried them away, keeps the events apart.
LEMMA MovePlaces ==
  ASSUME PlaceInv, held' \subseteq held, NEW c \in Channel, NEW X,
         arrived' \in Nat, arrived <= arrived', X \subseteq Event,
         \A x \in X : x <= arrived',
         \A d \in Channel \ {c} : Shrunk(eq, eq', d),
         Apart(eq', c), Stored(eq', c) \subseteq Stored(eq, c) \cup X,
         \A d \in Channel \ {c} : X \cap Stored(eq, d) = {},
         \A b \in held' : X \cap Range(Carried(b)) = {},
         \A s \in steering' : s.event <= arrived'
  PROVE  Distinct' /\ Fresh'
  <1>0. Distinct /\ Fresh /\ TypeOK /\ arrived \in Nat /\ Event \subseteq Nat
    BY EventAssumption DEF PlaceInv, Inv, TypeOK
  <1>1. \A d \in Channel : Apart(eq', d)
    BY DEF Shrunk
  <1>2. \A d \in Channel : d # c => Stored(eq', d) \subseteq Stored(eq, d)
    BY DEF Shrunk
  <1>3. \A d \in Channel, b \in held' : Stored(eq', d) \cap Range(Carried(b)) = {}
    BY <1>0, <1>2 DEF Distinct
  <1>4. \A d, e \in Channel : d # e => Stored(eq', d) \cap Stored(eq', e) = {}
    BY <1>0, <1>2 DEF Distinct
  <1>5. Distinct'
    BY <1>0, <1>1, <1>3, <1>4 DEF Distinct
  <1>6. \A d \in Channel : \A e \in Stored(eq', d) : e <= arrived'
    <2> SUFFICES ASSUME NEW d \in Channel, NEW e \in Stored(eq', d) PROVE e <= arrived'
      OBVIOUS
    <2>1. CASE e \in X
      BY <2>1
    <2>2. CASE e \in Stored(eq, d)
      <3>1. e \in Nat /\ e <= arrived
        BY <1>0, <2>2, PlacesType DEF Fresh
      <3>2. QED
        BY <1>0, <3>1
    <2>3. QED
      BY <1>2, <2>1, <2>2
  <1>7. \A b \in held' : \A e \in Range(Carried(b)) : e <= arrived'
    <2> SUFFICES ASSUME NEW b \in held', NEW e \in Range(Carried(b)) PROVE e <= arrived'
      OBVIOUS
    <2>1. e \in Nat /\ e <= arrived
      BY <1>0, PlacesType DEF Fresh
    <2>2. QED
      BY <1>0, <2>1
  <1>8. Fresh'
    BY <1>6, <1>7 DEF Fresh
  <1>9. QED
    BY <1>5, <1>8

\* A step that stores nothing new and withholds nothing new.
LEMMA ShrinkPlaces ==
  ASSUME PlaceInv, Inv', held' \subseteq held, UNCHANGED <<steering, arrived>>,
         \A d \in Channel : Shrunk(eq, eq', d)
  PROVE  PlaceInv'
  <1>0. /\ Distinct /\ Fresh /\ WithheldIsWatched /\ TypeOK /\ arrived \in Nat
    BY DEF PlaceInv, Inv, TypeOK
  <1>1. WithheldIsWatched'
    BY <1>0 DEF WithheldIsWatched, Shrunk
  <1>2. Distinct'
    BY <1>0 DEF Distinct, Shrunk
  <1>3. Fresh'
    BY <1>0 DEF Fresh, Shrunk
  <1>4. QED
    BY <1>1, <1>2, <1>3 DEF PlaceInv

\* A new queue is empty.
LEMMA InitPlaces == Init => PlaceInv
  <1> SUFFICES ASSUME Init PROVE PlaceInv
    OBVIOUS
  <1>1. Inv
    BY InitInv
  <1>2. \A c \in Channel : eq.withheld[c] = <<>> /\ eq.queues[c] = <<>> /\ eq.cancelled[c] = <<>>
    BY DEF Init, NewQueue
  <1>3. \A c \in Channel : Apart(eq, c) /\ Stored(eq, c) = {}
    BY <1>2, EmptyInjective DEF Apart, Stored
  <1>4. held = {} /\ steering = {}
    BY DEF Init
  <1>5. QED
    BY <1>1, <1>2, <1>3, <1>4, EmptyInjective DEF PlaceInv, Distinct, Fresh, WithheldIsWatched

\* An arrival: the new event is in no store, no batch and no attempt.
LEMMA NewEvent ==
  ASSUME PlaceInv
  PROVE  /\ \A c \in Channel : arrived + 1 \notin Stored(eq, c)
         /\ \A b \in held : arrived + 1 \notin Range(Carried(b))
         /\ \A s \in steering : s.event # arrived + 1 /\ s.event <= arrived + 1
  <1>1. arrived \in Nat /\ ~(arrived + 1 <= arrived)
    BY DEF PlaceInv, Inv, TypeOK
  <1>2. \A s \in steering : s.event \in Nat
    BY PlacesType, EventAssumption DEF PlaceInv, Inv
  <1>3. QED
    BY <1>1, <1>2 DEF PlaceInv, Fresh

\* Receiving an event, pushed or pushed and withheld, keeps the events apart.
LEMMA ReceivePlaces ==
  ASSUME PlaceInv, Inv', NEW c \in Channel, Receive(c) \/ ReceiveSteered(c)
  PROVE  PlaceInv'
  <1>0. /\ eq \in QueueState /\ arrived \in Nat /\ \A d \in Channel : Apart(eq, d)
        /\ WithheldIsWatched
    BY DEF PlaceInv, Inv, TypeOK, Distinct
  <1>1. /\ arrived + 1 \in Event /\ arrived' = arrived + 1 /\ held' = held
    BY DEF Receive, ReceiveSteered
  <1>2. PICK e : e = arrived + 1
    OBVIOUS
  <1>3. /\ \A d \in Channel : e \notin Stored(eq, d)
        /\ \A b \in held : e \notin Range(Carried(b))
        /\ \A s \in steering : s.event <= e
        /\ e \in Event /\ e <= arrived' /\ arrived <= arrived' /\ arrived' \in Nat
    BY <1>0, <1>1, <1>2, NewEvent
  <1>4. PICK p : p = Push(eq, c, e)
    OBVIOUS
  <1>5. /\ \A d \in Channel \ {c} : SameStores(eq, p, d)
        /\ Apart(p, c) /\ p.withheld[c] = eq.withheld[c] /\ p.cancelled[c] = eq.cancelled[c]
        /\ Range(p.queues[c]) \subseteq Range(eq.queues[c]) \cup {e}
        /\ e \in Range(p.queues[c])
    BY <1>0, <1>3, <1>4, PushPlaces
  <1>6. p \in QueueState
    BY <1>0, <1>3, <1>4, PushType
  <1>7. CASE Receive(c)
    <2>1. (eq' = p \/ eq' = eq) /\ steering' = steering
      BY <1>2, <1>4, <1>7 DEF Receive
    <2>2. \A d \in Channel \ {c} : SameStores(eq, eq', d)
      BY <1>5, <2>1 DEF SameStores
    <2>3. Apart(eq', c) /\ eq'.withheld[c] = eq.withheld[c]
          /\ Stored(eq', c) \subseteq Stored(eq, c) \cup {e}
      BY <1>0, <1>5, <2>1 DEF Stored
    <2>4. \A d \in Channel \ {c} : Shrunk(eq, eq', d)
      BY <1>0, <2>2, SameIsShrunk
    <2>5. PICK X : X = {e}
      OBVIOUS
    <2>6. /\ X \subseteq Event /\ \A x \in X : x <= arrived'
          /\ Stored(eq', c) \subseteq Stored(eq, c) \cup X
          /\ \A d \in Channel \ {c} : X \cap Stored(eq, d) = {}
          /\ \A b \in held' : X \cap Range(Carried(b)) = {}
      BY <1>1, <1>3, <2>3, <2>5
    <2>7. \A s \in steering' : s.event <= arrived'
      BY <1>1, <1>2, <1>3, <2>1
    <2>8. Distinct' /\ Fresh'
      BY <1>1, <1>3, <2>3, <2>4, <2>6, <2>7, MovePlaces
    <2>9. WithheldIsWatched'
      BY <1>0, <2>1, <2>2, <2>3 DEF WithheldIsWatched, SameStores
    <2>10. QED
      BY <2>8, <2>9 DEF PlaceInv
  <1>8. CASE ReceiveSteered(c)
    <2>1. /\ eq' = MarkNativeSteerPending(p, c, e)
          /\ steering' = steering \cup {[chan |-> c, event |-> e]}
      BY <1>2, <1>4, <1>8 DEF ReceiveSteered
    <2>2. /\ \A d \in Channel \ {c} : SameStores(p, eq', d)
          /\ Apart(eq', c) /\ eq'.cancelled[c] = p.cancelled[c]
          /\ Range(eq'.queues[c]) \subseteq Range(p.queues[c]) \ {e}
          /\ Range(eq'.withheld[c]) = Range(p.withheld[c]) \cup {e}
      BY <1>3, <1>5, <1>6, <2>1, PendingPlaces
    <2>3. \A d \in Channel \ {c} : SameStores(eq, eq', d)
      BY <1>5, <2>2 DEF SameStores
    <2>4. \A d \in Channel \ {c} : Shrunk(eq, eq', d)
      BY <1>0, <2>3, SameIsShrunk
    <2>5. PICK X : X = {e}
      OBVIOUS
    <2>6. /\ X \subseteq Event /\ \A x \in X : x <= arrived'
          /\ \A d \in Channel \ {c} : X \cap Stored(eq, d) = {}
          /\ \A b \in held' : X \cap Range(Carried(b)) = {}
      BY <1>1, <1>3, <2>5
    <2>7. Stored(eq', c) \subseteq Stored(eq, c) \cup X
      BY <1>5, <2>2, <2>5 DEF Stored
    <2>8. \A s \in steering' : s.event <= arrived'
      BY <1>1, <1>2, <1>3, <2>1
    <2>9. Distinct' /\ Fresh'
      BY <1>1, <1>3, <2>2, <2>4, <2>6, <2>7, <2>8, MovePlaces
    <2>10. WithheldIsWatched'
      BY <1>0, <1>5, <2>1, <2>2, <2>3, ZenonT(60) DEF WithheldIsWatched, SameStores
    <2>11. QED
      BY <2>9, <2>10 DEF PlaceInv
  <1>9. QED
    BY <1>7, <1>8

\* A batch that goes back to its channel, as queued events or as a cancelled batch.
LEMMA ReturnPlaces ==
  ASSUME PlaceInv, Inv', NEW b \in held, held' = held \ {b}, UNCHANGED <<steering, arrived>>,
         \A d \in Channel \ {b.chan} : SameStores(eq, eq', d), Apart(eq', b.chan),
         eq'.withheld[b.chan] = eq.withheld[b.chan],
         Stored(eq', b.chan) \subseteq Stored(eq, b.chan) \cup Range(Carried(b))
  PROVE  PlaceInv'
  <1>0. /\ arrived \in Nat /\ Distinct /\ Fresh /\ WithheldIsWatched /\ TypeOK /\ b.chan \in Channel
    BY DEF PlaceInv, Inv, TypeOK, Batch
  <1>1. \A d \in Channel \ {b.chan} : Shrunk(eq, eq', d)
    BY <1>0, SameIsShrunk DEF Distinct
  <1>2. PICK X : X = Range(Carried(b))
    OBVIOUS
  <1>3. /\ X \subseteq Event /\ \A x \in X : x <= arrived'
        /\ \A d \in Channel \ {b.chan} : X \cap Stored(eq, d) = {}
        /\ \A h \in held' : X \cap Range(Carried(h)) = {}
    BY <1>0, <1>2, PlacesType DEF Distinct, Fresh
  <1>4. /\ held' \subseteq held /\ arrived' \in Nat /\ arrived <= arrived'
        /\ \A s \in steering' : s.event <= arrived'
    BY <1>0 DEF Fresh
  <1>5. Distinct' /\ Fresh'
    BY <1>0, <1>1, <1>2, <1>3, <1>4, MovePlaces
  <1>6. WithheldIsWatched'
    BY <1>0 DEF WithheldIsWatched, SameStores
  <1>7. QED
    BY <1>5, <1>6 DEF PlaceInv

\* flush_next: the events move from the stores of the channel into its new batch.
LEMMA DispatchPlaces ==
  ASSUME PlaceInv, Inv', Dispatch
  PROVE  PlaceInv'
  <1>0. /\ eq \in QueueState /\ arrived \in Nat /\ \A d \in Channel : Apart(eq, d)
        /\ WithheldIsWatched /\ Distinct /\ Fresh
    BY DEF PlaceInv, Inv, TypeOK, Distinct
  <1>1. PICK x : x = Expire(eq)
    OBVIOUS
  <1>2. x \in QueueState /\ \A d \in Channel : Shrunk(eq, x, d)
    BY <1>0, <1>1, ExpireType, ExpirePlaces DEF Shrunk
  <1>3. PICK r \in FlushNext(x) : eq' = r.q /\ held' = held \cup {r.batch} /\ UNCHANGED <<steering, arrived>>
    BY <1>1 DEF Dispatch
  <1>4. PICK b, c : b = r.batch /\ c = b.chan
    OBVIOUS
  <1>5. c \in Channel
    BY <1>2, <1>3, <1>4, FlushNextEffect DEF Batch
  <1>6. /\ \A d \in Channel \ {c} : SameStores(x, eq', d)
        /\ Apart(eq', c) /\ eq'.withheld[c] = x.withheld[c] /\ eq'.cancelled[c] = <<>>
        /\ Range(eq'.queues[c]) \subseteq Range(x.queues[c])
        /\ IsInjective(Carried(b))
        /\ Range(Carried(b)) \subseteq Range(x.queues[c]) \cup Range(x.cancelled[c])
        /\ Range(Carried(b)) \cap Stored(eq', c) = {}
    BY <1>2, <1>3, <1>4, FlushPlaces DEF Shrunk
  <1>7. Range(Carried(b)) \subseteq Stored(eq, c)
    BY <1>2, <1>5, <1>6 DEF Shrunk, Stored
  <1>8. ASSUME NEW d \in Channel
        PROVE  /\ Apart(eq', d) /\ Stored(eq', d) \subseteq Stored(eq, d)
               /\ Range(eq'.withheld[d]) \subseteq Range(eq.withheld[d])
    <2>1. CASE d = c
      BY <1>2, <1>5, <1>6, <2>1, EmptyInjective DEF Shrunk, Stored
    <2>2. CASE d # c
      BY <1>2, <1>6, <2>2 DEF Shrunk, SameStores, Apart, Stored
    <2>3. QED
      BY <2>1, <2>2
  <1>9. \A d \in Channel : Stored(eq', d) \cap Range(Carried(b)) = {}
    BY <1>0, <1>5, <1>6, <1>7, <1>8 DEF Distinct
  <1>10. \A h \in held : Range(Carried(h)) \cap Range(Carried(b)) = {}
    BY <1>0, <1>5, <1>7 DEF Distinct
  <1>11. Distinct'
    <2>1. /\ \A d \in Channel, h \in held' : Stored(eq', d) \cap Range(Carried(h)) = {}
          /\ \A h \in held' : IsInjective(Carried(h))
      BY <1>0, <1>3, <1>4, <1>6, <1>8, <1>9 DEF Distinct
    <2>2. \A g, h \in held' : g # h => Range(Carried(g)) \cap Range(Carried(h)) = {}
      BY <1>0, <1>3, <1>4, <1>10 DEF Distinct
    <2>3. \A d, e \in Channel : d # e => Stored(eq', d) \cap Stored(eq', e) = {}
      BY <1>0, <1>8 DEF Distinct
    <2>4. QED
      BY <1>8, <2>1, <2>2, <2>3 DEF Distinct
  <1>12. Fresh'
    BY <1>0, <1>3, <1>4, <1>5, <1>7, <1>8 DEF Fresh
  <1>13. WithheldIsWatched'
    BY <1>0, <1>3, <1>8 DEF WithheldIsWatched
  <1>14. QED
    BY <1>11, <1>12, <1>13 DEF PlaceInv

\* The batch flush_next hands out is not one a task has: its events were stored.
LEMMA NewBatch ==
  ASSUME PlaceInv, NEW r \in FlushNext(Expire(eq))
  PROVE  r.batch \notin held
  <1>0. eq \in QueueState /\ Distinct /\ \A d \in Channel : Apart(eq, d)
    BY DEF PlaceInv, Inv, TypeOK, Distinct
  <1>1. PICK x : x = Expire(eq)
    OBVIOUS
  <1>2. x \in QueueState /\ \A d \in Channel : Shrunk(eq, x, d)
    BY <1>0, <1>1, ExpireType, ExpirePlaces DEF Shrunk
  <1>3. PICK b, c : b = r.batch /\ c = b.chan
    OBVIOUS
  <1>4. c \in Channel /\ b.events \in Seq(Event) /\ b.events # <<>>
    BY <1>1, <1>2, <1>3, FlushNextEffect DEF Batch
  <1>5. /\ Range(b.events) \subseteq Range(Carried(b))
        /\ Range(Carried(b)) \subseteq Range(x.queues[c]) \cup Range(x.cancelled[c])
    BY <1>1, <1>2, <1>3, FlushPlaces DEF Shrunk
  <1>6. Range(Carried(b)) \subseteq Stored(eq, c)
    BY <1>2, <1>4, <1>5 DEF Shrunk, Stored
  <1>7. b.events[1] \in Range(b.events)
    <2>1. 1 \in DOMAIN b.events
      BY <1>4, EmptySeq
    <2>2. QED
      BY <2>1 DEF Range
  <1>8. QED
    BY <1>0, <1>3, <1>4, <1>5, <1>6, <1>7 DEF Distinct

\* flush_next without an agent: the events of the batch go back where they were,
\* the cancelled ones it carried are gone.
LEMMA NoAgentPlaces ==
  ASSUME NEW q \in QueueState, \A d \in Channel : Apart(q, d), NEW r \in FlushNext(q), NEW d \in Channel
  PROVE  LET m == MarkComplete(RequeuePreserve(r.q, r.batch), r.batch.chan)
         IN Shrunk(q, m, d) /\ m.withheld[d] = q.withheld[d]
  <1>1. PICK b, c, p, m : /\ b = r.batch /\ c = b.chan /\ p = PushFront(r.q, c, b.events)
                          /\ m = MarkComplete(p, c)
    OBVIOUS
  <1>2. /\ b \in Batch /\ c \in Channel /\ b.events \in Seq(Event) /\ r.q \in QueueState
    BY <1>1, FlushNextEffect DEF Batch
  <1>3. /\ \A e \in Channel \ {c} : SameStores(q, r.q, e)
        /\ Apart(r.q, c) /\ r.q.withheld[c] = q.withheld[c] /\ r.q.cancelled[c] = <<>>
        /\ Range(r.q.queues[c]) \subseteq Range(q.queues[c])
        /\ IsInjective(b.events)
        /\ Range(b.events) \subseteq Range(Carried(b))
        /\ Range(Carried(b)) \subseteq Range(q.queues[c]) \cup Range(q.cancelled[c])
        /\ Range(Carried(b)) \cap Stored(r.q, c) = {}
    BY <1>1, FlushPlaces
  <1>4. p \in QueueState
    BY <1>1, <1>2, PushFrontType
  <1>5. /\ \A e \in Channel \ {c} : SameStores(r.q, p, e)
        /\ Apart(p, c) /\ p.withheld[c] = r.q.withheld[c] /\ p.cancelled[c] = r.q.cancelled[c]
        /\ Range(p.queues[c]) \subseteq Range(r.q.queues[c]) \cup Range(b.events)
    <2>1. Range(b.events) \cap Stored(r.q, c) = {}
      BY <1>3
    <2>2. QED
      BY <1>1, <1>2, <1>3, <2>1, PushFrontPlaces
  <1>6. SameStores(p, m, d)
    BY <1>1, <1>2, <1>4, UnmovedPlaces
  <1>7. Shrunk(q, m, d)
    <2>1. CASE d = c
      <3>1. Shrunk(q, p, c)
        BY <1>3, <1>5, EmptyInjective DEF Shrunk, Stored
      <3>2. QED
        BY <1>6, <2>1, <3>1 DEF Shrunk, SameStores, Apart, Stored
    <2>2. CASE d # c
      <3>1. SameStores(q, m, d)
        BY <1>3, <1>5, <1>6, <2>2 DEF SameStores
      <3>2. QED
        BY <3>1, SameIsShrunk
    <2>3. QED
      BY <2>1, <2>2
  <1>8. m.withheld[d] = q.withheld[d]
    BY <1>3, <1>5, <1>6 DEF SameStores
  <1>9. QED
    BY <1>1, <1>7, <1>8 DEF RequeuePreserve

\* The ack of a steer, delivered or not, takes the event out of the withheld store.
LEMMA AckPlaces ==
  ASSUME PlaceInv, Inv', NEW s \in steering, SteerDelivered(s) \/ SteerReleased(s)
  PROVE  PlaceInv'
  <1>0. /\ eq \in QueueState /\ arrived \in Nat /\ \A d \in Channel : Apart(eq, d)
        /\ WithheldIsWatched /\ Distinct /\ Fresh
    BY DEF PlaceInv, Inv, TypeOK, Distinct
  <1>1. s \in Attempt
    BY DEF PlaceInv, Inv, TypeOK
  <1>2. PICK c, e : c = s.chan /\ e = s.event
    OBVIOUS
  <1>3. c \in Channel /\ e \in Event /\ s = [chan |-> c, event |-> e]
    BY <1>1, <1>2 DEF Attempt
  <1>4. steering' = steering \ {s} /\ held' = held /\ arrived' = arrived
    BY DEF SteerDelivered, SteerReleased
  <1>5. /\ \A d \in Channel \ {c} : SameStores(eq, eq', d)
        /\ Apart(eq', c) /\ Stored(eq', c) \subseteq Stored(eq, c)
        /\ Range(eq'.withheld[c]) \subseteq Range(eq.withheld[c]) \ {e}
    <2>1. CASE SteerDelivered(s)
      <3>1. eq' = RemoveEvent(ExtendInFlightDeadline(eq, c), c, e)
        BY <1>2, <2>1 DEF SteerDelivered
      <3>2. QED
        BY <1>0, <1>3, <3>1, RemovePlaces DEF Stored
    <2>2. CASE SteerReleased(s)
      <3>1. eq' = ReleaseNativeSteer(eq, c, e)
        BY <1>2, <2>2 DEF SteerReleased
      <3>2. QED
        BY <1>0, <1>3, <3>1, ReleasePlaces DEF Stored
    <2>3. QED
      BY <2>1, <2>2
  <1>6. \A d \in Channel : Shrunk(eq, eq', d)
    BY <1>0, <1>5, SameIsShrunk DEF Shrunk
  <1>7. Distinct' /\ Fresh'
    BY <1>0, <1>4, <1>6 DEF Distinct, Fresh, Shrunk
  <1>8. WithheldIsWatched'
    <2> SUFFICES ASSUME NEW d \in Channel, NEW w \in Range(eq'.withheld[d])
                 PROVE  [chan |-> d, event |-> w] \in steering'
      BY DEF WithheldIsWatched
    <2>1. w \in Range(eq.withheld[d]) /\ (d = c => w # e)
      BY <1>5, <1>6 DEF Shrunk
    <2>2. [chan |-> d, event |-> w] \in steering
      BY <1>0, <2>1 DEF WithheldIsWatched
    <2>3. [chan |-> d, event |-> w] # s
      BY <1>3, <2>1
    <2>4. QED
      BY <1>4, <2>2, <2>3
  <1>9. QED
    BY <1>7, <1>8 DEF PlaceInv

\* Every group of calls keeps the events in one place each.
LEMMA NextPlaces == PlaceInv /\ [Next]_vars => PlaceInv'
  <1> SUFFICES ASSUME PlaceInv, [Next]_vars PROVE PlaceInv'
    OBVIOUS
  <1>0. /\ eq \in QueueState /\ held \subseteq Batch /\ \A d \in Channel : Apart(eq, d)
        /\ Distinct
    BY DEF PlaceInv, Inv, TypeOK, Distinct
  <1>00. Inv'
    BY NextInv DEF PlaceInv
  <1>1. ASSUME NEW c \in Channel, Receive(c) \/ ReceiveSteered(c) PROVE PlaceInv'
    BY <1>00, <1>1, ReceivePlaces
  <1>2. ASSUME Dispatch PROVE PlaceInv'
    BY <1>00, <1>2, DispatchPlaces
  <1>3. ASSUME DispatchNoAgent PROVE PlaceInv'
    <2>1. PICK x : x = Expire(eq)
      OBVIOUS
    <2>2. x \in QueueState /\ \A d \in Channel : Shrunk(eq, x, d)
      BY <1>0, <2>1, ExpireType, ExpirePlaces DEF Shrunk
    <2>3. PICK r \in FlushNext(x) :
            /\ eq' = MarkComplete(RequeuePreserve(r.q, r.batch), r.batch.chan)
            /\ UNCHANGED <<held, steering, arrived>>
      BY <1>3, <2>1 DEF DispatchNoAgent
    <2>4. \A d \in Channel : Shrunk(x, eq', d)
      <3>1. \A d \in Channel : Apart(x, d)
        BY <2>2 DEF Shrunk
      <3>2. QED
        BY <2>2, <2>3, <3>1, NoAgentPlaces
    <2>5. \A d \in Channel : Shrunk(eq, eq', d)
      BY <2>2, <2>4 DEF Shrunk
    <2>6. QED
      BY <1>00, <2>3, <2>5, ShrinkPlaces
  <1>4. ASSUME CheckWork PROVE PlaceInv'
    <2>1. \A d \in Channel : Shrunk(eq, eq', d)
      BY <1>0, <1>4, ExpirePlaces DEF CheckWork, Shrunk
    <2>2. QED
      BY <1>00, <1>4, <2>1, ShrinkPlaces DEF CheckWork
  <1>5. ASSUME NEW b \in held, Finish(b) PROVE PlaceInv'
    <2>1. b.chan \in Channel /\ eq' = MarkComplete(eq, b.chan)
      BY <1>0, <1>5 DEF Finish, Batch
    <2>2. \A d \in Channel : Shrunk(eq, eq', d)
      BY <1>0, <2>1, UnmovedPlaces, SameIsShrunk
    <2>3. QED
      BY <1>00, <1>5, <2>2, ShrinkPlaces DEF Finish
  <1>6. ASSUME NEW b \in held, Fail(b) PROVE PlaceInv'
    <2>1. PICK q, c : q = Requeue(eq, b) /\ c = b.chan
      OBVIOUS
    <2>2. /\ eq' = MarkComplete(q, c) /\ held' = held \ {b} /\ UNCHANGED <<steering, arrived>>
      BY <1>6, <2>1 DEF Fail
    <2>3. /\ b \in Batch /\ c \in Channel /\ b.events \in Seq(Event) /\ b.cancelled \in Seq(Event)
      BY <1>0, <2>1 DEF Batch
    <2>4. q \in QueueState
      BY <1>0, <2>1, <2>3, RequeueType
    <2>5. /\ IsInjective(b.events) /\ Range(b.events) \subseteq Range(Carried(b))
      BY <1>0, <2>3, ConcatInjective DEF Distinct, Carried
    <2>6. Range(b.events) \cap Stored(eq, c) = {}
      BY <1>0, <2>3, <2>5 DEF Distinct
    <2>7. /\ \A d \in Channel \ {c} : SameStores(eq, q, d)
          /\ Apart(q, c) /\ q.withheld[c] = eq.withheld[c] /\ q.cancelled[c] = eq.cancelled[c]
          /\ Range(q.queues[c]) \subseteq Range(eq.queues[c]) \cup Range(b.events)
      BY <1>0, <2>1, <2>3, <2>5, <2>6, RequeuePlaces
    <2>8. \A d \in Channel : SameStores(q, eq', d)
      BY <2>2, <2>3, <2>4, UnmovedPlaces
    <2>9. /\ \A d \in Channel \ {c} : SameStores(eq, eq', d)
          /\ Apart(eq', c) /\ eq'.withheld[c] = eq.withheld[c]
      BY <2>3, <2>7, <2>8 DEF SameStores, Apart
    <2>10. Stored(eq', c) \subseteq Stored(eq, c) \cup Range(Carried(b))
      BY <2>3, <2>5, <2>7, <2>8 DEF SameStores, Stored
    <2>11. QED
      BY <1>00, <2>1, <2>2, <2>9, <2>10, ReturnPlaces
  <1>7. ASSUME NEW b \in held, NEW reason \in CancelReason, Cancel(b, reason) PROVE PlaceInv'
    <2>1. PICK q, c : q = RequeueAsCancelled(eq, b, reason) /\ c = b.chan
      OBVIOUS
    <2>2. /\ eq' = MarkComplete(q, c) /\ held' = held \ {b} /\ UNCHANGED <<steering, arrived>>
      BY <1>7, <2>1 DEF Cancel
    <2>3. b \in Batch /\ c \in Channel
      BY <1>0, <2>1 DEF Batch
    <2>4. q \in QueueState
      BY <1>0, <2>1, <2>3, RequeueAsCancelledType
    <2>5. IsInjective(Carried(b)) /\ Range(Carried(b)) \cap Stored(eq, c) = {}
      BY <1>0, <2>3 DEF Distinct
    <2>6. /\ \A d \in Channel \ {c} : SameStores(eq, q, d)
          /\ Apart(q, c) /\ q.withheld[c] = eq.withheld[c] /\ q.queues[c] = eq.queues[c]
          /\ Range(q.cancelled[c]) = Range(eq.cancelled[c]) \cup Range(Carried(b))
      BY <1>0, <2>1, <2>3, <2>5, CancelPlaces
    <2>7. \A d \in Channel : SameStores(q, eq', d)
      BY <2>2, <2>3, <2>4, UnmovedPlaces
    <2>8. /\ \A d \in Channel \ {c} : SameStores(eq, eq', d)
          /\ Apart(eq', c) /\ eq'.withheld[c] = eq.withheld[c]
      BY <2>3, <2>6, <2>7 DEF SameStores, Apart
    <2>9. Stored(eq', c) \subseteq Stored(eq, c) \cup Range(Carried(b))
      BY <2>3, <2>6, <2>7 DEF SameStores, Stored
    <2>10. QED
      BY <1>00, <2>1, <2>2, <2>8, <2>9, ReturnPlaces
  <1>8. ASSUME NEW s \in steering, SteerDelivered(s) \/ SteerReleased(s) PROVE PlaceInv'
    BY <1>00, <1>8, AckPlaces
  <1>9. ASSUME NEW c \in Channel, Drain(c) PROVE PlaceInv'
    <2>1. /\ \A d \in Channel \ {c} : SameStores(eq, eq', d)
          /\ Apart(eq', c) /\ Stored(eq', c) = {} /\ eq'.withheld[c] = <<>>
      BY <1>0, <1>9, DrainPlaces DEF Drain
    <2>2. \A d \in Channel : Shrunk(eq, eq', d)
      BY <1>0, <2>1, SameIsShrunk, EmptyInjective DEF Shrunk
    <2>3. QED
      BY <1>00, <1>9, <2>2, ShrinkPlaces DEF Drain
  <1>10. ASSUME Maintain PROVE PlaceInv'
    <2>1. PICK q : q = CompactExpiredState(eq)
      OBVIOUS
    <2>2. q \in QueueState /\ \A d \in Channel : SameStores(eq, q, d)
      BY <1>0, <2>1, CompactExpiredStateType, UnmovedPlaces
    <2>3. \A d \in Channel : Shrunk(eq, q, d)
      BY <1>0, <2>2, SameIsShrunk
    <2>4. eq' = Expire(q)
      BY <1>10, <2>1 DEF Maintain
    <2>5. \A d \in Channel : Shrunk(q, eq', d)
      BY <2>2, <2>3, <2>4, ExpirePlaces DEF Shrunk
    <2>6. \A d \in Channel : Shrunk(eq, eq', d)
      BY <2>3, <2>5 DEF Shrunk
    <2>7. QED
      BY <1>00, <1>10, <2>6, ShrinkPlaces DEF Maintain
  <1>11. ASSUME NEW c \in Channel, ThrottleEnds(c) \/ DeadlinePasses(c) PROVE PlaceInv'
    <2>1. \A d \in Channel : SameStores(eq, eq', d)
      BY <1>0, <1>11 DEF ThrottleEnds, DeadlinePasses, SameStores, QueueState
    <2>2. \A d \in Channel : Shrunk(eq, eq', d)
      BY <1>0, <2>1, SameIsShrunk
    <2>3. held' = held /\ UNCHANGED <<steering, arrived>>
      BY <1>11 DEF ThrottleEnds, DeadlinePasses
    <2>4. QED
      BY <1>00, <2>2, <2>3, ShrinkPlaces
  <1>12. CASE UNCHANGED vars
    <2>1. \A d \in Channel : Shrunk(eq, eq', d)
      BY <1>0, <1>12 DEF vars, Shrunk
    <2>2. QED
      BY <1>00, <1>12, <2>1, ShrinkPlaces DEF vars
  <1>13. QED
    BY <1>1, <1>2, <1>3, <1>4, <1>5, <1>6, <1>7, <1>8, <1>9, <1>10, <1>11, <1>12 DEF Next

\* PlaceInv is an invariant of the queue.
THEOREM PlaceInvariance == Spec => []PlaceInv
  BY InitPlaces, NextPlaces, PTL DEF Spec

\* No event is in two places at once, withheld, queued, stored as cancelled or in a
\* task's batch, whatever order of flush, requeue, cancel, release, expiry and drain.
THEOREM EventsInOnePlace == Spec => []OnePlace
  <1>1. PlaceInv => OnePlace
    BY DistinctIsOnePlace DEF PlaceInv, Inv
  <1>2. QED
    BY <1>1, PlaceInvariance, PTL

\* A withheld event always has an unresolved steer attempt, whose ack releases or
\* consumes it: it cannot be forgotten in the withheld store.
THEOREM WithheldEventsWatched == Spec => []WithheldIsWatched
  <1>1. PlaceInv => WithheldIsWatched
    BY DEF PlaceInv
  <1>2. QED
    BY <1>1, PlaceInvariance, PTL

=============================================================================
