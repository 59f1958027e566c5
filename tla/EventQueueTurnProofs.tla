------------------------ MODULE EventQueueTurnProofs ------------------------
(***************************************************************************)
(* Theorems about EventQueue that rest on turns ending before their        *)
(* in-flight deadline (MayOverrun = FALSE): one turn per channel, no       *)
(* dispatch during a backoff, and none of an event that is being steered.  *)
(***************************************************************************)
EXTENDS EventQueueProofs

-----------------------------------------------------------------------------
(* The part of the state these properties read: the marks, the throttles   *)
(* and the cancelled store.  `Quiet` says that a throttled channel has no  *)
(* turn and no cancelled batch, and that a busy one has no cancelled batch *)
(* either, so that the fallback of flush_next never picks a throttled one. *)

Quiet(q) ==
  /\ q.overdue = {}
  /\ \A c \in q.throttled : c \notin q.inFlight /\ q.cancelled[c] = <<>>
  /\ \A c \in q.inFlight : q.cancelled[c] = <<>>

\* Without overdue channels the expiry block changes nothing.
LEMMA ExpireQuiet ==
  ASSUME NEW q \in QueueState, Quiet(q)
  PROVE  /\ Quiet(Expire(q)) /\ Expire(q).inFlight = q.inFlight
         /\ Expire(q).throttled = q.throttled
  BY DEF Expire, Quiet, QueueState

\* Methods that only move events between queue and withheld store, or clear state.
LEMMA OtherQuiet ==
  ASSUME NEW q \in QueueState, Quiet(q), NEW c \in Channel
  PROVE  /\ Quiet(CompactExpiredState(q))
         /\ Quiet(DrainChannel(q, c))
         /\ Quiet(MarkComplete(q, c))
         /\ \A e \in Event :
              /\ Quiet(Push(q, c, e))
              /\ Quiet(MarkNativeSteerPending(q, c, e))
              /\ Quiet(ReleaseNativeSteer(q, c, e))
              /\ Quiet(RemoveEvent(ExtendInFlightDeadline(q, c), c, e))
  <1>1. Quiet(CompactExpiredState(q))
    BY DEF CompactExpiredState, Quiet, QueueState
  <1>2. Quiet(DrainChannel(q, c))
    BY DEF DrainChannel, Quiet, QueueState
  <1>3. Quiet(MarkComplete(q, c))
    BY DEF MarkComplete, Quiet, QueueState
  <1>4. \A e \in Event : /\ Quiet(Push(q, c, e))
                         /\ Quiet(MarkNativeSteerPending(q, c, e))
    BY DEF Push, MarkNativeSteerPending, Quiet, QueueState
  <1>5. \A e \in Event : /\ Quiet(ReleaseNativeSteer(q, c, e))
                         /\ Quiet(RemoveEvent(ExtendInFlightDeadline(q, c), c, e))
    BY DEF ReleaseNativeSteer, PushFront, RemoveEvent, ExtendInFlightDeadline, Quiet, QueueState
  <1>6. QED
    BY <1>1, <1>2, <1>3, <1>4, <1>5

\* flush_next picks no throttled channel, and claims the one it picks.
LEMMA FlushQuiet ==
  ASSUME NEW q \in QueueState, Quiet(q), NEW r \in FlushNext(q)
  PROVE  /\ Quiet(r.q) /\ r.batch.chan \notin q.throttled
         /\ Quiet(MarkComplete(RequeuePreserve(r.q, r.batch), r.batch.chan))
  <1> DEFINE c == r.batch.chan
  <1>1. /\ r.q \in QueueState /\ c \in Channel \ q.inFlight /\ r.batch \in Batch
        /\ c \in q.throttled => q.cancelled[c] # <<>>
        /\ r.q.inFlight = q.inFlight \cup {c}
        /\ r.q.overdue = q.overdue \ {c}
        /\ r.q.throttled = q.throttled
        /\ r.q.cancelled = [q.cancelled EXCEPT ![c] = <<>>]
    BY FlushNextEffect
  <1>2. c \notin q.throttled
    BY <1>1 DEF Quiet
  <1>3. r.q.cancelled[c] = <<>> /\ \A d \in Channel : d # c => r.q.cancelled[d] = q.cancelled[d]
    BY <1>1 DEF QueueState
  <1> HIDE DEF c
  <1>4. Quiet(r.q)
    BY <1>1, <1>2, <1>3 DEF Quiet, QueueState
  <1>5. RequeuePreserve(r.q, r.batch) \in QueueState /\ Quiet(RequeuePreserve(r.q, r.batch))
    <2>1. RequeuePreserve(r.q, r.batch) \in QueueState
      BY <1>1, RequeuePreserveType
    <2>2. Quiet(RequeuePreserve(r.q, r.batch))
      BY <1>1, <1>4 DEF RequeuePreserve, PushFront, Quiet, QueueState
    <2>3. QED
      BY <2>1, <2>2
  <1>6. Quiet(MarkComplete(RequeuePreserve(r.q, r.batch), c))
    BY <1>1, <1>5, OtherQuiet
  <1>7. QED
    BY <1>2, <1>4, <1>6 DEF c

\* The end of a turn of a busy channel, by failure or by cancel.
LEMMA EndQuiet ==
  ASSUME NEW q \in QueueState, Quiet(q), NEW b \in Batch, b.chan \in q.inFlight
  PROVE  /\ Quiet(MarkComplete(Requeue(q, b), b.chan))
         /\ \A reason \in CancelReason :
              Quiet(MarkComplete(RequeueAsCancelled(q, b, reason), b.chan))
  <1>1. b.chan \in Channel /\ b.chan \notin q.throttled /\ q.cancelled[b.chan] = <<>>
    BY DEF Quiet, Batch
  <1>2. Quiet(MarkComplete(Requeue(q, b), b.chan))
    BY <1>1 DEF Requeue, PushFront, MarkComplete, Quiet, QueueState
  <1>3. ASSUME NEW reason \in CancelReason
        PROVE  Quiet(MarkComplete(RequeueAsCancelled(q, b, reason), b.chan))
    BY <1>1 DEF RequeueAsCancelled, MarkComplete, Quiet, QueueState
  <1>4. QED
    BY <1>2, <1>3

-----------------------------------------------------------------------------
(* The inductive invariant: without expiry a mark lasts as long as the     *)
(* batch that set it, so a channel has a mark exactly while it has a turn. *)

BatchIsMarked == \A b \in held : b.chan \in eq.inFlight

TurnInv == Inv /\ Quiet(eq) /\ BatchIsMarked /\ OneTurnPerChannel

\* A new queue satisfies the inductive invariant of the turns.
LEMMA InitTurnInv == Init => TurnInv
  <1> SUFFICES ASSUME Init PROVE TurnInv
    OBVIOUS
  <1>1. Inv
    BY InitInv
  <1>2. QED
    BY <1>1 DEF Init, NewQueue, TurnInv, Quiet, BatchIsMarked, OneTurnPerChannel

\* Settling the only batch of a channel keeps the turns apart.
LEMMA SettleTurnInv ==
  ASSUME TurnInv, Inv', NEW b \in held, Quiet(eq'),
         eq'.inFlight = eq.inFlight \ {b.chan}, held' = held \ {b}
  PROVE  TurnInv'
  BY DEF TurnInv, BatchIsMarked, OneTurnPerChannel

\* A call that neither hands out nor settles a batch keeps the turns apart.
LEMMA KeepTurnInv ==
  ASSUME TurnInv, Inv', Quiet(eq'), eq'.inFlight = eq.inFlight, held' = held
  PROVE  TurnInv'
  BY DEF TurnInv, BatchIsMarked, OneTurnPerChannel

\* Every group of calls preserves the inductive invariant of the turns, when
\* turns end before their deadline, or as long as no deadline has passed.
LEMMA NextTurnInv ==
  ASSUME TurnInv, [Next]_vars, MayOverrun = FALSE \/ eq'.overdue = {}
  PROVE  TurnInv'
  <1>0. /\ eq \in QueueState /\ Quiet(eq) /\ held \subseteq Batch
        /\ steering \subseteq Attempt /\ arrived \in Nat /\ Inv
    BY DEF TurnInv, Inv, TypeOK
  <1>00. Inv'
    BY <1>0, NextInv
  <1>1. ASSUME NEW c \in Channel, Receive(c) PROVE TurnInv'
    <2>1. arrived + 1 \in Event /\ held' = held
      BY <1>1 DEF Receive
    <2>2. Quiet(eq') /\ eq'.inFlight = eq.inFlight
      BY <1>0, <1>1, <2>1, OtherQuiet, InFlightEffect DEF Receive
    <2>3. QED
      BY <1>00, <2>1, <2>2, KeepTurnInv
  <1>2. ASSUME NEW c \in Channel, ReceiveSteered(c) PROVE TurnInv'
    <2> DEFINE q == Push(eq, c, arrived + 1)
    <2>1. /\ arrived + 1 \in Event /\ held' = held
          /\ eq' = MarkNativeSteerPending(q, c, arrived + 1)
      BY <1>2 DEF ReceiveSteered
    <2>2. q \in QueueState /\ Quiet(q) /\ q.inFlight = eq.inFlight
      BY <1>0, <2>1, PushType, OtherQuiet, InFlightEffect
    <2> HIDE DEF q
    <2>3. Quiet(eq') /\ eq'.inFlight = eq.inFlight
      BY <2>1, <2>2, OtherQuiet, InFlightEffect
    <2>4. QED
      BY <1>00, <2>1, <2>3, KeepTurnInv
  <1>3. ASSUME Dispatch PROVE TurnInv'
    <2>1. /\ Expire(eq) \in QueueState /\ Quiet(Expire(eq))
          /\ Expire(eq).inFlight = eq.inFlight
      BY <1>0, ExpireType, ExpireQuiet
    <2>2. PICK r \in FlushNext(Expire(eq)) : eq' = r.q /\ held' = held \cup {r.batch}
      BY <1>3 DEF Dispatch
    <2>3. Quiet(eq')
      BY <2>1, <2>2, FlushQuiet
    <2>4. /\ r.batch.chan \notin Expire(eq).inFlight
          /\ eq'.inFlight = Expire(eq).inFlight \cup {r.batch.chan}
      BY <2>1, <2>2, FlushNextEffect
    <2>5. QED
      BY <1>00, <2>1, <2>2, <2>3, <2>4 DEF TurnInv, BatchIsMarked, OneTurnPerChannel
  <1>4. ASSUME DispatchNoAgent PROVE TurnInv'
    <2>1. /\ Expire(eq) \in QueueState /\ Quiet(Expire(eq))
          /\ Expire(eq).inFlight = eq.inFlight
      BY <1>0, ExpireType, ExpireQuiet
    <2>2. PICK r \in FlushNext(Expire(eq)) :
            /\ eq' = MarkComplete(RequeuePreserve(r.q, r.batch), r.batch.chan)
            /\ held' = held
      BY <1>4 DEF DispatchNoAgent
    <2>3. Quiet(eq')
      BY <2>1, <2>2, FlushQuiet
    <2>4. /\ r.batch \in Batch /\ r.q \in QueueState
          /\ r.batch.chan \in Channel \ Expire(eq).inFlight
          /\ r.q.inFlight = Expire(eq).inFlight \cup {r.batch.chan}
      BY <2>1, <2>2, FlushNextEffect
    <2>5. /\ RequeuePreserve(r.q, r.batch) \in QueueState
          /\ RequeuePreserve(r.q, r.batch).inFlight = r.q.inFlight
      BY <2>4, RequeuePreserveType, InFlightEffect
    <2>6. eq'.inFlight = r.q.inFlight \ {r.batch.chan}
      BY <2>2, <2>4, <2>5, InFlightEffect
    <2>7. QED
      BY <1>00, <2>1, <2>2, <2>3, <2>4, <2>6, KeepTurnInv
  <1>5. ASSUME CheckWork PROVE TurnInv'
    BY <1>0, <1>00, <1>5, ExpireQuiet, KeepTurnInv DEF CheckWork
  <1>6. ASSUME NEW b \in held, Finish(b) PROVE TurnInv'
    <2>1. b.chan \in Channel /\ eq' = MarkComplete(eq, b.chan) /\ held' = held \ {b}
      BY <1>0, <1>6 DEF Finish, Batch
    <2>2. Quiet(eq') /\ eq'.inFlight = eq.inFlight \ {b.chan}
      BY <1>0, <2>1, OtherQuiet, InFlightEffect
    <2>3. QED
      BY <1>00, <2>1, <2>2, SettleTurnInv
  <1>7. ASSUME NEW b \in held, Fail(b) PROVE TurnInv'
    <2>1. /\ b \in Batch /\ b.chan \in Channel /\ b.chan \in eq.inFlight
          /\ eq' = MarkComplete(Requeue(eq, b), b.chan) /\ held' = held \ {b}
      BY <1>0, <1>7 DEF Fail, Batch, TurnInv, BatchIsMarked
    <2>2. Quiet(eq')
      BY <1>0, <2>1, EndQuiet
    <2>3. Requeue(eq, b) \in QueueState /\ Requeue(eq, b).inFlight = eq.inFlight
      BY <1>0, <2>1, RequeueType, InFlightEffect
    <2>4. eq'.inFlight = eq.inFlight \ {b.chan}
      BY <2>1, <2>3, InFlightEffect
    <2>5. QED
      BY <1>00, <2>1, <2>2, <2>4, SettleTurnInv
  <1>8. ASSUME NEW b \in held, NEW reason \in CancelReason, Cancel(b, reason) PROVE TurnInv'
    <2>1. /\ b \in Batch /\ b.chan \in Channel /\ b.chan \in eq.inFlight
          /\ eq' = MarkComplete(RequeueAsCancelled(eq, b, reason), b.chan) /\ held' = held \ {b}
      BY <1>0, <1>8 DEF Cancel, Batch, TurnInv, BatchIsMarked
    <2>2. Quiet(eq')
      BY <1>0, <2>1, EndQuiet
    <2>3. /\ RequeueAsCancelled(eq, b, reason) \in QueueState
          /\ RequeueAsCancelled(eq, b, reason).inFlight = eq.inFlight
      BY <1>0, <2>1, RequeueAsCancelledType, InFlightEffect
    <2>4. eq'.inFlight = eq.inFlight \ {b.chan}
      BY <2>1, <2>3, InFlightEffect
    <2>5. QED
      BY <1>00, <2>1, <2>2, <2>4, SettleTurnInv
  <1>9. ASSUME NEW s \in steering, SteerDelivered(s) PROVE TurnInv'
    <2>1. s.chan \in Channel /\ s.event \in Event
      BY <1>0 DEF Attempt
    <2>2. /\ eq' = RemoveEvent(ExtendInFlightDeadline(eq, s.chan), s.chan, s.event)
          /\ held' = held
      BY <1>9 DEF SteerDelivered
    <2>3. QED
      BY <1>0, <1>00, <2>1, <2>2, OtherQuiet, InFlightEffect, KeepTurnInv
  <1>10. ASSUME NEW s \in steering, SteerReleased(s) PROVE TurnInv'
    <2>1. s.chan \in Channel /\ s.event \in Event
      BY <1>0 DEF Attempt
    <2>2. eq' = ReleaseNativeSteer(eq, s.chan, s.event) /\ held' = held
      BY <1>10 DEF SteerReleased
    <2>3. QED
      BY <1>0, <1>00, <2>1, <2>2, OtherQuiet, InFlightEffect, KeepTurnInv
  <1>11. ASSUME NEW c \in Channel, Drain(c) PROVE TurnInv'
    BY <1>0, <1>00, <1>11, OtherQuiet, InFlightEffect, KeepTurnInv DEF Drain
  <1>12. ASSUME Maintain PROVE TurnInv'
    <2> DEFINE q == CompactExpiredState(eq)
    <2>1. eq' = Expire(q) /\ held' = held
      BY <1>12 DEF Maintain
    <2>2. q \in QueueState /\ q.inFlight = eq.inFlight
      BY <1>0, CompactExpiredStateType, InFlightEffect
    <2>3. Quiet(q)
      BY <1>0 DEF CompactExpiredState, Quiet, QueueState
    <2> HIDE DEF q
    <2>4. QED
      BY <1>00, <2>1, <2>2, <2>3, ExpireQuiet, KeepTurnInv
  <1>13. ASSUME NEW c \in Channel, ThrottleEnds(c) PROVE TurnInv'
    <2>1. eq' = [eq EXCEPT !.throttled = @ \ {c}] /\ held' = held
      BY <1>13 DEF ThrottleEnds
    <2>2. Quiet(eq') /\ eq'.inFlight = eq.inFlight
      BY <1>0, <2>1 DEF Quiet, QueueState
    <2>3. QED
      BY <1>00, <2>1, <2>2, KeepTurnInv
  <1>14. ASSUME NEW c \in Channel, DeadlinePasses(c) PROVE TurnInv'
    BY <1>0, <1>14 DEF DeadlinePasses, QueueState
  <1>15. CASE UNCHANGED vars
    BY <1>0, <1>00, <1>15, KeepTurnInv DEF vars
  <1>16. QED
    BY <1>1, <1>2, <1>3, <1>4, <1>5, <1>6, <1>7, <1>8, <1>9, <1>10, <1>11, <1>12,
       <1>13, <1>14, <1>15 DEF Next

\* Two batches of one channel are never out at the same time, if turns end before
\* their in-flight deadline.
THEOREM OneTurn ==
  ASSUME MayOverrun = FALSE
  PROVE  Spec => []OneTurnPerChannel
  <1>1. TurnInv /\ [Next]_vars => TurnInv'
    BY NextTurnInv
  <1>2. TurnInv => OneTurnPerChannel
    BY DEF TurnInv
  <1>3. QED
    BY <1>1, <1>2, InitTurnInv, PTL DEF Spec

\* A step that hands out a batch of a channel in backoff does not exist.
LEMMA StepRespectsBackoff ==
  ASSUME TurnInv, [Next]_vars
  PROVE  \A b \in held' \ held : b.chan \notin eq.throttled
  <1>0. eq \in QueueState /\ Quiet(eq)
    BY DEF TurnInv, Inv, TypeOK
  <1>1. CASE Dispatch
    <2>1. /\ Expire(eq) \in QueueState /\ Quiet(Expire(eq))
          /\ Expire(eq).throttled = eq.throttled
      BY <1>0, ExpireType, ExpireQuiet
    <2>2. PICK r \in FlushNext(Expire(eq)) : held' = held \cup {r.batch}
      BY <1>1 DEF Dispatch
    <2>3. r.batch.chan \notin eq.throttled
      BY <2>1, <2>2, FlushQuiet
    <2>4. QED
      BY <2>2, <2>3
  <1>2. CASE ~Dispatch
    <2>1. held' \subseteq held
      BY <1>2 DEF Next, vars, Receive, ReceiveSteered, Drain, ThrottleEnds, DeadlinePasses,
                  Finish, Fail, Cancel, SteerDelivered, SteerReleased, DispatchNoAgent,
                  CheckWork, Maintain
    <2>2. QED
      BY <2>1
  <1>3. QED
    BY <1>1, <1>2

\* No batch of a channel is handed out while its backoff runs, although the
\* cancelled-batch fallback of flush_next does not look at retry_after.
THEOREM BackoffIsRespected ==
  ASSUME MayOverrun = FALSE
  PROVE  Spec => BackoffRespected
  <1>1. TurnInv /\ [Next]_vars => TurnInv'
    BY NextTurnInv
  <1>2. TurnInv /\ [Next]_vars => [\A b \in held' \ held : b.chan \notin eq.throttled]_vars
    BY StepRespectsBackoff
  <1>3. QED
    BY <1>1, <1>2, InitTurnInv, PTL DEF Spec, BackoffRespected

-----------------------------------------------------------------------------
(* Steered events.  While a steer of an event is unresolved the event may  *)
(* be withheld, but no call can bring it within reach of flush_next, and   *)
(* no two attempts are about one event.                                    *)

Within(e) == \/ \E c \in Channel : e \in Range(eq.queues[c]) \cup Range(eq.cancelled[c])
             \/ \E b \in held : e \in Range(Carried(b))

Aside == \A s \in steering : /\ ~Within(s.event)
                             /\ \A t \in steering : s.event = t.event => s = t

SteerInv == TurnInv /\ PlaceInv /\ Aside

\* A step that settles or keeps attempts, and brings nothing else within reach.
LEMMA KeepAside ==
  ASSUME Aside, steering' \subseteq steering,
         \A e : Within(e)' => Within(e) \/ \A s \in steering' : s.event # e
  PROVE  Aside'
  <1>1. \A s \in steering' : ~Within(s.event)'
    BY DEF Aside
  <1>2. \A s, t \in steering' : s.event = t.event => s = t
    BY DEF Aside
  <1>3. QED
    BY <1>1, <1>2 DEF Aside

\* A channel that keeps its withheld events and gains nothing has nothing more in
\* reach of flush_next.
LEMMA ShrunkReach ==
  ASSUME NEW q, NEW r, NEW c, Apart(q, c), Shrunk(q, r, c), r.withheld[c] = q.withheld[c]
  PROVE  Range(r.queues[c]) \cup Range(r.cancelled[c]) \subseteq Range(q.queues[c]) \cup Range(q.cancelled[c])
  BY DEF Shrunk, Apart, Stored

\* Without overdue channels the expiry block moves nothing.
LEMMA ExpireSame ==
  ASSUME NEW q \in QueueState, Quiet(q), NEW c \in Channel
  PROVE  SameStores(q, Expire(q), c)
  BY DEF Expire, Quiet, SameStores, QueueState

\* Every group of calls keeps the steered events out of reach, when turns end
\* before their deadline.
LEMMA NextSteerInv ==
  ASSUME MayOverrun = FALSE
  PROVE  SteerInv /\ [Next]_vars => SteerInv'
  <1> SUFFICES ASSUME SteerInv, [Next]_vars PROVE Aside'
    BY NextTurnInv, NextPlaces DEF SteerInv
  <1>0. /\ eq \in QueueState /\ Quiet(eq) /\ held \subseteq Batch /\ Aside /\ Distinct
        /\ steering \subseteq Attempt /\ \A d \in Channel : Apart(eq, d)
    BY DEF SteerInv, TurnInv, PlaceInv, Inv, TypeOK, Distinct
  <1>1. ASSUME NEW c \in Channel, Receive(c) \/ ReceiveSteered(c) PROVE Aside'
    <2>1. PICK e : e = arrived + 1
      OBVIOUS
    <2>2. /\ e \in Event /\ \A d \in Channel : e \notin Stored(eq, d)
          /\ \A b \in held : e \notin Range(Carried(b))
          /\ \A s \in steering : s.event # e
          /\ held' = held
      BY <1>1, <2>1, NewEvent DEF SteerInv, Receive, ReceiveSteered
    <2>3. PICK p : p = Push(eq, c, e)
      OBVIOUS
    <2>4. /\ \A d \in Channel \ {c} : SameStores(eq, p, d)
          /\ Apart(p, c) /\ p.withheld[c] = eq.withheld[c] /\ p.cancelled[c] = eq.cancelled[c]
          /\ Range(p.queues[c]) \subseteq Range(eq.queues[c]) \cup {e}
          /\ e \in Range(p.queues[c])
      BY <1>0, <2>2, <2>3, PushPlaces
    <2>5. CASE Receive(c)
      <3>1. (eq' = p \/ eq' = eq) /\ steering' = steering
        BY <2>1, <2>3, <2>5 DEF Receive
      <3>2. \A d \in Channel : Range(eq'.queues[d]) \cup Range(eq'.cancelled[d])
                                 \subseteq Range(eq.queues[d]) \cup Range(eq.cancelled[d]) \cup {e}
        BY <2>4, <3>1 DEF SameStores
      <3>3. \A x : Within(x)' => Within(x) \/ x = e
        BY <2>2, <3>2 DEF Within
      <3>4. QED
        BY <1>0, <2>2, <3>1, <3>3, KeepAside
    <2>6. CASE ReceiveSteered(c)
      <3>1. /\ eq' = MarkNativeSteerPending(p, c, e)
            /\ steering' = steering \cup {[chan |-> c, event |-> e]}
        BY <2>1, <2>3, <2>6 DEF ReceiveSteered
      <3>2. p \in QueueState
        BY <1>0, <2>2, <2>3, PushType
      <3>3. /\ \A d \in Channel \ {c} : SameStores(p, eq', d)
            /\ eq'.cancelled[c] = p.cancelled[c]
            /\ Range(eq'.queues[c]) \subseteq Range(p.queues[c]) \ {e}
        BY <2>2, <2>4, <3>1, <3>2, PendingPlaces
      <3>4. \A d \in Channel : Range(eq'.queues[d]) \cup Range(eq'.cancelled[d])
                                 \subseteq Range(eq.queues[d]) \cup Range(eq.cancelled[d])
        BY <2>4, <3>3 DEF SameStores
      <3>5. \A x : Within(x)' => Within(x)
        BY <2>2, <3>4 DEF Within
      <3>6. ~Within(e)
        BY <2>2 DEF Within, Stored
      <3>7. \A s \in steering' : ~Within(s.event)'
        BY <1>0, <3>1, <3>5, <3>6 DEF Aside
      <3>8. \A s, t \in steering' : s.event = t.event => s = t
        BY <1>0, <2>2, <3>1 DEF Aside
      <3>9. QED
        BY <3>7, <3>8 DEF Aside
    <2>7. QED
      BY <1>1, <2>5, <2>6
  <1>2. ASSUME Dispatch PROVE Aside'
    <2>1. PICK x : x = Expire(eq)
      OBVIOUS
    <2>2. x \in QueueState /\ \A d \in Channel : SameStores(eq, x, d) /\ Apart(x, d)
      BY <1>0, <2>1, ExpireType, ExpireSame, ExpirePlaces
    <2>3. PICK r \in FlushNext(x) : eq' = r.q /\ held' = held \cup {r.batch} /\ steering' = steering
      BY <1>2, <2>1 DEF Dispatch
    <2>4. PICK b, c : b = r.batch /\ c = b.chan
      OBVIOUS
    <2>5. c \in Channel
      BY <2>2, <2>3, <2>4, FlushNextEffect DEF Batch
    <2>6. /\ \A d \in Channel \ {c} : SameStores(x, eq', d)
          /\ eq'.cancelled[c] = <<>> /\ Range(eq'.queues[c]) \subseteq Range(x.queues[c])
          /\ Range(Carried(b)) \subseteq Range(x.queues[c]) \cup Range(x.cancelled[c])
      BY <2>2, <2>3, <2>4, FlushPlaces
    <2>7. \A d \in Channel : Range(eq'.queues[d]) \cup Range(eq'.cancelled[d])
                               \subseteq Range(eq.queues[d]) \cup Range(eq.cancelled[d])
      BY <2>2, <2>6, EmptyInjective DEF SameStores
    <2>8. Range(Carried(b)) \subseteq Range(eq.queues[c]) \cup Range(eq.cancelled[c])
      BY <2>2, <2>5, <2>6 DEF SameStores
    <2>9. \A e : Within(e)' => Within(e)
      BY <2>3, <2>4, <2>5, <2>7, <2>8 DEF Within
    <2>10. QED
      BY <1>0, <2>3, <2>9, KeepAside
  <1>3. ASSUME DispatchNoAgent PROVE Aside'
    <2>1. PICK x : x = Expire(eq)
      OBVIOUS
    <2>2. x \in QueueState /\ \A d \in Channel : SameStores(eq, x, d) /\ Apart(x, d)
      BY <1>0, <2>1, ExpireType, ExpireSame, ExpirePlaces
    <2>3. PICK r \in FlushNext(x) :
            /\ eq' = MarkComplete(RequeuePreserve(r.q, r.batch), r.batch.chan)
            /\ UNCHANGED <<held, steering>>
      BY <1>3, <2>1 DEF DispatchNoAgent
    <2>4. \A d \in Channel : Shrunk(x, eq', d) /\ eq'.withheld[d] = x.withheld[d]
      BY <2>2, <2>3, NoAgentPlaces
    <2>5. \A d \in Channel : Range(eq'.queues[d]) \cup Range(eq'.cancelled[d])
                               \subseteq Range(x.queues[d]) \cup Range(x.cancelled[d])
      BY <2>2, <2>4, ShrunkReach
    <2>6. \A e : Within(e)' => Within(e)
      BY <2>2, <2>3, <2>5 DEF Within, SameStores
    <2>7. QED
      BY <1>0, <2>3, <2>6, KeepAside
  <1>4. ASSUME NEW b \in held, Fail(b) PROVE Aside'
    <2>1. PICK q, c : q = Requeue(eq, b) /\ c = b.chan
      OBVIOUS
    <2>2. eq' = MarkComplete(q, c) /\ held' = held \ {b} /\ steering' = steering
      BY <1>4, <2>1 DEF Fail
    <2>3. b \in Batch /\ c \in Channel /\ b.events \in Seq(Event) /\ b.cancelled \in Seq(Event)
      BY <1>0, <2>1 DEF Batch
    <2>4. q \in QueueState
      BY <1>0, <2>1, <2>3, RequeueType
    <2>5. IsInjective(b.events) /\ Range(b.events) \subseteq Range(Carried(b))
      BY <1>0, <2>3, ConcatInjective DEF Distinct, Carried
    <2>6. Range(b.events) \cap Stored(eq, c) = {}
      BY <1>0, <2>3, <2>5 DEF Distinct
    <2>7. /\ \A d \in Channel \ {c} : SameStores(eq, q, d)
          /\ q.cancelled[c] = eq.cancelled[c]
          /\ Range(q.queues[c]) \subseteq Range(eq.queues[c]) \cup Range(b.events)
      BY <1>0, <2>1, <2>3, <2>5, <2>6, RequeuePlaces
    <2>8. \A d \in Channel : SameStores(q, eq', d)
      BY <2>2, <2>3, <2>4, UnmovedPlaces
    <2>9. \A d \in Channel : Range(eq'.queues[d]) \cup Range(eq'.cancelled[d])
             \subseteq Range(eq.queues[d]) \cup Range(eq.cancelled[d]) \cup Range(Carried(b))
      BY <2>5, <2>7, <2>8 DEF SameStores
    <2>10. \A e : Within(e)' => Within(e)
      BY <2>2, <2>9 DEF Within
    <2>11. QED
      BY <1>0, <2>2, <2>10, KeepAside
  <1>5. ASSUME NEW b \in held, NEW reason \in CancelReason, Cancel(b, reason) PROVE Aside'
    <2>1. PICK q, c : q = RequeueAsCancelled(eq, b, reason) /\ c = b.chan
      OBVIOUS
    <2>2. eq' = MarkComplete(q, c) /\ held' = held \ {b} /\ steering' = steering
      BY <1>5, <2>1 DEF Cancel
    <2>3. b \in Batch /\ c \in Channel
      BY <1>0, <2>1 DEF Batch
    <2>4. q \in QueueState
      BY <1>0, <2>1, <2>3, RequeueAsCancelledType
    <2>5. IsInjective(Carried(b)) /\ Range(Carried(b)) \cap Stored(eq, c) = {}
      BY <1>0, <2>3 DEF Distinct
    <2>6. /\ \A d \in Channel \ {c} : SameStores(eq, q, d)
          /\ q.queues[c] = eq.queues[c]
          /\ Range(q.cancelled[c]) = Range(eq.cancelled[c]) \cup Range(Carried(b))
      BY <1>0, <2>1, <2>3, <2>5, CancelPlaces
    <2>7. \A d \in Channel : SameStores(q, eq', d)
      BY <2>2, <2>3, <2>4, UnmovedPlaces
    <2>8. \A d \in Channel : Range(eq'.queues[d]) \cup Range(eq'.cancelled[d])
             \subseteq Range(eq.queues[d]) \cup Range(eq.cancelled[d]) \cup Range(Carried(b))
      BY <2>6, <2>7 DEF SameStores
    <2>9. \A e : Within(e)' => Within(e)
      BY <2>2, <2>8 DEF Within
    <2>10. QED
      BY <1>0, <2>2, <2>9, KeepAside
  <1>6. ASSUME NEW s \in steering, SteerDelivered(s) \/ SteerReleased(s) PROVE Aside'
    <2>1. PICK c, e : c = s.chan /\ e = s.event
      OBVIOUS
    <2>2. c \in Channel /\ e \in Event
      BY <1>0, <2>1 DEF Attempt
    <2>3. steering' = steering \ {s} /\ held' = held
      BY <1>6 DEF SteerDelivered, SteerReleased
    <2>4. \A d \in Channel : Range(eq'.queues[d]) \cup Range(eq'.cancelled[d])
             \subseteq Range(eq.queues[d]) \cup Range(eq.cancelled[d]) \cup {e}
      <3>1. CASE SteerDelivered(s)
        <4>1. eq' = RemoveEvent(ExtendInFlightDeadline(eq, c), c, e)
          BY <2>1, <3>1 DEF SteerDelivered
        <4>2. /\ \A d \in Channel \ {c} : SameStores(eq, eq', d)
              /\ eq'.cancelled[c] = eq.cancelled[c] /\ Range(eq'.queues[c]) \subseteq Range(eq.queues[c])
          BY <1>0, <2>2, <4>1, RemovePlaces
        <4>3. QED
          BY <4>2 DEF SameStores
      <3>2. CASE SteerReleased(s)
        <4>1. eq' = ReleaseNativeSteer(eq, c, e)
          BY <2>1, <3>2 DEF SteerReleased
        <4>2. /\ \A d \in Channel \ {c} : SameStores(eq, eq', d)
              /\ eq'.cancelled[c] = eq.cancelled[c]
              /\ Range(eq'.queues[c]) \subseteq Range(eq.queues[c]) \cup {e}
          BY <1>0, <2>2, <4>1, ReleasePlaces
        <4>3. QED
          BY <4>2 DEF SameStores
      <3>3. QED
        BY <1>6, <3>1, <3>2
    <2>5. \A x : Within(x)' => Within(x) \/ x = e
      BY <2>3, <2>4 DEF Within
    <2>6. \A t \in steering' : t.event # e
      BY <1>0, <2>1, <2>3 DEF Aside
    <2>7. QED
      BY <1>0, <2>3, <2>5, <2>6, KeepAside
  <1>7. ASSUME NEW c \in Channel, Drain(c) PROVE Aside'
    <2>1. /\ \A d \in Channel \ {c} : SameStores(eq, eq', d)
          /\ Stored(eq', c) = {} /\ held' = held /\ steering' = steering
      BY <1>0, <1>7, DrainPlaces DEF Drain
    <2>2. \A d \in Channel : Range(eq'.queues[d]) \cup Range(eq'.cancelled[d])
                               \subseteq Range(eq.queues[d]) \cup Range(eq.cancelled[d])
      BY <2>1 DEF SameStores, Stored
    <2>3. \A e : Within(e)' => Within(e)
      BY <2>1, <2>2 DEF Within
    <2>4. QED
      BY <1>0, <2>1, <2>3, KeepAside
  <1>8. ASSUME /\ \A d \in Channel : SameStores(eq, eq', d)
               /\ held' \subseteq held /\ steering' = steering
        PROVE  Aside'
    <2>1. \A e : Within(e)' => Within(e)
      BY <1>8 DEF Within, SameStores
    <2>2. QED
      BY <1>0, <1>8, <2>1, KeepAside
  <1>9. ASSUME NEW b \in held, Finish(b) PROVE Aside'
    <2>1. b.chan \in Channel /\ eq' = MarkComplete(eq, b.chan)
      BY <1>0, <1>9 DEF Finish, Batch
    <2>2. \A d \in Channel : SameStores(eq, eq', d)
      BY <1>0, <2>1, UnmovedPlaces
    <2>3. QED
      BY <1>8, <1>9, <2>2 DEF Finish
  <1>10. ASSUME CheckWork PROVE Aside'
    <2>1. \A d \in Channel : SameStores(eq, eq', d)
      BY <1>0, <1>10, ExpireSame DEF CheckWork
    <2>2. QED
      BY <1>8, <1>10, <2>1 DEF CheckWork
  <1>11. ASSUME Maintain PROVE Aside'
    <2>1. PICK q : q = CompactExpiredState(eq)
      OBVIOUS
    <2>2. q \in QueueState /\ \A d \in Channel : SameStores(eq, q, d)
      BY <1>0, <2>1, CompactExpiredStateType, UnmovedPlaces
    <2>3. Quiet(q)
      BY <1>0, <2>1 DEF CompactExpiredState, Quiet, QueueState
    <2>4. eq' = Expire(q)
      BY <1>11, <2>1 DEF Maintain
    <2>5. \A d \in Channel : SameStores(q, eq', d)
      BY <2>2, <2>3, <2>4, ExpireSame
    <2>6. \A d \in Channel : SameStores(eq, eq', d)
      BY <2>2, <2>5 DEF SameStores
    <2>7. QED
      BY <1>8, <1>11, <2>6 DEF Maintain
  <1>12. ASSUME NEW c \in Channel, ThrottleEnds(c) \/ DeadlinePasses(c) PROVE Aside'
    <2>1. \A d \in Channel : SameStores(eq, eq', d)
      BY <1>0, <1>12 DEF ThrottleEnds, DeadlinePasses, SameStores, QueueState
    <2>2. QED
      BY <1>8, <1>12, <2>1 DEF ThrottleEnds, DeadlinePasses
  <1>13. CASE UNCHANGED vars
    BY <1>8, <1>13 DEF vars, SameStores
  <1>14. QED
    BY <1>1, <1>2, <1>3, <1>4, <1>5, <1>6, <1>7, <1>9, <1>10, <1>11, <1>12, <1>13 DEF Next

\* An event is not handed to an agent while a steer of it is unresolved, if turns
\* end before their in-flight deadline: nothing but the ack of its own steer brings
\* a steered event back within reach of flush_next.
THEOREM SteeredNotDispatched ==
  ASSUME MayOverrun = FALSE
  PROVE  Spec => []SteeredIsNotDispatched
  <1>1. Init => SteerInv
    BY InitTurnInv, InitPlaces DEF Init, SteerInv, Aside
  <1>2. SteerInv /\ [Next]_vars => SteerInv'
    BY NextSteerInv
  <1>3. SteerInv => SteeredIsNotDispatched
    BY DEF SteerInv, Aside, Within, SteeredIsNotDispatched
  <1>4. QED
    BY <1>1, <1>2, <1>3, PTL DEF Spec

=============================================================================
