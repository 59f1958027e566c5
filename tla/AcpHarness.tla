----------------------------- MODULE AcpHarness -----------------------------
(***************************************************************************)
(* The main loop of the ACP harness with its event queue, its pool of      *)
(* agents and the prompt tasks (crates/buzz-acp/src: lib.rs, pool.rs,      *)
(* queue.rs and the read loop of acp.rs).                                  *)
(*                                                                         *)
(* The main loop is one thread.  It sleeps in "select"; the handler of the *)
(* arm that fires runs without yielding and may end in dispatch_pending,   *)
(* whose iterations are steps of their own ("dispatch"); a result first    *)
(* drains the panics that are ready ("drain").  Then the loop starts over  *)
(* at its "top": maintenance if it is due, then respawn results            *)
(* ("collect"), each with a dispatch ("flush", "deliver"), and select.     *)
(* Prompt tasks, respawn jobs and steer watchers run beside it and reach   *)
(* it only through channels: a task that has sent its result is in phase   *)
(* "done", a respawn job's result waits in `respawn`, an ack is a steer    *)
(* attempt in one of the states of AckState.                               *)
(***************************************************************************)
EXTENDS EventQueueOps, SlotCircuit, FiniteSets

CONSTANTS Slot,            \* agent slots, numbered as in the pool
          Handling,        \* config.multiple_event_handling
          InitialMessage,  \* is config.initial_message set?
          Timers,          \* is a heartbeat, presence or typing interval set?
          MaxFaults,       \* bound: failed turns, panics and failed respawns
          MaxControls      \* bound: owner commands and removals from a channel

ASSUME SlotAssumption == Slot \subseteq Nat /\ IsFiniteSet(Slot) /\ Slot # {}
\* validate_multiple_event_handling: the cancelling modes need --dedup=queue.
ASSUME HandlingAssumption == /\ Handling \in {"queue", "steer", "interrupt", "owner_interrupt"}
                             /\ Handling # "queue" => Dedup = "queue"
ASSUME BoundAssumption == /\ InitialMessage \in BOOLEAN
                          /\ Timers \in BOOLEAN
                          /\ MaxFaults \in Nat
                          /\ MaxControls \in Nat

VARIABLES eq,         \* the EventQueue
          idle,       \* slots whose agent sits in the pool
          sess,       \* per slot: the channels its agent has a session for
          task,       \* per slot: the prompt task of its checked-out agent
          hb,         \* heartbeat_in_flight
          steering,   \* native-steer attempts whose ack is not processed
          removed,    \* removed_channels
          circuit,    \* crash_history
          respawn,    \* per slot: its background respawn job
          loop,       \* what the main loop is doing
          arrived, faults, controls

queueVars == <<eq, steering, arrived>>
poolVars  == <<idle, sess, task, hb, circuit, respawn>>
vars == <<queueVars, poolVars, removed, loop, faults, controls>>

Signal == {"cancel", "rotate", "switch", "interrupt", "steer"}
Heartbeat == "heartbeat"
\* PromptSource::Heartbeat is no channel: channel ids are UUIDs.
ASSUME HeartbeatAssumption == Heartbeat \notin Channel
NoTask == [phase |-> "none"]
NoBatch == [chan |-> Heartbeat]

\* A task is a record of its phase ("session", "initial", "prompt", "done" or
\* "panicked"), its channel or Heartbeat, its batch, and
\* `ctl`: the control channel, "armed" until a signal is sent, "none" for a heartbeat;
\* `init`: an initial_message turn has run, and its read loop took the steer
\* receiver with it; `outcome`: what the result says; `back`: the result hands the
\* batch back.

AckState == {"success", "fallback", "neutral"}

Running(i) == task[i].phase \in {"session", "initial", "prompt"}
Busy(i) == task[i].phase # "none"
TasksOf(c) == {i \in Slot : Busy(i) /\ task[i].chan = c}
SlotAlive(i) == i \in idle \/ Busy(i)
LiveCount(tk) == Cardinality(idle) + Cardinality({i \in Slot : tk[i] # NoTask})

\* initialize_agent_pool: a partial pool will do, an empty one will not.
Init == /\ eq = NewQueue
        /\ idle \in SUBSET Slot \ {{}}
        /\ sess = [i \in Slot |-> {}]
        /\ task = [i \in Slot |-> NoTask]
        /\ hb = FALSE
        /\ steering = {}
        /\ removed = {}
        /\ circuit = [i \in Slot |-> NewCircuit]
        /\ respawn = [i \in Slot |-> "none"]
        /\ loop = "top"
        /\ arrived = 0 /\ faults = 0 /\ controls = 0

-----------------------------------------------------------------------------
(* The prompt task (run_prompt_task and the read loop of acp.rs).          *)

Fault == faults < MaxFaults /\ faults' = faults + 1

\* Mutant of Neutralised: a request left in the channel is forgotten.
NeutralisedPendingOnly(i) ==
  { IF s.slot = i /\ s.state = "pending" THEN [s EXCEPT !.state = "neutral"] ELSE s :
      s \in steering }

\* The steer attempts of slot i when its read loop ends: a pending one is acked
\* neutral, a request left in the channel has its oneshot dropped.
Neutralised(i) ==
  { IF s.slot = i /\ s.state \notin AckState THEN [s EXCEPT !.state = "neutral"] ELSE s :
      s \in steering }

\* send_prompt_result
SendResult(i, outcome, back) ==
  /\ task' = [task EXCEPT ![i].phase = "done", ![i].outcome = outcome, ![i].back = back]
  /\ steering' = Neutralised(i)
  /\ UNCHANGED <<eq, idle, hb, removed, circuit, respawn, loop, arrived, controls>>

\* A batch is handed back by a failed turn only in Queue mode, and a heartbeat
\* has none (requeue_batch_if_queue).
Back(i) == Dedup = "queue" /\ task[i].chan \in Channel

\* The channel's session exists, or is created; a new one gets the initial
\* message first.
SessionReady(i) ==
  /\ task[i].phase = "session"
  /\ LET c == task[i].chan
         new == c \in Channel /\ c \notin sess[i]
     IN  /\ task' = [task EXCEPT ![i].phase = IF new /\ InitialMessage THEN "initial" ELSE "prompt"]
         /\ sess' = IF new THEN [sess EXCEPT ![i] = @ \cup {c}] ELSE sess
  /\ UNCHANGED <<queueVars, idle, hb, circuit, respawn, removed, loop, faults, controls>>

\* session/new failed: the process exited, or it answered with an error.
SessionFails(i) ==
  /\ task[i].phase = "session"
  /\ task[i].chan \notin sess[i]
  /\ Fault
  /\ \E outcome \in {"crashed", "error"} : SendResult(i, outcome, Back(i))
  /\ UNCHANGED sess

\* The initial_message turn ends and the main prompt starts; the steer receiver
\* was dropped with the first read loop.
InitialEnds(i) ==
  /\ task[i].phase = "initial"
  /\ task' = [task EXCEPT ![i].phase = "prompt", ![i].init = TRUE]
  /\ steering' = Neutralised(i)
  /\ UNCHANGED <<eq, arrived, idle, sess, hb, circuit, respawn, removed, loop, faults, controls>>

\* The prompt completes; MaxTokens or the turn limit rotates the session, and so
\* does a !rotate or model switch that arrives just after completion.
TurnOk(i) ==
  /\ task[i].phase = "prompt"
  /\ SendResult(i, "ok", FALSE)
  /\ sess' \in {sess, [sess EXCEPT ![i] = @ \ {task[i].chan}]}
  /\ UNCHANGED faults

\* The turn fails.  "crashed" stands for AgentExited, an idle timeout, a hard
\* timeout with recent activity and the transport errors, which the main loop
\* treats alike; "error" for the application errors.
TurnFails(i) ==
  /\ task[i].phase \in {"initial", "prompt"}
  /\ Fault
  /\ \E outcome \in {"crashed", "hard_silent", "error"} :
        /\ SendResult(i, outcome, Back(i))
        /\ LET invalidated == [sess EXCEPT ![i] = @ \ {task[i].chan}]
           IN  sess' \in IF outcome = "error" /\ task[i].phase = "prompt"
                         THEN {sess, invalidated}    \* AgentError: the session is healthy
                         ELSE {invalidated}

\* A control signal cancels the prompt; Cancel and Rotate drop the batch.
Cancelling(i) == task[i].phase = "prompt" /\ task[i].ctl \in Signal
BackOnCancel(i) == Back(i) /\ task[i].ctl \notin {"cancel", "rotate"}

TurnCancelled(i) ==
  /\ Cancelling(i)
  /\ SendResult(i, "cancelled", BackOnCancel(i))
  /\ sess' = [sess EXCEPT ![i] = @ \ {task[i].chan}]
  /\ UNCHANGED faults

\* The cancel fails: the agent does not stop within the grace window, exits, or
\* answers with an error (classify_control_cancel_failure).
CancelFails(i) ==
  /\ Cancelling(i)
  /\ Fault
  /\ \E outcome \in {"drain_timeout", "crashed", "error"} : SendResult(i, outcome, BackOnCancel(i))
  /\ sess' = [sess EXCEPT ![i] = @ \ {task[i].chan}]

\* The task panics: nothing is sent, the agent is dropped.
Panic(i) ==
  /\ Running(i)
  /\ Fault
  /\ task' = [task EXCEPT ![i].phase = "panicked"]
  /\ steering' = Neutralised(i)
  /\ UNCHANGED <<eq, arrived, idle, sess, hb, circuit, respawn, removed, loop, controls>>

\* The read loop takes the request out of the capacity-1 channel, unless a
\* steer is already written and unanswered.
TakeSteer(s) ==
  /\ s.state = "queued"
  /\ task[s.slot].phase \in {"initial", "prompt"}
  /\ ~\E t \in steering : t.slot = s.slot /\ t.state = "pending"
  /\ \E state \in {"pending", "fallback"} :   \* no active run id, or the write fails
        steering' = (steering \ {s}) \cup {[s EXCEPT !.state = state]}
  /\ UNCHANGED <<eq, arrived, poolVars, removed, loop, faults, controls>>

\* The agent answers the steer: accepted, method not found, or rejected.
AnswerSteer(s) ==
  /\ s.state = "pending"
  /\ \E state \in AckState : steering' = (steering \ {s}) \cup {[s EXCEPT !.state = state]}
  /\ UNCHANGED <<eq, arrived, poolVars, removed, loop, faults, controls>>

-----------------------------------------------------------------------------
(* Dispatch.                                                               *)

\* try_claim: the first idle agent with a session for the channel, or the first
\* idle agent.
Claimable(c) ==
  LET warm == {i \in idle : c \in sess[i]}
      from == IF warm # {} THEN warm ELSE idle
  IN  {i \in from : \A j \in from : i <= j}

NewTask(c, b) == [phase |-> "session", chan |-> c, batch |-> b, ctl |-> "armed",
                  init |-> FALSE, outcome |-> "none", back |-> FALSE]

\* The main loop is in dispatch_pending, and where it goes from there.
Dispatching == loop \in {"dispatch", "flush", "deliver"}
AfterDispatch == CASE loop = "dispatch" -> "top"
                   [] loop = "flush"    -> "collect"
                   [] loop = "deliver"  -> "select"

\* One iteration of dispatch_pending that hands a batch to an agent.
DispatchBatch ==
  /\ Dispatching
  /\ \E r \in FlushNext(Expire(eq)) : \E i \in Claimable(r.batch.chan) :
        /\ eq' = r.q
        /\ idle' = idle \ {i}
        /\ task' = [task EXCEPT ![i] = NewTask(r.batch.chan, r.batch)]
  /\ UNCHANGED <<steering, arrived, sess, hb, circuit, respawn, removed, loop, faults, controls>>

\* The iteration that finds every agent checked out.
DispatchNoAgent ==
  /\ Dispatching
  /\ idle = {}
  /\ \E r \in FlushNext(Expire(eq)) :
        eq' = MarkComplete(RequeuePreserve(r.q, r.batch), r.batch.chan)
  /\ loop' = AfterDispatch
  /\ UNCHANGED <<steering, arrived, poolVars, removed, faults, controls>>

\* The iteration whose flush_next returns None.
DispatchNothing ==
  /\ Dispatching
  /\ FlushNext(Expire(eq)) = {}
  /\ eq' = Expire(eq)
  /\ loop' = AfterDispatch
  /\ UNCHANGED <<steering, arrived, poolVars, removed, faults, controls>>

-----------------------------------------------------------------------------
(* Handlers of the main loop.                                              *)

\* signal_in_flight_task: the control sender of a turn can be taken once.  The
\* possible (tasks, was a signal sent) pairs.
SignalTask(c, signal) ==
  IF TasksOf(c) = {} THEN {[task |-> task, fired |-> FALSE]}
  ELSE { IF task[i].ctl = "armed"
         THEN [task |-> [task EXCEPT ![i].ctl = signal], fired |-> TRUE]
         ELSE [task |-> task, fired |-> FALSE] : i \in TasksOf(c) }

\* mode_gate_signal; the author decides in owner-interrupt mode.
ModeGateSignal == CASE Handling = "queue"           -> {"none"}
                    [] Handling = "steer"           -> {"steer"}
                    [] Handling = "interrupt"       -> {"interrupt"}
                    [] Handling = "owner_interrupt" -> {"interrupt", "none"}

\* send_steer succeeds: the task's receiver is alive and its one slot is free.
SteerAccepted(i) == /\ Running(i)
                    /\ ~task[i].init
                    /\ ~\E s \in steering : s.slot = i /\ s.state = "queued"

\* An event of channel c passes the gates and is pushed.  If the channel is busy
\* the mode decides: queue it, interrupt, or steer, natively first (withholding
\* the event), else by cancel+merge.
ReceiveEvent(c) ==
  /\ loop = "select"
  /\ arrived + 1 \in Event
  /\ arrived' = arrived + 1
  /\ loop' = "dispatch"
  /\ LET e == arrived + 1
         accepted == Accepts(eq, c)
         pushed == IF accepted THEN Push(eq, c, e) ELSE eq
     IN  \E signal \in IF accepted /\ c \in eq.inFlight THEN ModeGateSignal ELSE {"none"} :
           \/ /\ signal = "none"
              /\ eq' = pushed
              /\ UNCHANGED <<steering, task>>
           \/ /\ signal = "steer"
              /\ \E i \in TasksOf(c) :
                   /\ SteerAccepted(i)
                   /\ eq' = MarkNativeSteerPending(pushed, c, e)
                   /\ steering' = steering \cup
                        {[chan |-> c, event |-> e, slot |-> i, state |-> "queued"]}
              /\ UNCHANGED task
           \/ /\ \/ signal = "interrupt"
                 \/ signal = "steer" /\ (TasksOf(c) = {} \/ \E i \in TasksOf(c) : ~SteerAccepted(i))
              /\ eq' = pushed
              /\ \E r \in SignalTask(c, signal) : task' = r.task
              /\ UNCHANGED steering
  /\ UNCHANGED <<idle, sess, hb, circuit, respawn, removed, faults, controls>>

\* What handle_prompt_result does to queue q with the batch of slot i's result.
Disposed(q, i) ==
  LET t == task[i] IN
  CASE ~t.back \/ t.chan \in removed -> q
    [] t.back /\ t.chan \notin removed /\ t.outcome \in {"cancelled", "drain_timeout"} ->
         RequeueAsCancelled(q, t.batch, IF t.ctl = "steer" THEN "steer" ELSE "interrupt")
    [] t.back /\ t.chan \notin removed /\ t.outcome = "hard_silent" -> q
    [] t.back /\ t.chan \notin removed /\ t.outcome \in {"crashed", "error"} ->
         Requeue(q, t.batch)

\* Mutant of Settled: a removed channel, whose batch is dropped, stays in flight.
SettledUnlessRemoved(i) ==
  IF task[i].chan \in removed THEN eq ELSE MarkComplete(Disposed(eq, i), task[i].chan)

\* The queue after a channel turn's result: the batch first, then mark_complete.
Settled(i) == MarkComplete(Disposed(eq, i), task[i].chan)

\* Mutant of PanicSettled: the channel stays in flight.
PanicLeavesChannel(i) ==
  IF Dedup = "queue" /\ task[i].chan \notin removed THEN Requeue(eq, task[i].batch) ELSE eq

\* The queue after a channel turn's panic (recover_panicked_agent).
PanicSettled(i) ==
  MarkComplete(IF Dedup = "queue" /\ task[i].chan \notin removed
               THEN Requeue(eq, task[i].batch) ELSE eq, task[i].chan)

\* Mutant of Stripped: the returning agent keeps all its sessions.
StrippedOfNothing(i) == sess

\* The returning agent loses the sessions of channels removed meanwhile.
Stripped(i) == [sess EXCEPT ![i] = @ \ removed]

\* Mutant of AllDead: a respawn under way is not counted on.
AllDeadIgnoresRespawns(tk, ck) == LiveCount(tk) = 0

\* The exit condition after a slot was left empty.
AllDead(tk, ck) == LiveCount(tk) = 0 /\ \A j \in Slot : ~ck[j].respawning

\* Leaves of handle_prompt_result and recover_panicked_agent that lose the agent
\* of slot i: record the crash; without a respawn and without any live agent or
\* other respawn the loop exits, else it does `next`.
LoseAgent(i, next) ==
  LET k  == RecordCrash(circuit[i])
      tk == [task EXCEPT ![i] = NoTask]
      ck == [circuit EXCEPT ![i] = k]
  IN  /\ circuit' = ck
      /\ respawn' = IF k.respawning THEN [respawn EXCEPT ![i] = "running"] ELSE respawn
      /\ sess' = [sess EXCEPT ![i] = {}]
      /\ idle' = idle
      /\ loop' = IF ~k.respawning /\ AllDead(tk, ck) THEN "exit" ELSE next

\* handle_prompt_result
HandleResult(i) ==
  /\ loop = "select"
  /\ task[i].phase = "done"
  /\ task' = [task EXCEPT ![i] = NoTask]
  /\ IF task[i].chan = Heartbeat
     THEN eq' = eq /\ hb' = FALSE
     ELSE eq' = Settled(i) /\ hb' = hb
  /\ IF task[i].outcome \in {"ok", "cancelled", "error"}
     THEN /\ idle' = idle \cup {i}
          /\ sess' = Stripped(i)
          /\ loop' = "drain"
          /\ UNCHANGED <<circuit, respawn>>
     ELSE LoseAgent(i, "drain")
  /\ UNCHANGED <<steering, arrived, removed, faults, controls>>

\* recover_panicked_agent, from select or from drain_ready_join_results.
HandlePanic(i) ==
  /\ loop \in {"select", "drain"}
  /\ task[i].phase = "panicked"
  /\ task' = [task EXCEPT ![i] = NoTask]
  /\ IF task[i].chan = Heartbeat
     THEN eq' = eq /\ hb' = FALSE
     ELSE eq' = PanicSettled(i) /\ hb' = hb
  /\ LoseAgent(i, IF loop = "drain" THEN "drain" ELSE "dispatch")
  /\ UNCHANGED <<steering, arrived, removed, faults, controls>>

\* drain_ready_join_results finds no (further) panic ready.
DrainEnds ==
  /\ loop = "drain"
  /\ loop' = "dispatch"
  /\ UNCHANGED <<queueVars, poolVars, removed, faults, controls>>

\* PoolEvent::SteerAck
HandleSteerAck(s) ==
  /\ loop = "select"
  /\ s.state \in AckState
  /\ steering' = steering \ {s}
  /\ eq' = IF s.state = "success"
           THEN RemoveEvent(ExtendInFlightDeadline(eq, s.chan), s.chan, s.event)
           ELSE ReleaseNativeSteer(eq, s.chan, s.event)
  /\ IF s.state = "fallback"
     THEN \E r \in SignalTask(s.chan, "steer") : task' = r.task
     ELSE UNCHANGED task
  /\ loop' = "dispatch"
  /\ UNCHANGED <<arrived, idle, sess, hb, circuit, respawn, removed, faults, controls>>

Control == controls < MaxControls /\ controls' = controls + 1

InvalidateIdle(c) == [i \in Slot |-> IF i \in idle THEN sess[i] \ {c} ELSE sess[i]]

\* Membership notifications: the agent leaves, or re-joins, a channel.
MemberRemoved(c) ==
  /\ loop = "select"
  /\ Control
  /\ eq' = DrainChannel(eq, c)
  /\ sess' = InvalidateIdle(c)
  /\ removed' = removed \cup {c}
  /\ loop' = "top"
  /\ UNCHANGED <<steering, arrived, idle, task, hb, circuit, respawn, faults>>

MemberAdded(c) ==
  /\ loop = "select" /\ c \in removed
  /\ removed' = removed \ {c}
  /\ loop' = "top"
  /\ UNCHANGED <<queueVars, poolVars, faults, controls>>

\* The owner's !cancel, and the cancel_turn control frame.
OwnerCancel(c) ==
  /\ loop = "select" /\ TasksOf(c) # {}
  /\ Control
  /\ \E r \in SignalTask(c, "cancel") : task' = r.task
  /\ loop' = "top"
  /\ UNCHANGED <<queueVars, idle, sess, hb, circuit, respawn, removed, faults>>

\* The owner's !rotate: signal the running turn, else invalidate idle sessions.
OwnerRotate(c) ==
  /\ loop = "select"
  /\ Control
  /\ \E r \in SignalTask(c, "rotate") :
       /\ task' = r.task
       /\ sess' = IF r.fired THEN sess ELSE InvalidateIdle(c)
  /\ loop' = "top"
  /\ UNCHANGED <<queueVars, idle, hb, circuit, respawn, removed, faults>>

\* The switch_model control frame: signal the running turn, else invalidate the
\* session of the first idle agent that has one.
SwitchModel(c) ==
  /\ loop = "select"
  /\ Control
  /\ \/ /\ TasksOf(c) # {}
        /\ \E r \in SignalTask(c, "switch") : task' = r.task
        /\ UNCHANGED sess
     \/ /\ TasksOf(c) = {}
        /\ \E i \in Claimable(c) : c \in sess[i] /\ sess' = [sess EXCEPT ![i] = @ \ {c}]
        /\ UNCHANGED task
  /\ loop' = "top"
  /\ UNCHANGED <<queueVars, idle, hb, circuit, respawn, removed, faults>>

\* The heartbeat timer: queued work first, else a heartbeat turn if an agent is
\* idle and none is running (dispatch_heartbeat).
HeartbeatTick ==
  /\ loop = "select" /\ Timers
  /\ eq' = Expire(eq)
  /\ \/ /\ HasFlushableWork(Expire(eq))
        /\ loop' = "dispatch"
        /\ UNCHANGED <<idle, task, hb>>
     \/ /\ ~HasFlushableWork(Expire(eq))
        /\ ~hb
        /\ \E i \in Claimable(Heartbeat) :
             /\ idle' = idle \ {i}
             /\ task' = [task EXCEPT ![i] = [NewTask(Heartbeat, NoBatch) EXCEPT !.ctl = "none"]]
        /\ hb' = TRUE
        /\ loop' = "top"
     \/ /\ ~HasFlushableWork(Expire(eq))
        /\ hb \/ idle = {}
        /\ loop' = "top"
        /\ UNCHANGED <<idle, task, hb>>
  /\ UNCHANGED <<steering, arrived, sess, circuit, respawn, removed, faults, controls>>

\* The presence and typing timers: for the state modelled here, only another
\* turn of the loop.
OtherTick ==
  /\ loop = "select" /\ Timers
  /\ loop' = "top"
  /\ UNCHANGED <<queueVars, poolVars, removed, faults, controls>>

\* Mutant of NeedsRefill: a slot whose agent is alive is refilled.
NeedsRefillThoughAlive(i) == ~circuit[i].respawning

\* The refill loop considers slot i.
NeedsRefill(i) == ~SlotAlive(i) /\ ~circuit[i].respawning

\* Mutant of AfterMaintenance: expired backoffs wait for the next event.
AfterMaintenanceSelect(q) == "collect"

\* Flush batches whose backoff has ended; nothing else might on a quiet channel.
AfterMaintenance(q) == IF HasFlushableWork(q) THEN "flush" ELSE "collect"

\* Maintenance, when its interval has elapsed: compact, refill empty slots, flush.
Maintenance ==
  /\ loop = "top"
  /\ LET q == Expire(CompactExpiredState(eq))
     IN  eq' = q /\ loop' = AfterMaintenance(q)
  /\ circuit' = [i \in Slot |-> IF NeedsRefill(i) THEN Refill(circuit[i]) ELSE circuit[i]]
  /\ respawn' = [i \in Slot |-> IF circuit'[i].respawning /\ ~circuit[i].respawning
                                THEN "running" ELSE respawn[i]]
  /\ UNCHANGED <<steering, arrived, idle, sess, task, hb, removed, faults, controls>>

\* The respawn job of slot i sends its result; a panic sends a failure
\* (RespawnGuard).
RespawnEnds(i) ==
  /\ respawn[i] = "running"
  /\ \/ respawn' = [respawn EXCEPT ![i] = "ok"] /\ UNCHANGED faults
     \/ respawn' = [respawn EXCEPT ![i] = "failed"] /\ Fault
  /\ UNCHANGED <<queueVars, idle, sess, task, hb, circuit, removed, loop, controls>>

\* Collect the respawn results that have come; a new agent gets work at once.
Collect ==
  /\ loop \in {"top", "collect"}
  /\ LET came == {i \in Slot : respawn[i] \in {"ok", "failed"}}
         new  == {i \in came : respawn[i] = "ok"}
     IN  /\ respawn' = [i \in Slot |-> IF i \in came THEN "none" ELSE respawn[i]]
         /\ circuit' = [i \in Slot |->
              IF i \in new THEN [circuit[i] EXCEPT !.respawning = FALSE]
              ELSE IF i \in came THEN MarkSpawnFailed(circuit[i]) ELSE circuit[i]]
         /\ idle' = idle \cup new
         /\ sess' = [i \in Slot |-> IF i \in new THEN {} ELSE sess[i]]
         /\ loop' = IF new # {} THEN "deliver" ELSE "select"
  /\ UNCHANGED <<queueVars, task, hb, removed, faults, controls>>

-----------------------------------------------------------------------------
(* Time.                                                                   *)

ThrottleEnds(c) ==
  /\ c \in eq.throttled
  /\ eq' = [eq EXCEPT !.throttled = @ \ {c}]
  /\ UNCHANGED <<steering, arrived, poolVars, removed, loop, faults, controls>>

\* The in-flight deadline runs from the flush: max_turn_duration plus a buffer of
\* 100 s.  The clock of the hard timeout starts only when the prompt is written,
\* after the context fetches and the requests that set the session up, and an
\* initial_message is a turn of its own: any task may outlive the deadline.
DeadlinePasses(c) ==
  /\ c \in eq.deadlines \ eq.overdue
  /\ eq' = [eq EXCEPT !.overdue = @ \cup {c}]
  /\ UNCHANGED <<steering, arrived, poolVars, removed, loop, faults, controls>>

CooldownEnds(i) ==
  /\ circuit[i].open = "open"
  /\ circuit' = [circuit EXCEPT ![i] = CooldownOver(@)]
  /\ UNCHANGED <<queueVars, idle, sess, task, hb, respawn, removed, loop, faults, controls>>

CrashAges(i) ==
  /\ circuit[i].crashes > 0
  /\ circuit' = [circuit EXCEPT ![i] = ForgetCrash(@)]
  /\ UNCHANGED <<queueVars, idle, sess, task, hb, respawn, removed, loop, faults, controls>>

Exited == loop = "exit" /\ UNCHANGED vars

TaskStep(i) == \/ SessionReady(i) \/ SessionFails(i) \/ InitialEnds(i) \/ TurnOk(i)
               \/ TurnFails(i) \/ TurnCancelled(i) \/ CancelFails(i) \/ Panic(i)

DispatchStep == DispatchBatch \/ DispatchNoAgent \/ DispatchNothing

Next == \/ \E c \in Channel : \/ ReceiveEvent(c)
                              \/ MemberRemoved(c)
                              \/ MemberAdded(c)
                              \/ OwnerCancel(c)
                              \/ OwnerRotate(c)
                              \/ SwitchModel(c)
                              \/ ThrottleEnds(c)
                              \/ DeadlinePasses(c)
        \/ \E i \in Slot : \/ TaskStep(i)
                           \/ HandleResult(i)
                           \/ HandlePanic(i)
                           \/ RespawnEnds(i)
                           \/ CooldownEnds(i)
                           \/ CrashAges(i)
        \/ \E s \in steering : TakeSteer(s) \/ AnswerSteer(s) \/ HandleSteerAck(s)
        \/ DrainEnds
        \/ DispatchStep
        \/ HeartbeatTick
        \/ OtherTick
        \/ Maintenance
        \/ Collect
        \/ Exited

Spec == Init /\ [][Next]_vars

\* Weak fairness for what runs on its own: a task's await ends (every one has a
\* timeout), the loop leaves its top, a drain and a dispatch, a respawn job ends,
\* a backoff and a cooldown run out, a timer that is set fires.  Strong fairness
\* for arms that are disabled while another one's handler runs, since select is
\* biased towards results, panics and acks, and for maintenance, whose interval
\* elapses again and again between visits to the top.
Fairness ==
  /\ \A i \in Slot : /\ WF_vars(TaskStep(i))
                     /\ SF_vars(HandleResult(i))
                     /\ SF_vars(HandlePanic(i))
                     /\ WF_vars(RespawnEnds(i))
                     /\ WF_vars(CooldownEnds(i))
  /\ \A c \in Channel : WF_vars(ThrottleEnds(c))
  /\ WF_vars(DrainEnds)
  /\ WF_vars(DispatchStep)
  /\ WF_vars(Collect)
  /\ WF_vars(OtherTick)
  /\ SF_vars(\E s \in steering : HandleSteerAck(s))
  /\ SF_vars(Maintenance)

FairSpec == Spec /\ Fairness

-----------------------------------------------------------------------------
(* The queue specification this one implements.                            *)

EQ == INSTANCE EventQueue WITH
        held       <- {task[i].batch : i \in {j \in Slot : Busy(j) /\ task[j].chan \in Channel}},
        steering   <- {[chan |-> s.chan, event |-> s.event] : s \in steering},
        MayOverrun <- TRUE

\* Every handler of the main loop uses the queue only through the groups of
\* calls of EventQueue, so what holds of EventQueue holds of the harness.
RefinesQueue == EQ!Spec

-----------------------------------------------------------------------------
(* Properties.                                                             *)

\* An agent is in one place: idle in its slot, out with a task, or being
\* respawned.  Otherwise return_agent overwrites a live agent, or the
\* respawn channel (one place per slot) overflows.
SlotExclusive ==
  \A i \in Slot : /\ ~(i \in idle /\ Busy(i))
                  /\ SlotAlive(i) => ~circuit[i].respawning
                  /\ circuit[i].respawning <=> respawn[i] # "none"

\* A slot whose circuit is not closed is empty: no agent works behind an open
\* breaker, so record_crash never meets one.
OpenCircuitIsEmpty ==
  \A i \in Slot : circuit[i].open # "closed" => ~SlotAlive(i) /\ ~circuit[i].respawning

\* An idle agent keeps no session of a channel it was removed from, also when it
\* was checked out at the time of the removal.
RemovedSessionsGone == \A i \in idle : sess[i] \cap removed = {}

\* A steer attempt that is not yet acked belongs to a running task whose read loop
\* or end will ack it.
SteerHasReader ==
  \A s \in steering : s.state \notin AckState => Running(s.slot) /\ task[s.slot].chan = s.chan

OneTaskPerChannel == \A c \in Channel : Cardinality(TasksOf(c)) <= 1
NoneOverdue == eq.overdue = {}

\* As long as no turn has outlived its in-flight deadline, a channel has at most
\* one task: only that deadline, never a result, a panic, a drain, an ack or a
\* respawn, can put a second turn beside one that still runs.
OneTaskUnlessOverrun == []NoneOverdue => []OneTaskPerChannel

\* Every live agent is accounted for when the loop gives up.
ExitMeansDead == loop = "exit" => \A i \in Slot : ~SlotAlive(i) /\ respawn[i] = "none"

-----------------------------------------------------------------------------
(* What comments of the code promise and the code does not keep: each is   *)
(* the property of a run that expects a violation.                         *)

\* The events of a cancelled turn survive a dispatch that finds no agent: the
\* pool-exhausted path puts the flushed batch back "without penalizing" it.
CancelledSurvives ==
  [][DispatchNoAgent =>
       \A c \in Channel : Range(eq.cancelled[c]) \subseteq Range(EQ!Waiting(c))']_vars

-----------------------------------------------------------------------------
(* Liveness, under FairSpec.                                               *)

\* The harness keeps event e: waiting, withheld, stored or in a task's hands.
Kept(e) == \/ \E c \in Channel : e \in Range(EQ!Waiting(c))
           \/ \E i \in Slot : /\ Busy(i) /\ task[i].chan \in Channel
                              /\ e \in Range(EQ!Carried(task[i].batch))

\* Every event the harness keeps is in the end processed, dead-lettered or
\* discarded: no mix of backoff, cancel, steer, panic and respawn parks it for
\* good, also on a channel where nothing else arrives.
EveryEventSettles == \A e \in Event : Kept(e) ~> (~Kept(e) \/ loop = "exit")

\* A busy channel becomes free again, so a later event of it can be dispatched,
\* and so does the heartbeat, whose mark is cleared by results and panics too.
EveryChannelFrees ==
  /\ \A c \in Channel : (c \in eq.inFlight) ~> (c \notin eq.inFlight \/ loop = "exit")
  /\ hb ~> (~hb \/ loop = "exit")

\* A crashed slot gets an agent again, also after the breaker has opened.
EverySlotRefills == \A i \in Slot : ~SlotAlive(i) ~> (SlotAlive(i) \/ loop = "exit")

=============================================================================
