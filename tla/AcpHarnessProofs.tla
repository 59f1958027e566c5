-------------------------- MODULE AcpHarnessProofs --------------------------
(***************************************************************************)
(* The safety properties of AcpHarness and its refinement of EventQueue,   *)
(* for every set of channels, slots and events.                            *)
(*                                                                         *)
(* HInv is the inductive invariant: Own, what the harness's own variables  *)
(* say about each other (the slots, the sessions, the tasks' records and   *)
(* the steer attempts), and the queue's PlaceInv, taken through the        *)
(* refinement mapping.  The two are proved side by side, since a step of   *)
(* the harness is a step of the queue only where Own holds (the batch a    *)
(* turn settles is the one it holds), and Own needs the queue's invariant  *)
(* (a dispatched batch and a steered event are new).  There is one lemma   *)
(* per handler; each says that Own is kept and which step of the queue the *)
(* handler is.                                                             *)
(***************************************************************************)
EXTENDS AcpHarness, FiniteSetTheorems, TLAPS

\* The batches and the steer attempts as the queue's specification sees them.
Held == {task[i].batch : i \in {j \in Slot : Busy(j) /\ task[j].chan \in Channel}}
Tries == {[chan |-> s.chan, event |-> s.event] : s \in steering}

Q == INSTANCE EventQueueTurnProofs WITH held <- Held, steering <- Tries, MayOverrun <- TRUE

-----------------------------------------------------------------------------
(* The inductive invariant.                                                *)

\* The phases of a task and what a result may say.
Phase == {"session", "initial", "prompt", "done", "panicked"}
Outcome == {"ok", "cancelled", "drain_timeout", "hard_silent", "crashed", "error"}

TaskType == [phase : Phase, chan : Channel \cup {Heartbeat}, batch : Batch \cup {NoBatch},
             ctl : Signal \cup {"armed", "none"}, init : BOOLEAN,
             outcome : Outcome \cup {"none"}, back : BOOLEAN]

CircuitType == [crashes : Nat, open : {"closed", "open", "elapsed"}, respawning : BOOLEAN]

SteerType == [chan : Channel, event : Event, slot : Slot, state : {"queued", "pending"} \cup AckState]

\* What the fields of a task say about each other.
Coherent(t) ==
  /\ t.chan \in Channel => t.batch \in Batch /\ t.batch.chan = t.chan
  /\ t.back => Dedup = "queue" /\ t.chan \in Channel
  /\ t.phase = "done" => t.outcome \in Outcome /\ (t.outcome = "ok" => ~t.back)
  /\ t.init \/ t.phase = "initial" => InitialMessage

Turn(t) == t \in TaskType /\ Coherent(t)

Typed == /\ idle \subseteq Slot
         /\ sess \in [Slot -> SUBSET Channel]
         /\ task \in [Slot -> TaskType \cup {NoTask}]
         /\ \A i \in Slot : Busy(i) => Turn(task[i])
         /\ circuit \in [Slot -> CircuitType]
         /\ respawn \in [Slot -> {"none", "running", "ok", "failed"}]
         /\ steering \subseteq SteerType

Slots == SlotExclusive /\ OpenCircuitIsEmpty /\ ExitMeansDead

\* No two tasks carry one batch, no two attempts are about one event.
Separate ==
  /\ \A i, j \in Slot :
       (/\ Busy(i) /\ Busy(j)
        /\ task[i].chan \in Channel /\ task[j].chan \in Channel
        /\ task[i].batch = task[j].batch) => i = j
  /\ \A s, t \in steering : s.event = t.event => s = t

Own == Typed /\ Slots /\ RemovedSessionsGone /\ SteerHasReader /\ Separate

HInv == Own /\ Q!PlaceInv

-----------------------------------------------------------------------------
(* What the steps of a task do to its record.                              *)

\* A slot is busy exactly when it has a task.
LEMMA BusyIsTurn ==
  ASSUME Typed, NEW i \in Slot
  PROVE  /\ Busy(i) <=> task[i] # NoTask
         /\ Busy(i) <=> task[i] \in TaskType
         /\ Busy(i) => Turn(task[i]) /\ task[i].phase \in Phase /\ task[i].chan \in Channel \cup {Heartbeat}
         /\ Running(i) => Busy(i)
  BY DEF Typed, Busy, Running, TaskType, NoTask, Phase

\* A new phase, outcome or signal leaves the rest of the task alone.
LEMMA TurnSteps ==
  ASSUME NEW t, Turn(t)
  PROVE  /\ \A p \in {"prompt", "panicked"} :
              LET u == [t EXCEPT !.phase = p]
              IN  Turn(u) /\ u.phase = p /\ u.chan = t.chan /\ u.batch = t.batch
         /\ InitialMessage =>
              LET u == [t EXCEPT !.phase = "initial"]
              IN  Turn(u) /\ u.phase = "initial" /\ u.chan = t.chan /\ u.batch = t.batch
         /\ InitialMessage =>
              LET u == [[t EXCEPT !.phase = "prompt"] EXCEPT !.init = TRUE]
              IN  Turn(u) /\ u.phase = "prompt" /\ u.chan = t.chan /\ u.batch = t.batch
         /\ \A signal \in Signal :
              LET u == [t EXCEPT !.ctl = signal]
              IN  Turn(u) /\ u.phase = t.phase /\ u.chan = t.chan /\ u.batch = t.batch
  <1>1. ASSUME NEW p \in {"prompt", "panicked"}
        PROVE  LET u == [t EXCEPT !.phase = p]
               IN  Turn(u) /\ u.phase = p /\ u.chan = t.chan /\ u.batch = t.batch
    BY DEF Turn, TaskType, Coherent, Phase
  <1>2. ASSUME InitialMessage
        PROVE  LET u == [t EXCEPT !.phase = "initial"]
               IN  Turn(u) /\ u.phase = "initial" /\ u.chan = t.chan /\ u.batch = t.batch
    BY <1>2 DEF Turn, TaskType, Coherent, Phase
  <1>3. ASSUME InitialMessage
        PROVE  LET u == [[t EXCEPT !.phase = "prompt"] EXCEPT !.init = TRUE]
               IN  Turn(u) /\ u.phase = "prompt" /\ u.chan = t.chan /\ u.batch = t.batch
    BY <1>3 DEF Turn, TaskType, Coherent, Phase
  <1>4. ASSUME NEW signal \in Signal
        PROVE  LET u == [t EXCEPT !.ctl = signal]
               IN  Turn(u) /\ u.phase = t.phase /\ u.chan = t.chan /\ u.batch = t.batch
    BY DEF Turn, TaskType, Coherent, Phase
  <1>5. QED
    BY <1>1, <1>2, <1>3, <1>4

\* A new task, of a channel or a heartbeat.
LEMMA TurnNew ==
  /\ \A b \in Batch : Turn(NewTask(b.chan, b)) 
  /\ Turn([NewTask(Heartbeat, NoBatch) EXCEPT !.ctl = "none"])
  <1>1. ASSUME NEW b \in Batch PROVE Turn(NewTask(b.chan, b))
    <2>1. b.chan \in Channel
      BY DEF Batch
    <2>2. NewTask(b.chan, b) \in TaskType
      BY <2>1 DEF NewTask, TaskType, Phase
    <2>3. Coherent(NewTask(b.chan, b))
      BY <2>1 DEF NewTask, Coherent
    <2>4. QED
      BY <2>2, <2>3 DEF Turn
  <1>2. Turn([NewTask(Heartbeat, NoBatch) EXCEPT !.ctl = "none"])
    BY HeartbeatAssumption DEF NewTask, Turn, TaskType, Phase, Coherent
  <1>3. QED
    BY <1>1, <1>2

-----------------------------------------------------------------------------
(* What a step that starts and ends no turn keeps.                         *)

SameTurns ==
  /\ task' \in [Slot -> TaskType \cup {NoTask}]
  /\ \A j \in Slot : /\ Busy(j)' => Turn(task'[j])
                     /\ Busy(j)' <=> Busy(j)
                     /\ Busy(j) => task'[j].chan = task[j].chan /\ task'[j].batch = task[j].batch

\* One task moves on.
LEMMA OneMoves ==
  ASSUME Typed, NEW i \in Slot, Busy(i), NEW u, Turn(u), task' = [task EXCEPT ![i] = u],
         u.chan = task[i].chan, u.batch = task[i].batch
  PROVE  /\ SameTurns /\ task'[i] = u /\ \A j \in Slot \ {i} : task'[j] = task[j]
  <1>1. task'[i] = u /\ \A j \in Slot \ {i} : task'[j] = task[j]
    BY DEF Typed
  <1>2. task' \in [Slot -> TaskType \cup {NoTask}]
    BY DEF Typed, Turn
  <1>3. u.phase # "none"
    BY DEF Turn, TaskType, Phase
  <1>4. ASSUME NEW j \in Slot
        PROVE  /\ Busy(j)' => Turn(task'[j])
               /\ Busy(j)' <=> Busy(j)
               /\ Busy(j) => task'[j].chan = task[j].chan /\ task'[j].batch = task[j].batch
    <2>1. CASE j = i
      BY <1>1, <1>3, <2>1 DEF Busy
    <2>2. CASE j # i
      BY <1>1, <2>2 DEF Busy, Typed
    <2>3. QED
      BY <2>1, <2>2
  <1>5. QED
    BY <1>1, <1>2, <1>4 DEF SameTurns

\* Without a new or an ended turn the queue's specification sees the same batches.
LEMMA SameHeld == ASSUME SameTurns PROVE Held' = Held
  <1>1. {j \in Slot : Busy(j) /\ task[j].chan \in Channel}' = {j \in Slot : Busy(j) /\ task[j].chan \in Channel}
    BY DEF SameTurns
  <1>2. \A j \in {j \in Slot : Busy(j) /\ task[j].chan \in Channel} : task'[j].batch = task[j].batch
    BY DEF SameTurns
  <1>3. QED
    BY <1>1, <1>2 DEF Held

\* The tasks stay as they are.
LEMMA TasksUnchanged == ASSUME Typed, task' = task PROVE SameTurns
  BY DEF SameTurns, Typed, Busy

\* The attempts keep their types and stay separate.
SameTries ==
  /\ steering' \subseteq SteerType
  /\ \A s, t \in steering' : s.event = t.event => s = t

\* What Own says, after a step that starts and ends no turn.
LEMMA OwnKept ==
  ASSUME Own, SameTurns, SameTries, UNCHANGED <<idle, circuit, respawn>>,
         loop' = loop \/ loop' # "exit",
         sess' \in [Slot -> SUBSET Channel],
         \A j \in idle : sess'[j] \cap removed' = {},
         SteerHasReader'
  PROVE  Own'
  <1>1. Typed'
    BY DEF Own, Typed, SameTurns, SameTries
  <1>2. SlotExclusive'
    BY DEF Own, Slots, SlotExclusive, SameTurns, SlotAlive
  <1>3. OpenCircuitIsEmpty'
    BY DEF Own, Slots, OpenCircuitIsEmpty, SameTurns, SlotAlive
  <1>4. ExitMeansDead'
    BY DEF Own, Slots, ExitMeansDead, SameTurns, SlotAlive
  <1>5. Separate'
    BY DEF Own, Separate, SameTurns, SameTries
  <1>6. RemovedSessionsGone'
    BY DEF RemovedSessionsGone
  <1>7. QED
    BY <1>1, <1>2, <1>3, <1>4, <1>5, <1>6 DEF Own, Slots

\* The attempts of a slot whose read loop has ended are acked, the others as before.
LEMMA NeutralisedTries ==
  ASSUME Typed, Separate, NEW i \in Slot, steering' = Neutralised(i)
  PROVE  /\ SameTries /\ Tries' = Tries
         /\ \A s \in steering' : s.state \notin AckState => s \in steering /\ s.slot # i
  <1> DEFINE f(s) == IF s.slot = i /\ s.state \notin AckState THEN [s EXCEPT !.state = "neutral"] ELSE s
  <1>1. steering' = {f(s) : s \in steering}
    BY DEF Neutralised
  <1>2. ASSUME NEW s \in steering
        PROVE  /\ f(s) \in SteerType /\ f(s).event = s.event /\ f(s).chan = s.chan
               /\ f(s).state \notin AckState => f(s) = s /\ s.slot # i
    <2>1. s \in SteerType
      BY DEF Typed
    <2>2. CASE s.slot = i /\ s.state \notin AckState
      BY <2>1, <2>2 DEF SteerType, AckState
    <2>3. CASE ~(s.slot = i /\ s.state \notin AckState)
      BY <2>1, <2>3 DEF SteerType, AckState
    <2>4. QED
      BY <2>2, <2>3
  <1> HIDE DEF f
  <1>3. SameTries
    <2>1. steering' \subseteq SteerType
      BY <1>1, <1>2
    <2>2. ASSUME NEW s \in steering', NEW t \in steering', s.event = t.event PROVE s = t
      <3>1. PICK x \in steering : s = f(x)
        BY <1>1
      <3>2. PICK y \in steering : t = f(y)
        BY <1>1
      <3>3. x.event = y.event
        BY <1>2, <2>2, <3>1, <3>2
      <3>4. QED
        BY <3>1, <3>2, <3>3 DEF Separate
    <2>3. QED
      BY <2>1, <2>2 DEF SameTries
  <1>4. Tries' = Tries
    <2>1. Tries' = {[chan |-> s.chan, event |-> s.event] : s \in steering'}
      BY DEF Tries
    <2>2. Tries' \subseteq Tries
      BY <1>1, <1>2, <2>1 DEF Tries
    <2>3. Tries \subseteq Tries'
      BY <1>1, <1>2, <2>1 DEF Tries
    <2>4. QED
      BY <2>2, <2>3
  <1>5. QED
    BY <1>1, <1>2, <1>3, <1>4

\* A step the queue's specification does not see.
LEMMA QueueUnseen ==
  ASSUME Held' = Held, Tries' = Tries, eq' = eq, arrived' = arrived
  PROVE  UNCHANGED Q!vars
  BY DEF Q!vars

-----------------------------------------------------------------------------
(* The steps of a prompt task.                                             *)

\* A read loop ends: its task moves on and its attempts are acked.
LEMMA ReadLoopEnds ==
  ASSUME Own, NEW i \in Slot, Busy(i), NEW u, Turn(u), u.chan = task[i].chan, u.batch = task[i].batch,
         task' = [task EXCEPT ![i] = u], steering' = Neutralised(i),
         UNCHANGED <<idle, circuit, respawn, removed, loop, eq, arrived>>,
         sess' \in [Slot -> SUBSET Channel], \A j \in Slot \ {i} : sess'[j] = sess[j]
  PROVE  Own' /\ UNCHANGED Q!vars
  <1>0. Typed /\ Separate /\ i \notin idle /\ idle \subseteq Slot
    BY DEF Own, Slots, SlotExclusive, Typed
  <1>1. SameTurns /\ \A j \in Slot \ {i} : task'[j] = task[j]
    BY <1>0, OneMoves
  <1>2. /\ SameTries /\ Tries' = Tries
        /\ \A s \in steering' : s.state \notin AckState => s \in steering /\ s.slot # i
    BY <1>0, NeutralisedTries
  <1>3. SteerHasReader'
    <2> SUFFICES ASSUME NEW s \in steering', s.state \notin AckState
                 PROVE  Running(s.slot)' /\ task'[s.slot].chan = s.chan
      BY DEF SteerHasReader
    <2>1. s \in steering /\ s.slot # i /\ s.slot \in Slot
      BY <1>2 DEF SameTries, SteerType
    <2>2. Running(s.slot) /\ task[s.slot].chan = s.chan
      BY <2>1 DEF Own, SteerHasReader
    <2>3. QED
      BY <1>1, <2>1, <2>2 DEF Running
  <1>4. \A j \in idle : sess'[j] \cap removed' = {}
    BY <1>0 DEF Own, RemovedSessionsGone
  <1>5. Own'
    BY <1>1, <1>2, <1>3, <1>4, OwnKept
  <1>6. Held' = Held
    BY <1>1, SameHeld
  <1>7. QED
    BY <1>2, <1>5, <1>6, QueueUnseen

\* send_prompt_result.
LEMMA ResultSent ==
  ASSUME Own, NEW i \in Slot, Busy(i), NEW outcome \in Outcome, NEW back \in BOOLEAN,
         back => Dedup = "queue" /\ task[i].chan \in Channel, outcome = "ok" => ~back,
         SendResult(i, outcome, back),
         sess' = sess \/ sess' = [sess EXCEPT ![i] = @ \ {task[i].chan}]
  PROVE  Own' /\ UNCHANGED Q!vars
  <1>1. Typed /\ Turn(task[i])
    BY BusyIsTurn DEF Own
  <1>2. PICK u : u = [[[task[i] EXCEPT !.phase = "done"] EXCEPT !.outcome = outcome] EXCEPT !.back = back]
    OBVIOUS
  <1>3. Turn(u) /\ u.chan = task[i].chan /\ u.batch = task[i].batch
    <2>1. PICK t : t = task[i]
      OBVIOUS
    <2>2. Turn(t) /\ (back => Dedup = "queue" /\ t.chan \in Channel)
      BY <1>1, <2>1, Zenon
    <2>3. u = [[[t EXCEPT !.phase = "done"] EXCEPT !.outcome = outcome] EXCEPT !.back = back]
      BY <1>2, <2>1, Zenon
    <2>4. Turn(u) /\ u.chan = t.chan /\ u.batch = t.batch
      BY <2>2, <2>3 DEF Turn, TaskType, Coherent, Phase
    <2>5. QED
      BY <2>1, <2>4, Zenon
  <1>4. task' = [task EXCEPT ![i] = u]
    BY <1>1, <1>2 DEF SendResult, Typed
  <1>5. /\ steering' = Neutralised(i)
        /\ UNCHANGED <<idle, circuit, respawn, removed, loop, eq, arrived>>
    BY DEF SendResult
  <1>6. sess' \in [Slot -> SUBSET Channel] /\ \A j \in Slot \ {i} : sess'[j] = sess[j]
    BY <1>1 DEF Typed
  <1>7. QED
    BY <1>3, <1>4, <1>5, <1>6, ReadLoopEnds

\* Every step of a prompt task keeps the harness's part of the invariant, and the
\* queue's specification does not see it.
LEMMA TaskStepKeeps ==
  ASSUME Own, NEW i \in Slot, TaskStep(i)
  PROVE  Own' /\ UNCHANGED Q!vars
  <1>0. Typed /\ task[i].phase \in Phase => Turn(task[i]) /\ Busy(i)
    BY BusyIsTurn DEF Own, Busy, Phase
  <1>1. ASSUME SessionReady(i) PROVE Own' /\ UNCHANGED Q!vars
    <2> DEFINE new == task[i].chan \in Channel /\ task[i].chan \notin sess[i]
    <2>1. PICK p : p = IF new /\ InitialMessage THEN "initial" ELSE "prompt"
      OBVIOUS
    <2>2. PICK u : u = [task[i] EXCEPT !.phase = p]
      OBVIOUS
    <2>3. /\ task[i].phase = "session"
          /\ task' = [task EXCEPT ![i].phase = p]
          /\ sess' = IF new THEN [sess EXCEPT ![i] = @ \cup {task[i].chan}] ELSE sess
          /\ UNCHANGED <<idle, circuit, respawn, removed, loop, eq, arrived, steering>>
      BY <1>1, <2>1 DEF SessionReady, queueVars
    <2>4. Turn(task[i]) /\ Busy(i) /\ Typed
      BY <2>3, BusyIsTurn DEF Own, Busy
    <2>5. Turn(u) /\ u.phase = p /\ u.chan = task[i].chan /\ u.batch = task[i].batch
      <3>0. /\ p = "prompt" \/ (p = "initial" /\ InitialMessage)
        BY <2>1
      <3>1. CASE p = "initial" /\ InitialMessage
        <4>1. u = [task[i] EXCEPT !.phase = "initial"]
          BY <2>2, <3>1, Zenon
        <4>2. QED
          BY <2>4, <3>1, <4>1, TurnSteps
      <3>2. CASE p = "prompt"
        <4>1. u = [task[i] EXCEPT !.phase = "prompt"]
          BY <2>2, <3>2, Zenon
        <4>2. QED
          BY <2>4, <3>2, <4>1, TurnSteps
      <3>3. QED
        BY <3>0, <3>1, <3>2
    <2>6. task' = [task EXCEPT ![i] = u]
      BY <2>2, <2>3, <2>4 DEF Typed
    <2>7. SameTurns /\ task'[i] = u /\ \A j \in Slot \ {i} : task'[j] = task[j]
      BY <2>4, <2>5, <2>6, OneMoves
    <2>8. sess' \in [Slot -> SUBSET Channel] /\ \A j \in Slot \ {i} : sess'[j] = sess[j]
      BY <2>3, <2>4 DEF Typed
    <2>9. SteerHasReader'
      <3>1. \A j \in Slot : Running(j) => Running(j)' /\ task'[j].chan = task[j].chan
        BY <2>1, <2>5, <2>7 DEF Running
      <3>2. \A s \in steering : s.slot \in Slot
        BY <2>4 DEF Typed, SteerType
      <3>3. QED
        BY <2>3, <3>1, <3>2 DEF SteerHasReader, Own
    <2>10. SameTries /\ Tries' = Tries
      BY <2>3, <2>4 DEF SameTries, Own, Separate, Typed, Tries
    <2>11. \A j \in idle : sess'[j] \cap removed' = {}
      BY <2>3, <2>4, <2>8 DEF Own, Slots, SlotExclusive, RemovedSessionsGone, Typed
    <2>12. Own'
      BY <2>3, <2>7, <2>8, <2>9, <2>10, <2>11, OwnKept
    <2>13. QED
      BY <2>3, <2>7, <2>10, <2>12, SameHeld, QueueUnseen
  <1>2. ASSUME SessionFails(i) PROVE Own' /\ UNCHANGED Q!vars
    <2>1. PICK outcome \in {"crashed", "error"} : SendResult(i, outcome, Back(i))
      BY <1>2 DEF SessionFails
    <2>2. task[i].phase = "session" /\ sess' = sess
      BY <1>2 DEF SessionFails
    <2>3. Busy(i) /\ outcome \in Outcome /\ outcome # "ok"
      BY <2>1, <2>2 DEF Busy, Outcome
    <2>4. Back(i) \in BOOLEAN /\ (Back(i) => Dedup = "queue" /\ task[i].chan \in Channel)
      BY DEF Back
    <2>5. QED
      BY <2>1, <2>2, <2>3, <2>4, ResultSent
  <1>3. ASSUME InitialEnds(i) PROVE Own' /\ UNCHANGED Q!vars
    <2>1. /\ task[i].phase = "initial"
          /\ task' = [task EXCEPT ![i].phase = "prompt", ![i].init = TRUE]
          /\ steering' = Neutralised(i)
          /\ UNCHANGED <<idle, circuit, respawn, removed, loop, eq, arrived, sess>>
      BY <1>3 DEF InitialEnds
    <2>2. Turn(task[i]) /\ Busy(i) /\ Typed
      BY <2>1, BusyIsTurn DEF Own, Busy
    <2>3. PICK u : u = [[task[i] EXCEPT !.phase = "prompt"] EXCEPT !.init = TRUE]
      OBVIOUS
    <2>4. InitialMessage
      BY <2>1, <2>2 DEF Turn, Coherent
    <2>5. Turn(u) /\ u.chan = task[i].chan /\ u.batch = task[i].batch
      BY <2>2, <2>3, <2>4, TurnSteps
    <2>6. task' = [task EXCEPT ![i] = u]
      BY <2>1, <2>2, <2>3 DEF Typed
    <2>7. sess' \in [Slot -> SUBSET Channel] /\ \A j \in Slot \ {i} : sess'[j] = sess[j]
      BY <2>1, <2>2 DEF Typed
    <2>8. QED
      BY <2>1, <2>2, <2>5, <2>6, <2>7, ReadLoopEnds
  <1>4. ASSUME TurnOk(i) PROVE Own' /\ UNCHANGED Q!vars
    <2>1. /\ task[i].phase = "prompt" /\ SendResult(i, "ok", FALSE)
          /\ sess' = sess \/ sess' = [sess EXCEPT ![i] = @ \ {task[i].chan}]
      BY <1>4 DEF TurnOk
    <2>2. Busy(i) /\ "ok" \in Outcome
      BY <2>1 DEF Busy, Outcome
    <2>3. QED
      BY <2>1, <2>2, ResultSent
  <1>5. ASSUME TurnFails(i) PROVE Own' /\ UNCHANGED Q!vars
    <2>1. PICK outcome \in {"crashed", "hard_silent", "error"} :
            /\ SendResult(i, outcome, Back(i))
            /\ sess' = sess \/ sess' = [sess EXCEPT ![i] = @ \ {task[i].chan}]
      BY <1>5 DEF TurnFails
    <2>2. task[i].phase \in {"initial", "prompt"}
      BY <1>5 DEF TurnFails
    <2>3. Busy(i) /\ outcome \in Outcome /\ outcome # "ok"
      BY <2>1, <2>2 DEF Busy, Outcome
    <2>4. Back(i) \in BOOLEAN /\ (Back(i) => Dedup = "queue" /\ task[i].chan \in Channel)
      BY DEF Back
    <2>5. QED
      BY <2>1, <2>3, <2>4, ResultSent
  <1>6. ASSUME TurnCancelled(i) \/ CancelFails(i) PROVE Own' /\ UNCHANGED Q!vars
    <2>1. PICK outcome \in {"cancelled", "drain_timeout", "crashed", "error"} :
            SendResult(i, outcome, BackOnCancel(i))
      BY <1>6 DEF TurnCancelled, CancelFails
    <2>2. task[i].phase = "prompt" /\ sess' = [sess EXCEPT ![i] = @ \ {task[i].chan}]
      BY <1>6 DEF TurnCancelled, CancelFails, Cancelling
    <2>3. Busy(i) /\ outcome \in Outcome /\ outcome # "ok"
      BY <2>1, <2>2 DEF Busy, Outcome
    <2>4. /\ BackOnCancel(i) \in BOOLEAN
          /\ BackOnCancel(i) => Dedup = "queue" /\ task[i].chan \in Channel
      BY DEF Back, BackOnCancel
    <2>5. QED
      BY <2>1, <2>2, <2>3, <2>4, ResultSent
  <1>7. ASSUME Panic(i) PROVE Own' /\ UNCHANGED Q!vars
    <2>1. /\ Running(i)
          /\ task' = [task EXCEPT ![i].phase = "panicked"]
          /\ steering' = Neutralised(i)
          /\ UNCHANGED <<idle, circuit, respawn, removed, loop, eq, arrived, sess>>
      BY <1>7 DEF Panic
    <2>2. Turn(task[i]) /\ Busy(i) /\ Typed
      BY <2>1, BusyIsTurn DEF Own
    <2>3. PICK u : u = [task[i] EXCEPT !.phase = "panicked"]
      OBVIOUS
    <2>4. Turn(u) /\ u.chan = task[i].chan /\ u.batch = task[i].batch
      BY <2>2, <2>3, TurnSteps
    <2>5. task' = [task EXCEPT ![i] = u]
      BY <2>1, <2>2, <2>3 DEF Typed
    <2>6. sess' \in [Slot -> SUBSET Channel] /\ \A j \in Slot \ {i} : sess'[j] = sess[j]
      BY <2>1, <2>2 DEF Typed
    <2>7. QED
      BY <2>1, <2>2, <2>4, <2>5, <2>6, ReadLoopEnds
  <1>8. QED
    BY <1>1, <1>2, <1>3, <1>4, <1>5, <1>6, <1>7 DEF TaskStep

-----------------------------------------------------------------------------
(* The queue's operators and lemmas, as the queue's specification and the  *)
(* harness name them.                                                      *)

\* The two share their operators.
LEMMA SameOperators ==
  /\ Q!QueueState = QueueState /\ Q!Batch = Batch /\ Q!CancelReason = CancelReason
  /\ Q!NewQueue = NewQueue
  /\ \A q : /\ Q!Expire(q) = Expire(q) /\ Q!FlushNext(q) = FlushNext(q)
            /\ Q!CompactExpiredState(q) = CompactExpiredState(q)
  /\ \A q, c : /\ Q!Accepts(q, c) <=> Accepts(q, c)
               /\ Q!MarkComplete(q, c) = MarkComplete(q, c)
               /\ Q!DrainChannel(q, c) = DrainChannel(q, c)
               /\ Q!ExtendInFlightDeadline(q, c) = ExtendInFlightDeadline(q, c)
  /\ \A q, b : Q!Requeue(q, b) = Requeue(q, b) /\ Q!RequeuePreserve(q, b) = RequeuePreserve(q, b)
  /\ \A q, b, r : Q!RequeueAsCancelled(q, b, r) = RequeueAsCancelled(q, b, r)
  /\ \A q, c, e : /\ Q!Push(q, c, e) = Push(q, c, e)
                  /\ Q!MarkNativeSteerPending(q, c, e) = MarkNativeSteerPending(q, c, e)
                  /\ Q!ReleaseNativeSteer(q, c, e) = ReleaseNativeSteer(q, c, e)
                  /\ Q!RemoveEvent(q, c, e) = RemoveEvent(q, c, e)
  <1>1. /\ Q!QueueState = QueueState /\ Q!Batch = Batch /\ Q!CancelReason = CancelReason
        /\ Q!NewQueue = NewQueue
    BY Zenon DEF Q!QueueState, QueueState, Q!Batch, Batch, Q!CancelReason, CancelReason, Q!NewQueue, NewQueue
  <1>2. \A q : Q!Expire(q) = Expire(q)
    BY Zenon DEF Q!Expire, Expire, Q!Recovered, Recovered, Q!TrimBack, TrimBack
  <1>3. \A q : Q!FlushNext(q) = FlushNext(q)
    BY Zenon DEF Q!FlushNext, FlushNext, Q!Ready, Ready, Q!FlushQueued, FlushQueued, Q!Oldest, Oldest,
                 Q!StableSorts, StableSorts, Q!Claim, Claim, Q!Interrupted, Interrupted,
                 Q!FlushCancelled, FlushCancelled, Q!Bijection, Bijection, Q!Injection, Injection,
                 Q!Surjection, Surjection, Q!IsInjective, IsInjective
  <1>4. \A q : Q!CompactExpiredState(q) = CompactExpiredState(q)
    BY Zenon DEF Q!CompactExpiredState, CompactExpiredState
  <1>5. \A q, c : Q!Accepts(q, c) <=> Accepts(q, c)
    BY Zenon DEF Q!Accepts, Accepts
  <1>5a. \A q, c : Q!MarkComplete(q, c) = MarkComplete(q, c)
    BY Zenon DEF Q!MarkComplete, MarkComplete
  <1>5b. \A q, c : Q!DrainChannel(q, c) = DrainChannel(q, c)
    BY ZenonT(60) DEF Q!DrainChannel, DrainChannel
  <1>5c. \A q, c : Q!ExtendInFlightDeadline(q, c) = ExtendInFlightDeadline(q, c)
    BY Zenon DEF Q!ExtendInFlightDeadline, ExtendInFlightDeadline
  <1>6. \A q, b : Q!Requeue(q, b) = Requeue(q, b) /\ Q!RequeuePreserve(q, b) = RequeuePreserve(q, b)
    BY ZenonT(60) DEF Q!Requeue, Requeue, Q!RequeuePreserve, RequeuePreserve, Q!PushFront, PushFront,
                 Q!TrimBack, TrimBack, Q!DeadLetters, DeadLetters
  <1>7. \A q, b, r : Q!RequeueAsCancelled(q, b, r) = RequeueAsCancelled(q, b, r)
    BY Zenon DEF Q!RequeueAsCancelled, RequeueAsCancelled
  <1>0. \A s, e : Q!Without(s, e) = Without(s, e)
    BY Zenon DEF Q!Without, Without, Q!Range, Range
  <1>00. \A q, c, e : Q!PushFront(q, c, e) = PushFront(q, c, e)
    BY Zenon DEF Q!PushFront, PushFront, Q!TrimBack, TrimBack
  <1>000. \A s : Q!Range(s) = Range(s)
    BY Zenon DEF Q!Range, Range
  <1>8. \A q, c, e : Q!Push(q, c, e) = Push(q, c, e)
    BY Zenon DEF Q!Push, Push
  <1>8a. \A q, c, e : Q!MarkNativeSteerPending(q, c, e) = MarkNativeSteerPending(q, c, e)
    BY ZenonT(60) DEF Q!MarkNativeSteerPending, MarkNativeSteerPending, Q!Without, Without, Q!Range, Range
  <1>9. \A q, c, e : /\ Q!ReleaseNativeSteer(q, c, e) = ReleaseNativeSteer(q, c, e)
                     /\ Q!RemoveEvent(q, c, e) = RemoveEvent(q, c, e)
    BY <1>0, <1>00, <1>000, ZenonT(60) DEF Q!ReleaseNativeSteer, ReleaseNativeSteer, Q!RemoveEvent, RemoveEvent
  <1>10. QED
    BY <1>1, <1>2, <1>3, <1>4, <1>5, <1>5a, <1>5b, <1>5c, <1>6, <1>7, <1>8, <1>8a, <1>9

\* What the invariant of the places says of the harness.
LEMMA QueueFacts ==
  ASSUME Q!PlaceInv
  PROVE  /\ eq \in QueueState /\ arrived \in Nat
         /\ \A s \in steering : s.event # arrived + 1
         /\ \A r \in FlushNext(Expire(eq)) : r.batch \in Batch /\ r.batch \notin Held
  <1>1. Q!TypeOK
    BY DEF Q!PlaceInv, Q!Inv
  <1>2. eq \in QueueState /\ arrived \in Nat
    BY <1>1, SameOperators DEF Q!TypeOK
  <1>3. \A x \in Tries : x.event # arrived + 1
    BY EventAssumption, CreatedAtAssumption, DedupAssumption, LimitAssumption, BoundAssumption, Q!NewEvent
  <1>4. ASSUME NEW s \in steering PROVE s.event # arrived + 1
    <2>1. PICK x : x = [chan |-> s.chan, event |-> s.event]
      OBVIOUS
    <2>2. x \in Tries
      BY <2>1, Zenon DEF Tries
    <2>3. QED
      BY <1>3, <2>1, <2>2
  <1>5. \A q \in Q!QueueState : Q!Expire(q) \in Q!QueueState
    BY EventAssumption, CreatedAtAssumption, DedupAssumption, LimitAssumption, BoundAssumption, Q!ExpireType
  <1>6. \A q \in Q!QueueState : \A r \in Q!FlushNext(q) : r.batch \in Q!Batch
    BY EventAssumption, CreatedAtAssumption, DedupAssumption, LimitAssumption, BoundAssumption, Q!FlushNextEffect
  <1>7. \A r \in Q!FlushNext(Q!Expire(eq)) : r.batch \notin Held
    BY EventAssumption, CreatedAtAssumption, DedupAssumption, LimitAssumption, BoundAssumption, Q!NewBatch
  <1>8. QED
    BY <1>2, <1>4, <1>5, <1>6, <1>7, SameOperators

-----------------------------------------------------------------------------
(* Signals and steers.                                                     *)

\* signal_in_flight_task arms or does not arm the control of one task.
LEMMA SignalKeeps ==
  ASSUME Typed, NEW c, NEW signal \in Signal, NEW r \in SignalTask(c, signal), task' = r.task
  PROVE  /\ SameTurns
         /\ \A j \in Slot : Running(j) => Running(j)' /\ task'[j].chan = task[j].chan
  <1>1. CASE r.task = task
    BY <1>1, TasksUnchanged DEF Running
  <1>2. CASE r.task # task
    <2>0. PICK i \in TasksOf(c) :
            r = IF task[i].ctl = "armed"
                THEN [task |-> [task EXCEPT ![i].ctl = signal], fired |-> TRUE]
                ELSE [task |-> task, fired |-> FALSE]
      BY <1>2 DEF SignalTask
    <2>1. r.task = [task EXCEPT ![i].ctl = signal]
      BY <1>2, <2>0
    <2>2. i \in Slot /\ Busy(i) /\ Turn(task[i])
      BY <2>1, BusyIsTurn DEF TasksOf
    <2>3. PICK u : u = [task[i] EXCEPT !.ctl = signal]
      OBVIOUS
    <2>4. Turn(u) /\ u.phase = task[i].phase /\ u.chan = task[i].chan /\ u.batch = task[i].batch
      BY <2>2, <2>3 DEF Turn, TaskType, Coherent
    <2>5. task' = [task EXCEPT ![i] = u]
      BY <2>1, <2>2, <2>3 DEF Typed
    <2>6. SameTurns /\ task'[i] = u /\ \A j \in Slot \ {i} : task'[j] = task[j]
      BY <2>2, <2>4, <2>5, OneMoves
    <2>7. QED
      BY <2>2, <2>4, <2>6 DEF Running
  <1>3. QED
    BY <1>1, <1>2

\* The attempts of running tasks keep their reader.
LEMMA ReaderKept ==
  ASSUME Own, SameTries, \A j \in Slot : Running(j) => Running(j)' /\ task'[j].chan = task[j].chan,
         \A s \in steering' : s.state \notin AckState =>
            \E t \in steering : t.state \notin AckState /\ t.slot = s.slot /\ t.chan = s.chan
  PROVE  SteerHasReader'
  <1> SUFFICES ASSUME NEW s \in steering', s.state \notin AckState
               PROVE  Running(s.slot)' /\ task'[s.slot].chan = s.chan
    BY DEF SteerHasReader
  <1>1. PICK t \in steering : t.state \notin AckState /\ t.slot = s.slot /\ t.chan = s.chan
    OBVIOUS
  <1>2. s.slot \in Slot /\ Running(t.slot) /\ task[t.slot].chan = t.chan
    BY <1>1 DEF SameTries, SteerType, Own, SteerHasReader
  <1>3. QED
    BY <1>1, <1>2

\* The attempts stay as they are.
LEMMA TriesUnchanged ==
  ASSUME Own, steering' = steering
  PROVE  /\ SameTries /\ Tries' = Tries
         /\ \A s \in steering' : s.state \notin AckState =>
              \E t \in steering : t.state \notin AckState /\ t.slot = s.slot /\ t.chan = s.chan
  BY DEF SameTries, Own, Separate, Typed, Tries

\* The read loop takes a request, or the agent answers: one attempt changes state.
LEMMA SteerStepKeeps ==
  ASSUME Own, NEW s \in steering, TakeSteer(s) \/ AnswerSteer(s)
  PROVE  Own' /\ UNCHANGED Q!vars
  <1>0. Typed /\ Separate /\ s \in SteerType
    BY DEF Own, Typed
  <1>1. PICK state \in {"pending"} \cup AckState : steering' = (steering \ {s}) \cup {[s EXCEPT !.state = state]}
    BY DEF TakeSteer, AnswerSteer, AckState
  <1>2. UNCHANGED <<eq, arrived, idle, sess, task, circuit, respawn, removed, loop>> /\ s.state \notin AckState
    BY DEF TakeSteer, AnswerSteer, poolVars, AckState
  <1>3. PICK n : n = [s EXCEPT !.state = state]
    OBVIOUS
  <1>4. n \in SteerType /\ n.event = s.event /\ n.chan = s.chan /\ n.slot = s.slot
    BY <1>0, <1>3 DEF SteerType, AckState
  <1>5. steering' = (steering \ {s}) \cup {n}
    BY <1>1, <1>3
  <1>6. SameTries
    BY <1>0, <1>4, <1>5 DEF SameTries, Typed, Separate
  <1>7. Tries' = Tries
    <2>1. Tries' = {[chan |-> x.chan, event |-> x.event] : x \in steering'}
      BY DEF Tries
    <2>2. QED
      BY <1>4, <1>5, <2>1 DEF Tries
  <1>8. SameTurns
    BY <1>0, <1>2, TasksUnchanged
  <1>9. \A j \in Slot : Running(j) => Running(j)' /\ task'[j].chan = task[j].chan
    BY <1>2 DEF Running
  <1>10. \A x \in steering' : x.state \notin AckState =>
            \E t \in steering : t.state \notin AckState /\ t.slot = x.slot /\ t.chan = x.chan
    BY <1>2, <1>4, <1>5
  <1>11. SteerHasReader'
    BY <1>6, <1>9, <1>10, ReaderKept
  <1>12. sess' \in [Slot -> SUBSET Channel] /\ \A j \in idle : sess'[j] \cap removed' = {}
    BY <1>0, <1>2 DEF Typed, Own, RemovedSessionsGone
  <1>13. Own'
    BY <1>2, <1>6, <1>8, <1>11, <1>12, OwnKept
  <1>14. QED
    BY <1>2, <1>7, <1>8, <1>13, SameHeld, QueueUnseen

-----------------------------------------------------------------------------
(* Steps the queue's specification does not see.                           *)

\* A step that leaves tasks and attempts alone.
LEMMA TurnsKept ==
  ASSUME Own, task' = task, steering' = steering
  PROVE  SameTurns /\ SameTries /\ Held' = Held /\ Tries' = Tries /\ SteerHasReader'
  <1>1. SameTurns
    BY TasksUnchanged DEF Own
  <1>2. SameTries /\ Tries' = Tries
    BY TriesUnchanged
  <1>3. SteerHasReader'
    BY DEF Own, SteerHasReader, Running
  <1>4. QED
    BY <1>1, <1>2, <1>3, SameHeld

\* The loop goes on, or the agent re-joins a channel.
LEMMA LoopStepKeeps ==
  ASSUME Own, DrainEnds \/ OtherTick \/ Exited \/ \E c \in Channel : MemberAdded(c)
  PROVE  Own' /\ UNCHANGED Q!vars
  <1>1. /\ UNCHANGED <<eq, arrived, idle, sess, task, steering, circuit, respawn>>
        /\ removed' \subseteq removed
        /\ loop' = loop \/ loop' # "exit"
    BY DEF DrainEnds, OtherTick, Exited, MemberAdded, vars, queueVars, poolVars
  <1>2. /\ SameTurns /\ SameTries /\ Held' = Held /\ Tries' = Tries /\ SteerHasReader'
    BY <1>1, TurnsKept
  <1>3. sess' \in [Slot -> SUBSET Channel]
    BY <1>1 DEF Typed, Own
  <1>4. \A j \in idle : sess'[j] \cap removed' = {}
    <2>1. \A j \in idle : sess[j] \cap removed = {}
      BY DEF Own, RemovedSessionsGone
    <2>2. QED
      BY <1>1, <2>1
  <1>5. Own'
    BY <1>1, <1>2, <1>3, <1>4, OwnKept
  <1>6. QED
    BY <1>1, <1>2, <1>5, QueueUnseen

\* Invalidating sessions of idle agents leaves sessions only.
LEMMA InvalidateKeeps ==
  ASSUME Own, NEW c, sess' = InvalidateIdle(c)
  PROVE  /\ sess' \in [Slot -> SUBSET Channel]
         /\ \A j \in idle : sess'[j] = sess[j] \ {c}
  BY DEF Own, Typed, InvalidateIdle

\* The owner's commands: signal a task, or invalidate sessions of idle agents.
LEMMA OwnerStepKeeps ==
  ASSUME Own, NEW c \in Channel, OwnerCancel(c) \/ OwnerRotate(c) \/ SwitchModel(c)
  PROVE  Own' /\ UNCHANGED Q!vars
  <1>0. Typed
    BY DEF Own
  <1>1. /\ UNCHANGED <<eq, arrived, idle, steering, circuit, respawn, removed>> /\ loop' # "exit"
    BY DEF OwnerCancel, OwnerRotate, SwitchModel, queueVars
  <1>2. /\ SameTurns /\ \A j \in Slot : Running(j) => Running(j)' /\ task'[j].chan = task[j].chan
    <2>1. CASE task' = task
      BY <1>0, <2>1, TasksUnchanged DEF Running
    <2>2. CASE task' # task
      <3>1. PICK signal \in Signal : \E r \in SignalTask(c, signal) : task' = r.task
        BY <2>2 DEF OwnerCancel, OwnerRotate, SwitchModel, Signal
      <3>2. QED
        BY <1>0, <3>1, SignalKeeps
    <2>3. QED
      BY <2>1, <2>2
  <1>3. /\ sess' \in [Slot -> SUBSET Channel] /\ \A j \in idle : sess'[j] \subseteq sess[j]
    <2>1. CASE sess' = sess
      BY <1>0, <2>1 DEF Typed
    <2>2. CASE sess' = InvalidateIdle(c)
      BY <2>2, InvalidateKeeps
    <2>3. CASE \E i \in Claimable(c) : sess' = [sess EXCEPT ![i] = @ \ {c}]
      BY <1>0, <2>3 DEF Typed, Claimable
    <2>4. QED
      BY <2>1, <2>2, <2>3 DEF OwnerCancel, OwnerRotate, SwitchModel
  <1>4. SameTries /\ Tries' = Tries /\ SteerHasReader'
    BY <1>1, <1>2, TriesUnchanged, ReaderKept
  <1>5. \A j \in idle : sess'[j] \cap removed' = {}
    BY <1>1, <1>3 DEF Own, RemovedSessionsGone
  <1>6. Own'
    BY <1>1, <1>2, <1>3, <1>4, <1>5, OwnKept
  <1>7. QED
    BY <1>1, <1>2, <1>4, <1>6, SameHeld, QueueUnseen

-----------------------------------------------------------------------------
(* The pool's slots.                                                       *)

\* The slot's circuit: a verdict that allows a respawn leaves it closed.
LEMMA CircuitSteps ==
  ASSUME NEW k \in CircuitType
  PROVE  /\ k.open = "closed" /\ ~k.respawning =>
              /\ RecordCrash(k) \in CircuitType
              /\ RecordCrash(k).respawning => RecordCrash(k).open = "closed"
         /\ ~k.respawning =>
              /\ Refill(k) \in CircuitType
              /\ Refill(k).respawning => Refill(k).open = "closed"
         /\ MarkSpawnFailed(k) \in CircuitType /\ ~MarkSpawnFailed(k).respawning
         /\ LET n == [k EXCEPT !.respawning = FALSE]
            IN  n \in CircuitType /\ ~n.respawning /\ n.open = k.open
         /\ k.crashes > 0 => /\ ForgetCrash(k) \in CircuitType /\ ForgetCrash(k).open = k.open
                             /\ ForgetCrash(k).respawning = k.respawning
         /\ CooldownOver(k) \in CircuitType /\ CooldownOver(k).respawning = k.respawning
  <1>1. CrashThreshold \in Nat /\ CrashThreshold - 1 \in Nat
    BY CrashThresholdAssumption
  <1>2. ASSUME k.open = "closed", ~k.respawning
        PROVE  /\ RecordCrash(k) \in CircuitType
               /\ RecordCrash(k).respawning => RecordCrash(k).open = "closed"
    <2>1. RecordCrash(k) = IF k.crashes + 1 >= CrashThreshold
                           THEN [k EXCEPT !.crashes = CrashThreshold, !.open = "open"]
                           ELSE [k EXCEPT !.crashes = @ + 1, !.respawning = TRUE]
      BY <1>2 DEF RecordCrash
    <2>2. CASE k.crashes + 1 >= CrashThreshold
      <3>1. PICK n : n = [k EXCEPT !.crashes = CrashThreshold, !.open = "open"]
        OBVIOUS
      <3>2. n \in CircuitType /\ n.respawning = k.respawning
        BY <1>1, <3>1 DEF CircuitType
      <3>3. RecordCrash(k) = n
        BY <2>1, <2>2, <3>1
      <3>4. QED
        BY <1>2, <3>2, <3>3
    <2>3. CASE ~(k.crashes + 1 >= CrashThreshold)
      <3>1. PICK n : n = [k EXCEPT !.crashes = @ + 1, !.respawning = TRUE]
        OBVIOUS
      <3>2. k.crashes + 1 \in Nat
        BY DEF CircuitType
      <3>3. n \in CircuitType /\ n.open = k.open
        BY <3>1, <3>2 DEF CircuitType
      <3>4. RecordCrash(k) = n
        BY <2>1, <2>3, <3>1
      <3>5. QED
        BY <1>2, <3>3, <3>4
    <2>4. QED
      BY <2>2, <2>3
  <1>3. ASSUME ~k.respawning
        PROVE  /\ Refill(k) \in CircuitType
               /\ Refill(k).respawning => Refill(k).open = "closed"
    BY <1>1, <1>3 DEF Refill, Probe, CircuitType
  <1>4. MarkSpawnFailed(k) \in CircuitType /\ ~MarkSpawnFailed(k).respawning
    BY DEF MarkSpawnFailed, CircuitType
  <1>5. LET n == [k EXCEPT !.respawning = FALSE]
        IN  n \in CircuitType /\ ~n.respawning /\ n.open = k.open
    BY DEF CircuitType
  <1>6. ASSUME k.crashes > 0
        PROVE  /\ ForgetCrash(k) \in CircuitType /\ ForgetCrash(k).open = k.open
               /\ ForgetCrash(k).respawning = k.respawning
    BY <1>6 DEF ForgetCrash, CircuitType
  <1>7. CooldownOver(k) \in CircuitType /\ CooldownOver(k).respawning = k.respawning
    BY DEF CooldownOver, CircuitType
  <1>8. QED
    BY <1>2, <1>3, <1>4, <1>5, <1>6, <1>7

\* What Own says, after a step on the slots that leaves tasks and attempts alone.
LEMMA PoolKept ==
  ASSUME Own, task' = task, steering' = steering, Slots', RemovedSessionsGone',
         idle' \subseteq Slot, sess' \in [Slot -> SUBSET Channel], circuit' \in [Slot -> CircuitType],
         respawn' \in [Slot -> {"none", "running", "ok", "failed"}]
  PROVE  Own'
  <1>1. SameTurns /\ SameTries /\ SteerHasReader'
    BY TurnsKept
  <1>2. Typed' /\ Separate'
    BY <1>1 DEF Own, Typed, Separate, SameTurns, SameTries
  <1>3. QED
    BY <1>1, <1>2 DEF Own

\* A respawn job ends, a cooldown runs out, a crash leaves the window.
LEMMA SlotStepKeeps ==
  ASSUME Own, NEW i \in Slot, RespawnEnds(i) \/ CooldownEnds(i) \/ CrashAges(i)
  PROVE  Own' /\ UNCHANGED Q!vars
  <1>0. Typed /\ Slots /\ circuit[i] \in CircuitType
    BY DEF Own, Typed
  <1>1. UNCHANGED <<eq, arrived, idle, sess, task, steering, removed, loop>>
    BY DEF RespawnEnds, CooldownEnds, CrashAges, queueVars
  <1>2. \A j \in Slot : Busy(j)' <=> Busy(j)
    BY <1>1 DEF Busy
  <1>3. \A j \in Slot : SlotAlive(j)' <=> SlotAlive(j)
    BY <1>1, <1>2 DEF SlotAlive
  <1>4. /\ respawn' \in [Slot -> {"none", "running", "ok", "failed"}]
        /\ circuit' \in [Slot -> CircuitType]
        /\ \A j \in Slot : /\ respawn'[j] # "none" <=> respawn[j] # "none"
                           /\ circuit'[j].respawning = circuit[j].respawning
                           /\ circuit'[j].open # "closed" <=> circuit[j].open # "closed"
    <2>1. CASE RespawnEnds(i)
      BY <1>0, <2>1 DEF RespawnEnds, Typed
    <2>2. CASE CooldownEnds(i)
      <3>1. circuit' = [circuit EXCEPT ![i] = CooldownOver(circuit[i])] /\ respawn' = respawn
            /\ circuit[i].open = "open"
        BY <2>2 DEF CooldownEnds
      <3>2. CooldownOver(circuit[i]).open = "elapsed"
        BY <1>0 DEF CooldownOver, CircuitType
      <3>3. QED
        BY <1>0, <3>1, <3>2, CircuitSteps DEF Typed
    <2>3. CASE CrashAges(i)
      <3>1. circuit' = [circuit EXCEPT ![i] = ForgetCrash(circuit[i])] /\ respawn' = respawn
            /\ circuit[i].crashes > 0
        BY <2>3 DEF CrashAges
      <3>2. QED
        BY <1>0, <3>1, CircuitSteps DEF Typed
    <2>4. QED
      BY <2>1, <2>2, <2>3
  <1>5. Slots'
    <2>1. SlotExclusive'
      BY <1>0, <1>1, <1>2, <1>3, <1>4 DEF Slots, SlotExclusive
    <2>2. OpenCircuitIsEmpty'
      BY <1>0, <1>3, <1>4 DEF Slots, OpenCircuitIsEmpty
    <2>3. ExitMeansDead'
      BY <1>0, <1>1, <1>3, <1>4 DEF Slots, ExitMeansDead
    <2>4. QED
      BY <2>1, <2>2, <2>3 DEF Slots
  <1>6. RemovedSessionsGone'
    BY <1>1 DEF Own, RemovedSessionsGone
  <1>7. Own'
    BY <1>0, <1>1, <1>4, <1>5, <1>6, PoolKept DEF Typed
  <1>8. QED
    BY <1>1, <1>7, TurnsKept, QueueUnseen

\* The results of respawn jobs are collected: new agents sit idle.
LEMMA CollectKeeps ==
  ASSUME Own, Collect
  PROVE  Own' /\ UNCHANGED Q!vars
  <1> DEFINE came == {i \in Slot : respawn[i] \in {"ok", "failed"}}
             new  == {i \in came : respawn[i] = "ok"}
  <1>0. Typed /\ Slots
    BY DEF Own
  <1>1. /\ UNCHANGED <<eq, arrived, task, steering, removed>>
        /\ respawn' = [i \in Slot |-> IF i \in came THEN "none" ELSE respawn[i]]
        /\ circuit' = [i \in Slot |->
             IF i \in new THEN [circuit[i] EXCEPT !.respawning = FALSE]
             ELSE IF i \in came THEN MarkSpawnFailed(circuit[i]) ELSE circuit[i]]
        /\ idle' = idle \cup new
        /\ sess' = [i \in Slot |-> IF i \in new THEN {} ELSE sess[i]]
        /\ loop' # "exit"
    BY DEF Collect, queueVars
  <1>2. /\ idle' \subseteq Slot /\ sess' \in [Slot -> SUBSET Channel]
        /\ respawn' \in [Slot -> {"none", "running", "ok", "failed"}]
    BY <1>0, <1>1 DEF Typed
  <1>3. ASSUME NEW i \in Slot
        PROVE  /\ circuit'[i] \in CircuitType
               /\ i \in came => ~circuit'[i].respawning /\ ~(i \in idle \/ Busy(i))
               /\ i \in new => circuit'[i].open = "closed"
               /\ i \notin came => circuit'[i] = circuit[i] /\ respawn'[i] = respawn[i]
               /\ i \in came => respawn'[i] = "none"
    <2>1. circuit[i] \in CircuitType
      BY <1>0 DEF Typed
    <2>2. i \in came => circuit[i].respawning /\ ~SlotAlive(i) /\ circuit[i].open = "closed"
      BY <1>0 DEF Slots, SlotExclusive, OpenCircuitIsEmpty
    <2>3. CASE i \in new
      <3>1. circuit'[i] = [circuit[i] EXCEPT !.respawning = FALSE]
        BY <1>1, <2>3
      <3>2. /\ circuit'[i] \in CircuitType /\ ~circuit'[i].respawning
            /\ circuit'[i].open = circuit[i].open
        BY <2>1, <3>1, CircuitSteps
      <3>3. QED
        BY <1>1, <2>2, <2>3, <3>2 DEF SlotAlive
    <2>4. CASE i \in came /\ i \notin new
      <3>1. circuit'[i] = MarkSpawnFailed(circuit[i])
        BY <1>1, <2>4
      <3>2. QED
        BY <1>1, <2>1, <2>2, <2>4, <3>1, CircuitSteps DEF SlotAlive
    <2>5. CASE i \notin came
      BY <1>1, <2>1, <2>5
    <2>6. QED
      BY <2>3, <2>4, <2>5
  <1>4. circuit' \in [Slot -> CircuitType]
    BY <1>1, <1>3
  <1>5. \A i \in Slot : Busy(i)' <=> Busy(i)
    BY <1>1 DEF Busy
  <1>6. Slots'
    <2>1. SlotExclusive'
      <3> SUFFICES ASSUME NEW i \in Slot
                   PROVE  /\ ~(i \in idle' /\ Busy(i)')
                          /\ SlotAlive(i)' => ~circuit'[i].respawning
                          /\ circuit'[i].respawning <=> respawn'[i] # "none"
        BY DEF SlotExclusive
      <3>1. CASE i \in came
        BY <1>1, <1>3, <1>5, <3>1
      <3>2. CASE i \notin came
        BY <1>0, <1>1, <1>3, <1>5, <3>2 DEF Slots, SlotExclusive, SlotAlive
      <3>3. QED
        BY <3>1, <3>2
    <2>2. OpenCircuitIsEmpty'
      <3> SUFFICES ASSUME NEW i \in Slot, circuit'[i].open # "closed"
                   PROVE  ~SlotAlive(i)' /\ ~circuit'[i].respawning
        BY DEF OpenCircuitIsEmpty
      <3>1. CASE i \in came
        BY <1>1, <1>3, <1>5, <3>1 DEF SlotAlive
      <3>2. CASE i \notin came
        BY <1>0, <1>1, <1>3, <1>5, <3>2 DEF Slots, OpenCircuitIsEmpty, SlotAlive
      <3>3. QED
        BY <3>1, <3>2
    <2>3. ExitMeansDead'
      BY <1>1 DEF ExitMeansDead
    <2>4. QED
      BY <2>1, <2>2, <2>3 DEF Slots
  <1>7. RemovedSessionsGone'
    <2>1. ASSUME NEW i \in idle' PROVE sess'[i] \cap removed' = {}
      <3>1. CASE i \in new
        BY <1>1, <3>1
      <3>2. CASE i \notin new
        <4>1. i \in idle /\ i \in Slot /\ sess'[i] = sess[i]
          BY <1>0, <1>1, <2>1, <3>2 DEF Typed
        <4>2. QED
          BY <1>1, <4>1 DEF Own, RemovedSessionsGone
      <3>3. QED
        BY <3>1, <3>2
    <2>2. QED
      BY <2>1 DEF RemovedSessionsGone
  <1>8. Own'
    BY <1>1, <1>2, <1>4, <1>6, <1>7, PoolKept
  <1>9. QED
    BY <1>1, <1>8, TurnsKept, QueueUnseen

\* Maintenance refills empty slots, and the queue's specification sees a Maintain.
LEMMA MaintenanceKeeps ==
  ASSUME Own, Maintenance
  PROVE  Own' /\ Q!Maintain
  <1>0. Typed /\ Slots
    BY DEF Own
  <1>1. /\ UNCHANGED <<arrived, idle, sess, task, steering, removed>>
        /\ eq' = Expire(CompactExpiredState(eq))
        /\ circuit' = [i \in Slot |-> IF NeedsRefill(i) THEN Refill(circuit[i]) ELSE circuit[i]]
        /\ respawn' = [i \in Slot |-> IF circuit'[i].respawning /\ ~circuit[i].respawning
                                      THEN "running" ELSE respawn[i]]
        /\ loop' # "exit"
    BY DEF Maintenance, AfterMaintenance
  <1>2. respawn' \in [Slot -> {"none", "running", "ok", "failed"}]
    BY <1>0, <1>1 DEF Typed
  <1>3. ASSUME NEW i \in Slot
        PROVE  /\ circuit'[i] \in CircuitType
               /\ NeedsRefill(i) => /\ circuit'[i].respawning => circuit'[i].open = "closed"
                                    /\ ~SlotAlive(i) /\ ~circuit[i].respawning
               /\ ~NeedsRefill(i) => circuit'[i] = circuit[i]
    <2>1. circuit[i] \in CircuitType
      BY <1>0 DEF Typed
    <2>2. CASE NeedsRefill(i)
      <3>1. circuit'[i] = Refill(circuit[i]) /\ ~SlotAlive(i) /\ ~circuit[i].respawning
        BY <1>1, <2>2 DEF NeedsRefill
      <3>2. QED
        BY <2>1, <2>2, <3>1, CircuitSteps, ZenonT(60)
    <2>3. CASE ~NeedsRefill(i)
      BY <1>1, <2>1, <2>3
    <2>4. QED
      BY <2>2, <2>3
  <1>4. circuit' \in [Slot -> CircuitType]
    BY <1>1, <1>3
  <1>5. /\ \A i \in Slot : Busy(i)' <=> Busy(i)
        /\ \A i \in Slot : SlotAlive(i)' <=> SlotAlive(i)
    BY <1>1 DEF Busy, SlotAlive
  <1>6. Slots'
    <2>1. SlotExclusive'
      <3> SUFFICES ASSUME NEW i \in Slot
                   PROVE  /\ ~(i \in idle' /\ Busy(i)')
                          /\ SlotAlive(i)' => ~circuit'[i].respawning
                          /\ circuit'[i].respawning <=> respawn'[i] # "none"
        BY DEF SlotExclusive
      <3>1. /\ ~(i \in idle /\ Busy(i))
            /\ SlotAlive(i) => ~circuit[i].respawning
            /\ circuit[i].respawning <=> respawn[i] # "none"
        BY <1>0 DEF Slots, SlotExclusive
      <3>2. respawn'[i] = IF circuit'[i].respawning /\ ~circuit[i].respawning THEN "running" ELSE respawn[i]
        BY <1>1
      <3>3. QED
        BY <1>1, <1>3, <1>5, <3>1, <3>2
    <2>2. OpenCircuitIsEmpty'
      <3> SUFFICES ASSUME NEW i \in Slot, circuit'[i].open # "closed"
                   PROVE  ~SlotAlive(i)' /\ ~circuit'[i].respawning
        BY DEF OpenCircuitIsEmpty
      <3>1. circuit[i].open # "closed" => ~SlotAlive(i) /\ ~circuit[i].respawning
        BY <1>0 DEF Slots, OpenCircuitIsEmpty
      <3>2. QED
        BY <1>3, <1>5, <3>1
    <2>3. ExitMeansDead'
      BY <1>1 DEF ExitMeansDead
    <2>4. QED
      BY <2>1, <2>2, <2>3 DEF Slots
  <1>7. RemovedSessionsGone'
    BY <1>1 DEF Own, RemovedSessionsGone
  <1>8. Own'
    BY <1>0, <1>1, <1>2, <1>4, <1>6, <1>7, PoolKept DEF Typed
  <1>9. Held' = Held /\ Tries' = Tries
    BY <1>1, TurnsKept
  <1>10. QED
    BY <1>1, <1>8, <1>9, SameOperators DEF Q!Maintain

-----------------------------------------------------------------------------
(* A turn starts.                                                          *)

\* An idle agent is checked out for a turn whose batch is new.
LEMMA TurnStarts ==
  ASSUME Own, NEW i \in idle, NEW u, Turn(u), u.phase = "session",
         u.chan \in Channel => u.batch \notin Held,
         task' = [task EXCEPT ![i] = u], idle' = idle \ {i},
         UNCHANGED <<steering, sess, circuit, respawn, removed>>, loop' # "exit"
  PROVE  /\ Own' /\ Tries' = Tries
         /\ u.chan \in Channel => Held' = Held \cup {u.batch}
         /\ u.chan \notin Channel => Held' = Held
  <1>0. Typed /\ Slots /\ i \in Slot /\ ~Busy(i)
    BY DEF Own, Typed, Slots, SlotExclusive
  <1>1. task'[i] = u /\ \A j \in Slot \ {i} : task'[j] = task[j]
    BY <1>0 DEF Typed
  <1>2. task' \in [Slot -> TaskType \cup {NoTask}]
    BY <1>0 DEF Typed, Turn
  <1>3. \A j \in Slot : Busy(j)' <=> Busy(j) \/ j = i
    BY <1>1 DEF Busy
  <1>4. \A j \in Slot : Busy(j)' => Turn(task'[j])
    <2>1. ASSUME NEW j \in Slot, Busy(j)' PROVE Turn(task'[j])
      <3>1. CASE j = i
        BY <1>1, <3>1
      <3>2. CASE j # i
        BY <1>0, <1>1, <1>3, <2>1, <3>2 DEF Typed
      <3>3. QED
        BY <3>1, <3>2
    <2>2. QED
      BY <2>1
  <1>5. Typed'
    <2>1. idle' \subseteq Slot
      BY <1>0 DEF Typed
    <2>2. QED
      BY <1>0, <1>2, <1>4, <2>1 DEF Typed
  <1>6. \A j \in Slot : SlotAlive(j)' <=> SlotAlive(j)
    BY <1>3 DEF SlotAlive
  <1>7. Slots'
    <2>1. SlotExclusive'
      BY <1>0, <1>3, <1>6 DEF Slots, SlotExclusive
    <2>2. OpenCircuitIsEmpty'
      BY <1>0, <1>6 DEF Slots, OpenCircuitIsEmpty
    <2>3. QED
      BY <2>1, <2>2 DEF Slots, ExitMeansDead
  <1>8. RemovedSessionsGone'
    BY DEF Own, RemovedSessionsGone
  <1>9. SteerHasReader'
    <2> SUFFICES ASSUME NEW s \in steering, s.state \notin AckState
                 PROVE  Running(s.slot)' /\ task'[s.slot].chan = s.chan
      BY DEF SteerHasReader
    <2>1. s.slot \in Slot /\ Running(s.slot) /\ task[s.slot].chan = s.chan
      BY <1>0 DEF Own, SteerHasReader, Typed, SteerType
    <2>2. s.slot # i
      BY <1>0, <2>1, BusyIsTurn
    <2>3. QED
      BY <1>1, <2>1, <2>2 DEF Running
  <1>10. ASSUME NEW j \in Slot, Busy(j), task[j].chan \in Channel
         PROVE  task[j].batch \in Held
    BY <1>10 DEF Held
  <1>11. Separate'
    <2>1. ASSUME NEW j \in Slot, NEW k \in Slot, Busy(j)', Busy(k)',
                 task'[j].chan \in Channel, task'[k].chan \in Channel, task'[j].batch = task'[k].batch
          PROVE  j = k
      <3>1. CASE j = i /\ k # i
        BY <1>1, <1>3, <1>10, <2>1, <3>1
      <3>2. CASE j # i /\ k = i
        BY <1>1, <1>3, <1>10, <2>1, <3>2
      <3>3. CASE j # i /\ k # i
        BY <1>1, <1>3, <2>1, <3>3 DEF Own, Separate
      <3>4. QED
        BY <3>1, <3>2, <3>3
    <2>2. \A s, t \in steering' : s.event = t.event => s = t
      BY DEF Own, Separate
    <2>3. QED
      BY <2>1, <2>2 DEF Separate
  <1>12. Own'
    BY <1>5, <1>7, <1>8, <1>9, <1>11 DEF Own
  <1>13. Tries' = Tries
    BY TriesUnchanged
  <1>14. Held' = {task'[j].batch : j \in {k \in Slot : Busy(k)' /\ task'[k].chan \in Channel}}
    BY DEF Held
  <1>15. u.chan \in Channel => Held' = Held \cup {u.batch}
    <2> SUFFICES ASSUME u.chan \in Channel PROVE Held' = Held \cup {u.batch}
      OBVIOUS
    <2>1. Held' \subseteq Held \cup {u.batch}
      BY <1>1, <1>3, <1>10, <1>14
    <2>2. Held \cup {u.batch} \subseteq Held'
      <3>1. u.batch \in Held'
        BY <1>0, <1>1, <1>3, <1>14
      <3>2. ASSUME NEW j \in Slot, Busy(j), task[j].chan \in Channel PROVE task[j].batch \in Held'
        BY <1>0, <1>1, <1>3, <1>14, <3>2
      <3>3. QED
        BY <3>1, <3>2 DEF Held
    <2>3. QED
      BY <2>1, <2>2
  <1>16. u.chan \notin Channel => Held' = Held
    <2> SUFFICES ASSUME u.chan \notin Channel PROVE Held' = Held
      OBVIOUS
    <2>1. Held' \subseteq Held
      BY <1>1, <1>3, <1>10, <1>14
    <2>2. Held \subseteq Held'
      <3>2. ASSUME NEW j \in Slot, Busy(j), task[j].chan \in Channel PROVE task[j].batch \in Held'
        BY <1>0, <1>1, <1>3, <1>14, <3>2
      <3>3. QED
        BY <3>2 DEF Held
    <2>3. QED
      BY <2>1, <2>2
  <1>17. QED
    BY <1>12, <1>13, <1>15, <1>16

\* One iteration of dispatch_pending.
LEMMA DispatchKeeps ==
  ASSUME HInv, DispatchStep
  PROVE  Own' /\ (Q!Dispatch \/ Q!DispatchNoAgent \/ Q!CheckWork)
  <1>0. Own /\ Typed /\ Q!PlaceInv
    BY DEF HInv, Own
  <1>1. ASSUME DispatchBatch PROVE Own' /\ Q!Dispatch
    <2>0. PICK r \in FlushNext(Expire(eq)) : \E i \in Claimable(r.batch.chan) :
            /\ eq' = r.q
            /\ idle' = idle \ {i}
            /\ task' = [task EXCEPT ![i] = NewTask(r.batch.chan, r.batch)]
      BY <1>1 DEF DispatchBatch
    <2>1. PICK i \in Claimable(r.batch.chan) :
            /\ eq' = r.q
            /\ idle' = idle \ {i}
            /\ task' = [task EXCEPT ![i] = NewTask(r.batch.chan, r.batch)]
      BY <2>0
    <2>2. /\ UNCHANGED <<steering, arrived, sess, circuit, respawn, removed>>
          /\ loop' # "exit"
      BY <1>1 DEF DispatchBatch, Dispatching
    <2>3. i \in idle
      BY DEF Claimable
    <2>4. r.batch \in Batch /\ r.batch \notin Held
      BY <1>0, QueueFacts
    <2>5. PICK u : u = NewTask(r.batch.chan, r.batch)
      OBVIOUS
    <2>6. Turn(u)
      BY <2>4, <2>5, TurnNew
    <2>7. r.batch.chan \in Channel
      BY <2>4 DEF Batch
    <2>8. u.phase = "session" /\ u.chan = r.batch.chan /\ u.batch = r.batch
      BY <2>5 DEF NewTask
    <2>9. Own' /\ Tries' = Tries /\ Held' = Held \cup {r.batch}
      <3>1. task' = [task EXCEPT ![i] = u]
        BY <2>1, <2>5
      <3>2. Own' /\ Tries' = Tries /\ (u.chan \in Channel => Held' = Held \cup {u.batch})
        BY <1>0, <2>1, <2>2, <2>3, <2>4, <2>6, <2>8, <3>1, TurnStarts
      <3>3. QED
        BY <2>7, <2>8, <3>2
    <2>10. Q!FlushNext(Q!Expire(eq)) = FlushNext(Expire(eq))
      BY SameOperators
    <2>11. QED
      BY <2>1, <2>2, <2>9, <2>10 DEF Q!Dispatch
  <1>2. ASSUME DispatchNoAgent \/ DispatchNothing
        PROVE  Own' /\ Held' = Held /\ Tries' = Tries /\ UNCHANGED arrived
    <2>1. /\ UNCHANGED <<arrived, task, steering, idle, sess, circuit, respawn, removed>>
          /\ loop' # "exit"
      BY <1>2 DEF DispatchNoAgent, DispatchNothing, poolVars, AfterDispatch, Dispatching
    <2>2. /\ SameTurns /\ SameTries /\ Held' = Held /\ Tries' = Tries /\ SteerHasReader'
      BY <1>0, <2>1, TurnsKept
    <2>3. sess' \in [Slot -> SUBSET Channel] /\ \A j \in idle : sess'[j] \cap removed' = {}
      BY <1>0, <2>1 DEF Typed, Own, RemovedSessionsGone
    <2>4. QED
      BY <1>0, <2>1, <2>2, <2>3, OwnKept
  <1>3. ASSUME DispatchNoAgent PROVE Q!DispatchNoAgent
    <2>1. PICK r \in FlushNext(Expire(eq)) :
             eq' = MarkComplete(RequeuePreserve(r.q, r.batch), r.batch.chan)
      BY <1>3 DEF DispatchNoAgent
    <2>2. Q!FlushNext(Q!Expire(eq)) = FlushNext(Expire(eq))
      BY SameOperators
    <2>3. eq' = Q!MarkComplete(Q!RequeuePreserve(r.q, r.batch), r.batch.chan)
      BY <2>1, SameOperators
    <2>4. QED
      BY <1>2, <1>3, <2>2, <2>3 DEF Q!DispatchNoAgent
  <1>4. ASSUME DispatchNothing PROVE Q!CheckWork
    <2>1. eq' = Q!Expire(eq)
      BY <1>4, SameOperators DEF DispatchNothing
    <2>2. QED
      BY <1>2, <1>4, <2>1 DEF Q!CheckWork
  <1>5. QED
    BY <1>1, <1>2, <1>3, <1>4 DEF DispatchStep

\* The heartbeat timer.
LEMMA HeartbeatKeeps ==
  ASSUME Own, HeartbeatTick
  PROVE  Own' /\ Q!CheckWork
  <1>0. Typed
    BY DEF Own
  <1>1. /\ UNCHANGED <<steering, arrived, sess, circuit, respawn, removed>>
        /\ loop' # "exit" /\ eq' = Expire(eq)
    BY DEF HeartbeatTick
  <1>2. Own' /\ Tries' = Tries /\ Held' = Held
    <2>1. CASE UNCHANGED <<idle, task>>
      <3>1. /\ SameTurns /\ SameTries /\ Held' = Held /\ Tries' = Tries /\ SteerHasReader'
        BY <1>1, <2>1, TurnsKept
      <3>2. sess' \in [Slot -> SUBSET Channel] /\ \A j \in idle : sess'[j] \cap removed' = {}
        BY <1>0, <1>1 DEF Typed, Own, RemovedSessionsGone
      <3>3. QED
        BY <1>1, <2>1, <3>1, <3>2, OwnKept
    <2>2. CASE ~UNCHANGED <<idle, task>>
      <3>1. PICK i \in Claimable(Heartbeat) :
             /\ idle' = idle \ {i}
             /\ task' = [task EXCEPT ![i] = [NewTask(Heartbeat, NoBatch) EXCEPT !.ctl = "none"]]
        BY <2>2 DEF HeartbeatTick
      <3>2. i \in idle
        BY DEF Claimable
      <3>3. PICK u : u = [NewTask(Heartbeat, NoBatch) EXCEPT !.ctl = "none"]
        OBVIOUS
      <3>4. Turn(u)
        BY <3>3, TurnNew
      <3>5. u.phase = "session" /\ u.chan \notin Channel
        BY <3>3, HeartbeatAssumption DEF NewTask
      <3>6. task' = [task EXCEPT ![i] = u]
        BY <3>1, <3>3
      <3>7. QED
        BY <1>1, <3>1, <3>2, <3>4, <3>5, <3>6, TurnStarts
    <2>3. QED
      BY <2>1, <2>2
  <1>3. QED
    BY <1>1, <1>2, SameOperators DEF Q!CheckWork

-----------------------------------------------------------------------------
(* A turn ends.                                                            *)

\* The main loop takes the result, or the panic, of slot i's task.
LEMMA TurnEnds ==
  ASSUME Own, NEW i \in Slot, task[i].phase \in {"done", "panicked"},
         task' = [task EXCEPT ![i] = NoTask], steering' = steering
  PROVE  /\ task' \in [Slot -> TaskType \cup {NoTask}]
         /\ \A j \in Slot : (Busy(j)' <=> Busy(j) /\ j # i) /\ (Busy(j)' => Turn(task'[j]))
         /\ SteerHasReader' /\ Separate' /\ Tries' = Tries
         /\ task[i].chan \in Channel => Held' = Held \ {task[i].batch} /\ task[i].batch \in Held
         /\ task[i].chan \notin Channel => Held' = Held
  <1>0. Typed /\ Busy(i)
    BY DEF Own, Busy
  <1>1. task'[i] = NoTask /\ \A j \in Slot \ {i} : task'[j] = task[j]
    BY <1>0 DEF Typed
  <1>2. task' \in [Slot -> TaskType \cup {NoTask}]
    BY <1>0 DEF Typed
  <1>3. \A j \in Slot : Busy(j)' <=> Busy(j) /\ j # i
    BY <1>1 DEF Busy, NoTask
  <1>4. \A j \in Slot : Busy(j)' => Turn(task'[j])
    BY <1>0, <1>1, <1>3 DEF Typed
  <1>5. SteerHasReader'
    <2> SUFFICES ASSUME NEW s \in steering, s.state \notin AckState
                 PROVE  Running(s.slot)' /\ task'[s.slot].chan = s.chan
      BY DEF SteerHasReader
    <2>1. s.slot \in Slot /\ Running(s.slot) /\ task[s.slot].chan = s.chan
      BY <1>0 DEF Own, SteerHasReader, Typed, SteerType
    <2>2. s.slot # i
      BY <2>1 DEF Running
    <2>3. QED
      BY <1>1, <2>1, <2>2 DEF Running
  <1>6. Separate'
    <2>1. \A j, k \in Slot : (/\ Busy(j)' /\ Busy(k)'
                              /\ task'[j].chan \in Channel /\ task'[k].chan \in Channel
                              /\ task'[j].batch = task'[k].batch) => j = k
      BY <1>1, <1>3 DEF Own, Separate
    <2>2. \A s, t \in steering' : s.event = t.event => s = t
      BY DEF Own, Separate
    <2>3. QED
      BY <2>1, <2>2 DEF Separate
  <1>7. Tries' = Tries
    BY TriesUnchanged
  <1>8. Held' = {task'[j].batch : j \in {k \in Slot : Busy(k)' /\ task'[k].chan \in Channel}}
    BY DEF Held
  <1>9. ASSUME task[i].chan \in Channel
        PROVE  Held' = Held \ {task[i].batch} /\ task[i].batch \in Held
    <2>1. task[i].batch \in Held
      BY <1>0, <1>9 DEF Held
    <2>2. Held' \subseteq Held \ {task[i].batch}
      <3>1. ASSUME NEW j \in Slot, Busy(j)', task'[j].chan \in Channel
            PROVE  task'[j].batch \in Held /\ task'[j].batch # task[i].batch
        <4>1. j # i /\ Busy(j) /\ task'[j] = task[j]
          BY <1>1, <1>3, <3>1
        <4>2. task[j].batch \in Held
          BY <3>1, <4>1 DEF Held
        <4>3. task[j].batch # task[i].batch
          BY <1>0, <1>9, <3>1, <4>1 DEF Own, Separate
        <4>4. QED
          BY <4>1, <4>2, <4>3
      <3>2. QED
        BY <1>8, <3>1
    <2>3. Held \ {task[i].batch} \subseteq Held'
      <3>1. ASSUME NEW j \in Slot, Busy(j), task[j].chan \in Channel, task[j].batch # task[i].batch
            PROVE  task[j].batch \in Held'
        BY <1>1, <1>3, <1>8, <3>1
      <3>2. QED
        BY <3>1 DEF Held
    <2>4. QED
      BY <2>1, <2>2, <2>3
  <1>10. ASSUME task[i].chan \notin Channel PROVE Held' = Held
    <2>1. Held' \subseteq Held
      <3>1. ASSUME NEW j \in Slot, Busy(j)', task'[j].chan \in Channel PROVE task'[j].batch \in Held
        BY <1>1, <1>3, <3>1 DEF Held
      <3>2. QED
        BY <1>8, <3>1
    <2>2. Held \subseteq Held'
      <3>1. ASSUME NEW j \in Slot, Busy(j), task[j].chan \in Channel PROVE task[j].batch \in Held'
        BY <1>1, <1>3, <1>8, <1>10, <3>1
      <3>2. QED
        BY <3>1 DEF Held
    <2>3. QED
      BY <2>1, <2>2
  <1>11. QED
    BY <1>2, <1>3, <1>4, <1>5, <1>6, <1>7, <1>9, <1>10

\* The agent of an ended turn goes back to the pool, stripped of the sessions of
\* channels it was removed from.
LEMMA AgentReturns ==
  ASSUME Own, NEW i \in Slot, task[i].phase \in {"done", "panicked"},
         task' = [task EXCEPT ![i] = NoTask], steering' = steering,
         idle' = idle \cup {i}, sess' = Stripped(i), loop' # "exit",
         UNCHANGED <<circuit, respawn, removed>>
  PROVE  Own'
  <1>0. Typed /\ Slots /\ Busy(i) /\ SlotAlive(i)
    BY DEF Own, Busy, SlotAlive
  <1>1. /\ task' \in [Slot -> TaskType \cup {NoTask}]
        /\ \A j \in Slot : (Busy(j)' <=> Busy(j) /\ j # i) /\ (Busy(j)' => Turn(task'[j]))
        /\ SteerHasReader' /\ Separate'
    BY TurnEnds
  <1>2. sess' \in [Slot -> SUBSET Channel] /\ sess'[i] = sess[i] \ removed
        /\ \A j \in Slot \ {i} : sess'[j] = sess[j]
    BY <1>0 DEF Typed, Stripped
  <1>3. Typed'
    <2>1. idle' \subseteq Slot
      BY <1>0 DEF Typed
    <2>2. QED
      BY <1>0, <1>1, <1>2, <2>1 DEF Typed
  <1>4. \A j \in Slot : SlotAlive(j)' <=> SlotAlive(j)
    BY <1>0, <1>1 DEF SlotAlive
  <1>5. Slots'
    <2>1. SlotExclusive'
      BY <1>0, <1>1, <1>4 DEF Slots, SlotExclusive
    <2>2. OpenCircuitIsEmpty'
      BY <1>0, <1>4 DEF Slots, OpenCircuitIsEmpty
    <2>3. QED
      BY <2>1, <2>2 DEF Slots, ExitMeansDead
  <1>6. RemovedSessionsGone'
    <2>1. \A j \in idle : sess[j] \cap removed = {} /\ j \in Slot
      BY <1>0 DEF Own, RemovedSessionsGone, Typed
    <2>2. ASSUME NEW j \in idle' PROVE sess'[j] \cap removed' = {}
      <3>1. CASE j = i
        BY <1>2, <3>1
      <3>2. CASE j # i
        BY <1>2, <2>1, <3>2
      <3>3. QED
        BY <3>1, <3>2
    <2>3. QED
      BY <2>2 DEF RemovedSessionsGone
  <1>7. QED
    BY <1>1, <1>3, <1>5, <1>6 DEF Own

\* An exit finds no agent, idle or out.
LEMMA NobodyLeft ==
  ASSUME Typed, NEW tk, LiveCount(tk) = 0
  PROVE  idle = {} /\ \A j \in Slot : tk[j] = NoTask
  <1>1. PICK out : out = {j \in Slot : tk[j] # NoTask}
    OBVIOUS
  <1>2. IsFiniteSet(idle) /\ IsFiniteSet(out)
    <2>1. idle \in SUBSET Slot /\ out \in SUBSET Slot
      BY <1>1 DEF Typed
    <2>2. QED
      BY <2>1, SlotAssumption, FS_Subset
  <1>3. Cardinality(idle) \in Nat /\ Cardinality(out) \in Nat
    BY <1>2, FS_CardinalityType
  <1>4. Cardinality(idle) + Cardinality(out) = 0
    BY <1>1 DEF LiveCount
  <1>5. Cardinality(idle) = 0 /\ Cardinality(out) = 0
    BY <1>3, <1>4
  <1>6. idle = {} /\ out = {}
    BY <1>2, <1>5, FS_EmptySet
  <1>7. QED
    BY <1>1, <1>6

\* The agent of an ended turn is lost: its slot respawns, waits behind an open
\* breaker, or was the last one alive and the loop exits.
LEMMA AgentLost ==
  ASSUME Own, NEW i \in Slot, task[i].phase \in {"done", "panicked"},
         task' = [task EXCEPT ![i] = NoTask], steering' = steering,
         NEW next \in {"drain", "dispatch"}, LoseAgent(i, next), removed' = removed
  PROVE  Own'
  <1>0. Typed /\ Slots /\ Busy(i) /\ SlotAlive(i)
    BY DEF Own, Busy, SlotAlive
  <1>1. /\ task' \in [Slot -> TaskType \cup {NoTask}]
        /\ \A j \in Slot : (Busy(j)' <=> Busy(j) /\ j # i) /\ (Busy(j)' => Turn(task'[j]))
        /\ SteerHasReader' /\ Separate'
    BY TurnEnds
  <1>2. PICK k : k = RecordCrash(circuit[i])
    OBVIOUS
  <1>3. /\ circuit' = [circuit EXCEPT ![i] = k]
        /\ respawn' = IF k.respawning THEN [respawn EXCEPT ![i] = "running"] ELSE respawn
        /\ sess' = [sess EXCEPT ![i] = {}]
        /\ idle' = idle
        /\ loop' = IF ~k.respawning /\ AllDead(task', circuit') THEN "exit" ELSE next
    BY <1>2 DEF LoseAgent
  <1>4. /\ circuit[i] \in CircuitType /\ circuit[i].open = "closed" /\ ~circuit[i].respawning
        /\ respawn[i] = "none" /\ i \notin idle
    BY <1>0 DEF Slots, SlotExclusive, OpenCircuitIsEmpty, Typed
  <1>5. k \in CircuitType /\ (k.respawning => k.open = "closed")
    BY <1>2, <1>4, CircuitSteps
  <1>6. /\ circuit' \in [Slot -> CircuitType] /\ circuit'[i] = k
        /\ \A j \in Slot \ {i} : circuit'[j] = circuit[j]
    BY <1>0, <1>3, <1>5 DEF Typed
  <1>7. /\ respawn' \in [Slot -> {"none", "running", "ok", "failed"}]
        /\ \A j \in Slot \ {i} : respawn'[j] = respawn[j]
        /\ respawn'[i] # "none" <=> k.respawning
    BY <1>0, <1>3, <1>4 DEF Typed
  <1>8. sess' \in [Slot -> SUBSET Channel] /\ \A j \in Slot \ {i} : sess'[j] = sess[j]
    BY <1>0, <1>3 DEF Typed
  <1>9. Typed'
    BY <1>0, <1>1, <1>3, <1>6, <1>7, <1>8 DEF Typed
  <1>10. ~SlotAlive(i)' /\ \A j \in Slot \ {i} : SlotAlive(j)' <=> SlotAlive(j)
    BY <1>1, <1>3, <1>4 DEF SlotAlive
  <1>11. SlotExclusive'
    <2> SUFFICES ASSUME NEW j \in Slot
                 PROVE  /\ ~(j \in idle' /\ Busy(j)')
                        /\ SlotAlive(j)' => ~circuit'[j].respawning
                        /\ circuit'[j].respawning <=> respawn'[j] # "none"
      BY DEF SlotExclusive
    <2>1. CASE j = i
      BY <1>1, <1>6, <1>7, <1>10, <2>1
    <2>2. CASE j # i
      BY <1>0, <1>1, <1>3, <1>6, <1>7, <1>10, <2>2 DEF Slots, SlotExclusive
    <2>3. QED
      BY <2>1, <2>2
  <1>12. OpenCircuitIsEmpty'
    <2> SUFFICES ASSUME NEW j \in Slot, circuit'[j].open # "closed"
                 PROVE  ~SlotAlive(j)' /\ ~circuit'[j].respawning
      BY DEF OpenCircuitIsEmpty
    <2>1. CASE j = i
      BY <1>5, <1>6, <1>10, <2>1
    <2>2. CASE j # i
      BY <1>0, <1>6, <1>10, <2>2 DEF Slots, OpenCircuitIsEmpty
    <2>3. QED
      BY <2>1, <2>2
  <1>13. ExitMeansDead'
    <2> SUFFICES ASSUME loop' = "exit", NEW j \in Slot
                 PROVE  ~SlotAlive(j)' /\ respawn'[j] = "none"
      BY DEF ExitMeansDead
    <2>1. LiveCount(task') = 0 /\ ~circuit'[j].respawning
      BY <1>3 DEF AllDead
    <2>2. idle = {} /\ task'[j] = NoTask
      BY <1>0, <2>1, NobodyLeft
    <2>3. ~SlotAlive(j)'
      BY <1>3, <2>2 DEF SlotAlive, Busy, NoTask
    <2>4. QED
      BY <1>11, <2>1, <2>3 DEF SlotExclusive
  <1>14. RemovedSessionsGone'
    <2>1. \A j \in idle : sess[j] \cap removed = {} /\ j \in Slot \ {i}
      BY <1>0, <1>4 DEF Own, RemovedSessionsGone, Typed
    <2>2. QED
      BY <1>3, <1>8, <2>1 DEF RemovedSessionsGone
  <1>15. QED
    BY <1>1, <1>9, <1>11, <1>12, <1>13, <1>14 DEF Own, Slots

\* What Disposed does with the batch of a channel turn's result, case by case.
LEMMA BatchDisposed ==
  ASSUME NEW i \in Slot, Turn(task[i]), task[i].phase = "done"
  PROVE  \/ Disposed(eq, i) = eq
         \/ Dedup = "queue" /\ Disposed(eq, i) = Requeue(eq, task[i].batch)
         \/ /\ Dedup = "queue"
            /\ \E reason \in CancelReason : Disposed(eq, i) = RequeueAsCancelled(eq, task[i].batch, reason)
  <1>1. PICK t : t = task[i]
    OBVIOUS
  <1>2. Turn(t) /\ t.phase = "done"
    BY <1>1
  <1>3. (t.back => Dedup = "queue") /\ t.outcome \in Outcome /\ (t.outcome = "ok" => ~t.back)
    BY <1>2 DEF Turn, Coherent
  <1>4. PICK reason : reason = IF t.ctl = "steer" THEN "steer" ELSE "interrupt"
    OBVIOUS
  <1>5. reason \in CancelReason
    BY <1>4 DEF CancelReason
  <1>6. Disposed(eq, i) =
          CASE ~t.back \/ t.chan \in removed -> eq
            [] t.back /\ t.chan \notin removed /\ t.outcome \in {"cancelled", "drain_timeout"} ->
                 RequeueAsCancelled(eq, t.batch, reason)
            [] t.back /\ t.chan \notin removed /\ t.outcome = "hard_silent" -> eq
            [] t.back /\ t.chan \notin removed /\ t.outcome \in {"crashed", "error"} ->
                 Requeue(eq, t.batch)
    BY <1>1, <1>4, Zenon DEF Disposed
  <1>7. CASE ~t.back \/ t.chan \in removed
    BY <1>6, <1>7
  <1>8. CASE t.back /\ t.chan \notin removed
    <2>1. CASE t.outcome \in {"cancelled", "drain_timeout"}
      <3>1. Disposed(eq, i) = RequeueAsCancelled(eq, t.batch, reason)
        BY <1>6, <1>8, <2>1
      <3>2. QED
        BY <1>1, <1>3, <1>5, <1>8, <3>1
    <2>2. CASE t.outcome = "hard_silent"
      BY <1>6, <1>8, <2>2
    <2>3. CASE t.outcome \in {"crashed", "error"}
      <3>1. Disposed(eq, i) = Requeue(eq, t.batch)
        BY <1>6, <1>8, <2>3
      <3>2. QED
        BY <1>1, <1>3, <1>8, <3>1
    <2>4. QED
      BY <1>3, <1>8, <2>1, <2>2, <2>3 DEF Outcome
  <1>9. QED
    BY <1>7, <1>8

\* The end of a turn, as the queue's specification sees it.
TurnSettles == \E b \in Held : Q!Finish(b) \/ Q!Fail(b) \/ \E reason \in Q!CancelReason : Q!Cancel(b, reason)

\* mark_complete, after the batch was kept or dropped, settles the turn.
LEMMA QueueSeesEnd ==
  ASSUME Own, NEW i \in Slot, task[i].phase \in {"done", "panicked"}, task[i].chan \in Channel,
         task' = [task EXCEPT ![i] = NoTask], UNCHANGED <<steering, arrived>>,
         NEW q, eq' = MarkComplete(q, task[i].chan),
         \/ q = eq
         \/ Dedup = "queue" /\ q = Requeue(eq, task[i].batch)
         \/ Dedup = "queue" /\ \E reason \in CancelReason : q = RequeueAsCancelled(eq, task[i].batch, reason)
  PROVE  TurnSettles
  <1>1. PICK b : b = task[i].batch
    OBVIOUS
  <1>2. Held' = Held \ {b} /\ b \in Held /\ Tries' = Tries
    BY <1>1, TurnEnds
  <1>3. b.chan = task[i].chan
    BY <1>1, BusyIsTurn DEF Own, Busy, Turn, Coherent
  <1>4. eq' = Q!MarkComplete(q, b.chan)
    BY <1>3, SameOperators
  <1>5. CASE q = eq
    <2>1. Q!Finish(b)
      BY <1>2, <1>4, <1>5 DEF Q!Finish
    <2>2. QED
      BY <1>2, <2>1 DEF TurnSettles
  <1>6. CASE Dedup = "queue" /\ q = Requeue(eq, task[i].batch)
    <2>1. q = Q!Requeue(eq, b)
      BY <1>1, <1>6, SameOperators
    <2>2. Q!Fail(b)
      BY <1>2, <1>4, <1>6, <2>1 DEF Q!Fail
    <2>3. QED
      BY <1>2, <2>2 DEF TurnSettles
  <1>7. CASE Dedup = "queue" /\ \E reason \in CancelReason : q = RequeueAsCancelled(eq, task[i].batch, reason)
    <2>1. PICK reason \in CancelReason : q = RequeueAsCancelled(eq, task[i].batch, reason)
      BY <1>7
    <2>2. q = Q!RequeueAsCancelled(eq, b, reason) /\ reason \in Q!CancelReason
      BY <1>1, <2>1, SameOperators
    <2>3. Q!Cancel(b, reason)
      BY <1>2, <1>4, <1>7, <2>2 DEF Q!Cancel
    <2>4. QED
      BY <1>2, <2>2, <2>3 DEF TurnSettles
  <1>8. QED
    BY <1>5, <1>6, <1>7

\* handle_prompt_result.
LEMMA ResultKeeps ==
  ASSUME Own, NEW i \in Slot, HandleResult(i)
  PROVE  Own' /\ (TurnSettles \/ UNCHANGED Q!vars)
  <1>1. /\ task[i].phase = "done" /\ loop = "select"
        /\ task' = [task EXCEPT ![i] = NoTask] /\ UNCHANGED <<steering, arrived, removed>>
        /\ task[i].chan = Heartbeat => eq' = eq
        /\ task[i].chan # Heartbeat => eq' = Settled(i)
    BY DEF HandleResult
  <1>2. Own'
    <2>1. CASE task[i].outcome \in {"ok", "cancelled", "error"}
      <3>1. /\ idle' = idle \cup {i} /\ sess' = Stripped(i) /\ loop' = "drain"
            /\ UNCHANGED <<circuit, respawn>>
        BY <2>1 DEF HandleResult
      <3>2. QED
        BY <1>1, <3>1, AgentReturns
    <2>2. CASE task[i].outcome \notin {"ok", "cancelled", "error"}
      <3>1. LoseAgent(i, "drain")
        BY <2>2 DEF HandleResult
      <3>2. QED
        BY <1>1, <3>1, AgentLost
    <2>3. QED
      BY <2>1, <2>2
  <1>3. Turn(task[i]) /\ task[i].chan \in Channel \cup {Heartbeat}
    BY <1>1, BusyIsTurn DEF Own, Busy
  <1>4. CASE task[i].chan = Heartbeat
    <2>1. Held' = Held /\ Tries' = Tries
      BY <1>1, <1>4, HeartbeatAssumption, TurnEnds
    <2>2. QED
      BY <1>1, <1>2, <1>4, <2>1, QueueUnseen
  <1>5. CASE task[i].chan \in Channel
    <2>1. eq' = MarkComplete(Disposed(eq, i), task[i].chan)
      BY <1>1, <1>5, HeartbeatAssumption DEF Settled
    <2>2. PICK q : q = Disposed(eq, i)
      OBVIOUS
    <2>3. \/ q = eq
          \/ Dedup = "queue" /\ q = Requeue(eq, task[i].batch)
          \/ Dedup = "queue" /\ \E reason \in CancelReason : q = RequeueAsCancelled(eq, task[i].batch, reason)
      BY <1>1, <1>3, <2>2, BatchDisposed
    <2>4. TurnSettles
      BY <1>1, <1>5, <2>1, <2>2, <2>3, QueueSeesEnd
    <2>5. QED
      BY <1>2, <2>4
  <1>6. QED
    BY <1>3, <1>4, <1>5

\* recover_panicked_agent.
LEMMA PanicKeeps ==
  ASSUME Own, NEW i \in Slot, HandlePanic(i)
  PROVE  Own' /\ (TurnSettles \/ UNCHANGED Q!vars)
  <1>1. /\ task[i].phase = "panicked"
        /\ task' = [task EXCEPT ![i] = NoTask] /\ UNCHANGED <<steering, arrived, removed>>
        /\ task[i].chan = Heartbeat => eq' = eq
        /\ task[i].chan # Heartbeat => eq' = PanicSettled(i)
    BY DEF HandlePanic
  <1>2. Own'
    <2>1. PICK next : next = IF loop = "drain" THEN "drain" ELSE "dispatch"
      OBVIOUS
    <2>2. LoseAgent(i, next) /\ next \in {"drain", "dispatch"}
      BY <2>1 DEF HandlePanic
    <2>3. QED
      BY <1>1, <2>2, AgentLost
  <1>3. Turn(task[i]) /\ task[i].chan \in Channel \cup {Heartbeat}
    BY <1>1, BusyIsTurn DEF Own, Busy
  <1>4. CASE task[i].chan = Heartbeat
    <2>1. Held' = Held /\ Tries' = Tries
      BY <1>1, <1>4, HeartbeatAssumption, TurnEnds
    <2>2. QED
      BY <1>1, <1>2, <1>4, <2>1, QueueUnseen
  <1>5. CASE task[i].chan \in Channel
    <2>1. PICK q : q = IF Dedup = "queue" /\ task[i].chan \notin removed
                       THEN Requeue(eq, task[i].batch) ELSE eq
      OBVIOUS
    <2>2. eq' = MarkComplete(q, task[i].chan)
      BY <1>1, <1>5, <2>1, HeartbeatAssumption DEF PanicSettled
    <2>3. q = eq \/ (Dedup = "queue" /\ q = Requeue(eq, task[i].batch))
      BY <2>1
    <2>4. TurnSettles
      BY <1>1, <1>5, <2>2, <2>3, QueueSeesEnd
    <2>5. QED
      BY <1>2, <2>4
  <1>6. QED
    BY <1>3, <1>4, <1>5

-----------------------------------------------------------------------------
(* Events, acks, membership and time.                                      *)

\* What Own says, after a step of the main loop that may signal a task and leaves
\* the attempts, the slots and the sessions alone.
LEMMA SignalOwn ==
  ASSUME Own, SameTurns, \A j \in Slot : Running(j) => Running(j)' /\ task'[j].chan = task[j].chan,
         SameTries, \A s \in steering' : s.state \notin AckState =>
            \/ \E t \in steering : t.state \notin AckState /\ t.slot = s.slot /\ t.chan = s.chan
            \/ Running(s.slot) /\ task[s.slot].chan = s.chan,
         UNCHANGED <<idle, sess, circuit, respawn, removed>>, loop' = loop \/ loop' # "exit"
  PROVE  Own' /\ Held' = Held
  <1>1. SteerHasReader'
    <2> SUFFICES ASSUME NEW s \in steering', s.state \notin AckState
                 PROVE  Running(s.slot)' /\ task'[s.slot].chan = s.chan
      BY DEF SteerHasReader
    <2>1. s.slot \in Slot
      BY DEF SameTries, SteerType
    <2>2. Running(s.slot) /\ task[s.slot].chan = s.chan
      BY DEF Own, SteerHasReader
    <2>3. QED
      BY <2>1, <2>2
  <1>2. sess' \in [Slot -> SUBSET Channel] /\ \A j \in idle : sess'[j] \cap removed' = {}
    BY DEF Own, Typed, RemovedSessionsGone
  <1>3. QED
    BY <1>1, <1>2, OwnKept, SameHeld

\* An event arrives: it is refused, queued, queued with a signal to the running
\* turn, or withheld for a native steer.
LEMMA ReceiveKeeps ==
  ASSUME HInv, NEW c \in Channel, ReceiveEvent(c)
  PROVE  Own' /\ (Q!Receive(c) \/ Q!ReceiveSteered(c))
  <1>0. Own /\ Typed /\ Q!PlaceInv
    BY DEF HInv, Own
  <1>1. PICK e : e = arrived + 1
    OBVIOUS
  <1>2. PICK pushed : pushed = IF Accepts(eq, c) THEN Push(eq, c, e) ELSE eq
    OBVIOUS
  <1>3. /\ e \in Event /\ arrived' = e /\ loop' = "dispatch"
        /\ UNCHANGED <<idle, sess, circuit, respawn, removed>>
    BY <1>1 DEF ReceiveEvent
  <1>4. PICK signal \in IF Accepts(eq, c) /\ c \in eq.inFlight THEN ModeGateSignal ELSE {"none"} :
          \/ /\ signal = "none"
             /\ eq' = pushed
             /\ UNCHANGED <<steering, task>>
          \/ /\ signal = "steer"
             /\ \E i \in TasksOf(c) :
                  /\ SteerAccepted(i)
                  /\ eq' = MarkNativeSteerPending(pushed, c, e)
                  /\ steering' = steering \cup
                       {[chan |-> c, event |-> e, slot |-> i, state |-> "queued"]}
             /\ UNCHANGED task
          \/ /\ signal \in {"interrupt", "steer"}
             /\ eq' = pushed
             /\ \E r \in SignalTask(c, signal) : task' = r.task
             /\ UNCHANGED steering
    BY <1>1, <1>2 DEF ReceiveEvent
  <1>5. CASE eq' = pushed /\ UNCHANGED steering /\
             (task' = task \/ \E s \in Signal : \E r \in SignalTask(c, s) : task' = r.task)
    <2>1. /\ SameTurns /\ \A j \in Slot : Running(j) => Running(j)' /\ task'[j].chan = task[j].chan
      <3>1. CASE task' = task
        BY <1>0, <3>1, TasksUnchanged DEF Running
      <3>2. CASE \E s \in Signal : \E r \in SignalTask(c, s) : task' = r.task
        BY <1>0, <3>2, SignalKeeps
      <3>3. QED
        BY <1>5, <3>1, <3>2
    <2>2. /\ SameTries /\ Tries' = Tries
          /\ \A s \in steering' : s.state \notin AckState =>
               \E t \in steering : t.state \notin AckState /\ t.slot = s.slot /\ t.chan = s.chan
      BY <1>0, <1>5, TriesUnchanged
    <2>3. Own' /\ Held' = Held
      BY <1>0, <1>3, <2>1, <2>2, SignalOwn
    <2>4. eq' = IF Q!Accepts(eq, c) THEN Q!Push(eq, c, arrived + 1) ELSE eq
      BY <1>1, <1>2, <1>5, SameOperators
    <2>5. Q!Receive(c)
      BY <1>1, <1>3, <2>2, <2>3, <2>4 DEF Q!Receive
    <2>6. QED
      BY <2>3, <2>5
  <1>6. ASSUME signal = "steer", task' = task, NEW i \in TasksOf(c), SteerAccepted(i),
               eq' = MarkNativeSteerPending(pushed, c, e),
               steering' = steering \cup {[chan |-> c, event |-> e, slot |-> i, state |-> "queued"]}
        PROVE  Own' /\ Q!ReceiveSteered(c)
    <2>1. PICK n : n = [chan |-> c, event |-> e, slot |-> i, state |-> "queued"]
      OBVIOUS
    <2>2. i \in Slot /\ task[i].chan = c /\ Running(i)
      BY <1>6 DEF TasksOf, SteerAccepted
    <2>3. n \in SteerType /\ n.event = e /\ n.slot = i /\ n.chan = c
      BY <1>3, <2>1, <2>2 DEF SteerType
    <2>4. steering' = steering \cup {n}
      BY <1>6, <2>1
    <2>5. \A s \in steering : s.event # e
      BY <1>0, <1>1, QueueFacts
    <2>6. SameTries
      <3>1. steering' \subseteq SteerType
        BY <1>0, <2>3, <2>4 DEF Typed
      <3>2. \A s, t \in steering' : s.event = t.event => s = t
        BY <1>0, <2>3, <2>4, <2>5 DEF Own, Separate
      <3>3. QED
        BY <3>1, <3>2 DEF SameTries
    <2>7. SameTurns /\ \A j \in Slot : Running(j) => Running(j)' /\ task'[j].chan = task[j].chan
      BY <1>0, <1>6, TasksUnchanged DEF Running
    <2>8. \A s \in steering' : s.state \notin AckState =>
            \/ \E t \in steering : t.state \notin AckState /\ t.slot = s.slot /\ t.chan = s.chan
            \/ Running(s.slot) /\ task[s.slot].chan = s.chan
      BY <2>2, <2>3, <2>4
    <2>9. Own' /\ Held' = Held
      BY <1>0, <1>3, <2>6, <2>7, <2>8, SignalOwn
    <2>10. Tries' = Tries \cup {[chan |-> c, event |-> e]}
      <3>1. Tries' = {[chan |-> s.chan, event |-> s.event] : s \in steering'}
        BY DEF Tries
      <3>2. Tries' = Tries \cup {[chan |-> n.chan, event |-> n.event]}
        BY <2>4, <3>1 DEF Tries
      <3>3. QED
        BY <2>3, <3>2
    <2>11. Accepts(eq, c) /\ c \in eq.inFlight
      BY <1>4, <1>6
    <2>12. eq' = Q!MarkNativeSteerPending(Q!Push(eq, c, e), c, e) /\ Q!Accepts(eq, c)
      BY <1>2, <1>6, <2>11, SameOperators
    <2>13. Q!ReceiveSteered(c)
      BY <1>1, <1>3, <2>9, <2>10, <2>11, <2>12 DEF Q!ReceiveSteered
    <2>14. QED
      BY <2>9, <2>13
  <1>7. QED
    BY <1>4, <1>5, <1>6 DEF Signal

\* PoolEvent::SteerAck.
LEMMA AckKeeps ==
  ASSUME Own, NEW s \in steering, HandleSteerAck(s)
  PROVE  Own' /\ \E x \in Tries : Q!SteerDelivered(x) \/ Q!SteerReleased(x)
  <1>0. Typed /\ s \in SteerType
    BY DEF Own, Typed
  <1>1. /\ steering' = steering \ {s} /\ loop' = "dispatch"
        /\ eq' = IF s.state = "success"
                 THEN RemoveEvent(ExtendInFlightDeadline(eq, s.chan), s.chan, s.event)
                 ELSE ReleaseNativeSteer(eq, s.chan, s.event)
        /\ task' = task \/ \E r \in SignalTask(s.chan, "steer") : task' = r.task
        /\ UNCHANGED <<arrived, idle, sess, circuit, respawn, removed>>
    BY DEF HandleSteerAck
  <1>2. SameTurns /\ \A j \in Slot : Running(j) => Running(j)' /\ task'[j].chan = task[j].chan
    <2>1. CASE task' = task
      BY <1>0, <2>1, TasksUnchanged DEF Running
    <2>2. CASE \E r \in SignalTask(s.chan, "steer") : task' = r.task
      <3>1. "steer" \in Signal
        BY DEF Signal
      <3>2. QED
        BY <1>0, <2>2, <3>1, SignalKeeps
    <2>3. QED
      BY <1>1, <2>1, <2>2
  <1>3. SameTries
    BY <1>0, <1>1 DEF SameTries, Typed, Own, Separate
  <1>4. \A x \in steering' : x.state \notin AckState =>
            \E t \in steering : t.state \notin AckState /\ t.slot = x.slot /\ t.chan = x.chan
    BY <1>1
  <1>5. Own' /\ Held' = Held
    BY <1>1, <1>2, <1>3, <1>4, SignalOwn
  <1>6. PICK x : x = [chan |-> s.chan, event |-> s.event]
    OBVIOUS
  <1>7. x \in Tries /\ x.chan = s.chan /\ x.event = s.event
    BY <1>6 DEF Tries
  <1>8. Tries' = Tries \ {x}
    <2>1. Tries' = {[chan |-> t.chan, event |-> t.event] : t \in steering'}
      BY DEF Tries
    <2>2. ASSUME NEW t \in steering PROVE [chan |-> t.chan, event |-> t.event] = x <=> t = s
      BY <1>6 DEF Own, Separate
    <2>3. Tries' \subseteq Tries \ {x}
      BY <1>1, <2>1, <2>2 DEF Tries
    <2>4. Tries \ {x} \subseteq Tries'
      BY <1>1, <2>1, <2>2 DEF Tries
    <2>5. QED
      BY <2>3, <2>4
  <1>9. CASE s.state = "success"
    <2>1. eq' = Q!RemoveEvent(Q!ExtendInFlightDeadline(eq, x.chan), x.chan, x.event)
      BY <1>1, <1>7, <1>9, SameOperators
    <2>2. Q!SteerDelivered(x)
      BY <1>1, <1>5, <1>8, <2>1 DEF Q!SteerDelivered
    <2>3. QED
      BY <1>5, <1>7, <2>2
  <1>10. CASE s.state # "success"
    <2>1. eq' = Q!ReleaseNativeSteer(eq, x.chan, x.event)
      BY <1>1, <1>7, <1>10, SameOperators
    <2>2. Q!SteerReleased(x)
      BY <1>1, <1>5, <1>8, <2>1 DEF Q!SteerReleased
    <2>3. QED
      BY <1>5, <1>7, <2>2
  <1>11. QED
    BY <1>9, <1>10

\* The agent leaves a channel: the queue drains, idle agents forget its sessions.
LEMMA RemovalKeeps ==
  ASSUME Own, NEW c \in Channel, MemberRemoved(c)
  PROVE  Own' /\ Q!Drain(c)
  <1>1. /\ UNCHANGED <<steering, arrived, idle, task, circuit, respawn>> /\ loop' # "exit"
        /\ eq' = DrainChannel(eq, c) /\ sess' = InvalidateIdle(c) /\ removed' = removed \cup {c}
    BY DEF MemberRemoved
  <1>2. /\ SameTurns /\ SameTries /\ Held' = Held /\ Tries' = Tries /\ SteerHasReader'
    BY <1>1, TurnsKept
  <1>3. sess' \in [Slot -> SUBSET Channel] /\ \A j \in idle : sess'[j] = sess[j] \ {c}
    BY <1>1, InvalidateKeeps
  <1>4. \A j \in idle : sess'[j] \cap removed' = {}
    <2>1. \A j \in idle : sess[j] \cap removed = {}
      BY DEF Own, RemovedSessionsGone
    <2>2. QED
      BY <1>1, <1>3, <2>1
  <1>5. Own'
    BY <1>1, <1>2, <1>3, <1>4, OwnKept
  <1>6. QED
    BY <1>1, <1>2, <1>5, SameOperators DEF Q!Drain

\* A backoff ends, or an in-flight deadline passes.
LEMMA TimeKeeps ==
  ASSUME Own, NEW c \in Channel, ThrottleEnds(c) \/ DeadlinePasses(c)
  PROVE  Own' /\ (Q!ThrottleEnds(c) \/ Q!DeadlinePasses(c))
  <1>0. Typed
    BY DEF Own
  <1>1. UNCHANGED <<steering, arrived, idle, sess, task, circuit, respawn, removed, loop>>
    BY DEF ThrottleEnds, DeadlinePasses, poolVars
  <1>2. /\ SameTurns /\ SameTries /\ Held' = Held /\ Tries' = Tries /\ SteerHasReader'
    BY <1>1, TurnsKept
  <1>3. sess' \in [Slot -> SUBSET Channel] /\ \A j \in idle : sess'[j] \cap removed' = {}
    BY <1>0, <1>1 DEF Typed, Own, RemovedSessionsGone
  <1>4. Own'
    BY <1>1, <1>2, <1>3, OwnKept
  <1>5. CASE ThrottleEnds(c)
    <2>1. Q!ThrottleEnds(c)
      BY <1>1, <1>2, <1>5 DEF ThrottleEnds, Q!ThrottleEnds
    <2>2. QED
      BY <1>4, <2>1
  <1>6. CASE DeadlinePasses(c)
    <2>1. Q!DeadlinePasses(c)
      BY <1>1, <1>2, <1>6 DEF DeadlinePasses, Q!DeadlinePasses
    <2>2. QED
      BY <1>4, <2>1
  <1>7. QED
    BY <1>5, <1>6

-----------------------------------------------------------------------------
(* The inductive invariant and what it implies.                            *)

\* A harness that starts satisfies the inductive invariant.
LEMMA InitHolds == Init => HInv /\ Q!Init
  <1> SUFFICES ASSUME Init PROVE HInv /\ Q!Init
    OBVIOUS
  <1>1. \A i \in Slot : ~Busy(i) /\ task[i] = NoTask
    BY DEF Init, Busy, NoTask
  <1>2. Typed
    <2>1. circuit \in [Slot -> CircuitType]
      BY DEF Init, NewCircuit, CircuitType
    <2>2. QED
      BY <1>1, <2>1 DEF Init, Typed
  <1>3. Slots
    BY <1>1 DEF Init, NewCircuit, Slots, SlotExclusive, OpenCircuitIsEmpty, ExitMeansDead, SlotAlive
  <1>4. RemovedSessionsGone /\ SteerHasReader /\ Separate
    BY <1>1 DEF Init, RemovedSessionsGone, SteerHasReader, Separate
  <1>5. Held = {} /\ Tries = {}
    BY <1>1 DEF Init, Held, Tries
  <1>6. Q!Init
    BY <1>5, SameOperators DEF Init, Q!Init
  <1>7. Q!PlaceInv
    BY <1>6, EventAssumption, CreatedAtAssumption, DedupAssumption, LimitAssumption, BoundAssumption,
       Q!InitPlaces
  <1>8. QED
    BY <1>2, <1>3, <1>4, <1>6, <1>7 DEF HInv, Own

\* Every step keeps the harness's part of the invariant and is, for the queue, one
\* of the groups of calls of EventQueue or no step at all.
LEMMA NextKeeps ==
  ASSUME HInv, [Next]_vars
  PROVE  Own' /\ [Q!Next]_(Q!vars)
  <1>0. Own
    BY DEF HInv
  <1>1. ASSUME NEW c \in Channel, ReceiveEvent(c) PROVE Own' /\ Q!Next
    BY <1>1, ReceiveKeeps DEF Q!Next
  <1>2. ASSUME NEW c \in Channel, MemberRemoved(c) PROVE Own' /\ Q!Next
    BY <1>0, <1>2, RemovalKeeps DEF Q!Next
  <1>3. ASSUME NEW c \in Channel, OwnerCancel(c) \/ OwnerRotate(c) \/ SwitchModel(c)
        PROVE  Own' /\ UNCHANGED Q!vars
    BY <1>0, <1>3, OwnerStepKeeps
  <1>4. ASSUME NEW c \in Channel, ThrottleEnds(c) \/ DeadlinePasses(c) PROVE Own' /\ Q!Next
    BY <1>0, <1>4, TimeKeeps DEF Q!Next
  <1>5. ASSUME NEW i \in Slot, TaskStep(i) PROVE Own' /\ UNCHANGED Q!vars
    BY <1>0, <1>5, TaskStepKeeps
  <1>6. ASSUME NEW i \in Slot, HandleResult(i) \/ HandlePanic(i) PROVE Own' /\ (Q!Next \/ UNCHANGED Q!vars)
    BY <1>0, <1>6, ResultKeeps, PanicKeeps DEF TurnSettles, Q!Next
  <1>7. ASSUME NEW i \in Slot, RespawnEnds(i) \/ CooldownEnds(i) \/ CrashAges(i)
        PROVE  Own' /\ UNCHANGED Q!vars
    BY <1>0, <1>7, SlotStepKeeps
  <1>8. ASSUME NEW s \in steering, TakeSteer(s) \/ AnswerSteer(s) PROVE Own' /\ UNCHANGED Q!vars
    BY <1>0, <1>8, SteerStepKeeps
  <1>9. ASSUME NEW s \in steering, HandleSteerAck(s) PROVE Own' /\ Q!Next
    BY <1>0, <1>9, AckKeeps DEF Q!Next
  <1>10. ASSUME DrainEnds \/ OtherTick \/ Exited \/ \E c \in Channel : MemberAdded(c)
         PROVE  Own' /\ UNCHANGED Q!vars
    BY <1>0, <1>10, LoopStepKeeps
  <1>11. ASSUME DispatchStep PROVE Own' /\ Q!Next
    BY <1>11, DispatchKeeps DEF Q!Next
  <1>12. ASSUME HeartbeatTick PROVE Own' /\ Q!Next
    BY <1>0, <1>12, HeartbeatKeeps DEF Q!Next
  <1>13. ASSUME Maintenance PROVE Own' /\ Q!Next
    BY <1>0, <1>13, MaintenanceKeeps DEF Q!Next
  <1>14. ASSUME Collect PROVE Own' /\ UNCHANGED Q!vars
    BY <1>0, <1>14, CollectKeeps
  <1>15. ASSUME UNCHANGED vars PROVE Own' /\ UNCHANGED Q!vars
    <2>1. /\ UNCHANGED <<eq, arrived, idle, sess, task, steering, circuit, respawn, removed, loop>>
      BY <1>15 DEF vars, queueVars, poolVars
    <2>2. /\ SameTurns /\ SameTries /\ Held' = Held /\ Tries' = Tries /\ SteerHasReader'
      BY <1>0, <2>1, TurnsKept
    <2>3. sess' \in [Slot -> SUBSET Channel] /\ \A j \in idle : sess'[j] \cap removed' = {}
      BY <1>0, <2>1 DEF Typed, Own, RemovedSessionsGone
    <2>4. Own'
      BY <1>0, <2>1, <2>2, <2>3, OwnKept
    <2>5. QED
      BY <2>1, <2>2, <2>4, QueueUnseen
  <1>16. QED
    BY <1>1, <1>2, <1>3, <1>4, <1>5, <1>6, <1>7, <1>8, <1>9, <1>10, <1>11, <1>12, <1>13, <1>14, <1>15
       DEF Next

\* The invariant is inductive.
LEMMA NextHolds == HInv /\ [Next]_vars => HInv'
  <1> SUFFICES ASSUME HInv, [Next]_vars PROVE HInv'
    OBVIOUS
  <1>1. Own' /\ [Q!Next]_(Q!vars) /\ Q!PlaceInv
    BY NextKeeps DEF HInv
  <1>2. Q!PlaceInv'
    BY <1>1, EventAssumption, CreatedAtAssumption, DedupAssumption, LimitAssumption, BoundAssumption,
       Q!NextPlaces
  <1>3. QED
    BY <1>1, <1>2 DEF HInv

\* The inductive invariant of the harness.
THEOREM HarnessInvariance == Spec => []HInv
  <1>1. Init => HInv
    BY InitHolds
  <1>2. QED
    BY <1>1, NextHolds, PTL DEF Spec

\* An agent is idle, out with a task, or being respawned, and never two of these,
\* whatever order of results, panics, respawns and refills.
THEOREM SlotsAreExclusive == Spec => []SlotExclusive
  <1>1. HInv => SlotExclusive
    BY DEF HInv, Own, Slots
  <1>2. QED
    BY <1>1, HarnessInvariance, PTL

\* No agent lives, and none is respawned, behind a breaker that is not closed.
THEOREM OpenCircuitsAreEmpty == Spec => []OpenCircuitIsEmpty
  <1>1. HInv => OpenCircuitIsEmpty
    BY DEF HInv, Own, Slots
  <1>2. QED
    BY <1>1, HarnessInvariance, PTL

\* The main loop gives up only when no agent is alive and none is being respawned.
THEOREM ExitsOnlyWhenDead == Spec => []ExitMeansDead
  <1>1. HInv => ExitMeansDead
    BY DEF HInv, Own, Slots
  <1>2. QED
    BY <1>1, HarnessInvariance, PTL

\* An idle agent keeps no session of a channel it was removed from, also when the
\* removal came while the agent was out.
THEOREM RemovedSessionsAreGone == Spec => []RemovedSessionsGone
  <1>1. HInv => RemovedSessionsGone
    BY DEF HInv, Own
  <1>2. QED
    BY <1>1, HarnessInvariance, PTL

\* A steer attempt that is not acked belongs to a running task of its channel, whose
\* read loop or end acks it.
THEOREM SteersHaveReaders == Spec => []SteerHasReader
  <1>1. HInv => SteerHasReader
    BY DEF HInv, Own
  <1>2. QED
    BY <1>1, HarnessInvariance, PTL

-----------------------------------------------------------------------------
(* One turn per channel, and the refinement.                               *)

\* The queue's invariant of the turns lasts as long as no deadline has passed.
LEMMA TurnsStaySingle ==
  /\ Init => Q!TurnInv
  /\ HInv /\ Q!TurnInv /\ [Next]_vars /\ NoneOverdue' => Q!TurnInv'
  <1>1. ASSUME Init PROVE Q!TurnInv
    BY <1>1, InitHolds, EventAssumption, CreatedAtAssumption, DedupAssumption, LimitAssumption,
       BoundAssumption, Q!InitTurnInv
  <1>2. ASSUME HInv, Q!TurnInv, [Next]_vars, NoneOverdue' PROVE Q!TurnInv'
    <2>1. [Q!Next]_(Q!vars)
      BY <1>2, NextKeeps
    <2>2. eq'.overdue = {}
      BY <1>2 DEF NoneOverdue
    <2>3. QED
      BY <1>2, <2>1, <2>2, EventAssumption, CreatedAtAssumption, DedupAssumption, LimitAssumption,
         BoundAssumption, Q!NextTurnInv
  <1>3. QED
    BY <1>1, <1>2

\* Two tasks of one channel would hold two batches of it.
LEMMA OneBatchOneTask ==
  ASSUME HInv, Q!TurnInv
  PROVE  OneTaskPerChannel
  <1> SUFFICES ASSUME NEW c \in Channel PROVE Cardinality(TasksOf(c)) <= 1
    BY DEF OneTaskPerChannel
  <1>0. Own /\ Typed
    BY DEF HInv, Own
  <1>1. ASSUME NEW i \in TasksOf(c)
        PROVE  /\ i \in Slot /\ Busy(i) /\ task[i].chan = c
               /\ task[i].batch \in Held /\ task[i].batch.chan = c
    <2>1. i \in Slot /\ Busy(i) /\ task[i].chan = c
      BY DEF TasksOf
    <2>2. task[i].batch \in Held
      BY <2>1 DEF Held
    <2>3. QED
      BY <1>0, <2>1, <2>2, BusyIsTurn DEF Turn, Coherent
  <1>2. ASSUME NEW i \in TasksOf(c), NEW j \in TasksOf(c) PROVE i = j
    <2>1. task[i].batch = task[j].batch
      BY <1>1 DEF Q!TurnInv, Q!OneTurnPerChannel
    <2>2. QED
      BY <1>0, <1>1, <2>1 DEF Own, Separate
  <1>3. CASE TasksOf(c) = {}
    BY <1>3, FS_EmptySet
  <1>4. CASE TasksOf(c) # {}
    <2>1. PICK i : TasksOf(c) = {i}
      BY <1>2, <1>4
    <2>2. Cardinality(TasksOf(c)) = 1
      BY <2>1, FS_Singleton
    <2>3. QED
      BY <2>2
  <1>5. QED
    BY <1>3, <1>4

\* In every behaviour in which no turn outlives its in-flight deadline, at most one
\* turn of a channel runs at any time, whatever cancels, steers, panics, removals
\* and requeues do.  Without the condition it fails: the deadline hands the channel
\* to a second task, and the late end of the first frees the second's mark, too.
THEOREM ChannelsHaveOneTask == Spec => OneTaskUnlessOverrun
  <1>1. /\ Init => Q!TurnInv
        /\ HInv /\ Q!TurnInv /\ [Next]_vars /\ NoneOverdue' => Q!TurnInv'
    BY TurnsStaySingle
  <1>2. HInv /\ Q!TurnInv => OneTaskPerChannel
    BY OneBatchOneTask
  <1>3. QED
    BY <1>1, <1>2, HarnessInvariance, PTL DEF Spec, OneTaskUnlessOverrun

\* EventQueue as AcpHarness names it has the same operators, too.
LEMMA SameOperatorsEQ ==
  /\ EQ!QueueState = QueueState /\ EQ!Batch = Batch /\ EQ!CancelReason = CancelReason
  /\ EQ!NewQueue = NewQueue
  /\ \A q : /\ EQ!Expire(q) = Expire(q) /\ EQ!FlushNext(q) = FlushNext(q)
            /\ EQ!CompactExpiredState(q) = CompactExpiredState(q)
  /\ \A q, c : /\ EQ!Accepts(q, c) <=> Accepts(q, c)
               /\ EQ!MarkComplete(q, c) = MarkComplete(q, c)
               /\ EQ!DrainChannel(q, c) = DrainChannel(q, c)
               /\ EQ!ExtendInFlightDeadline(q, c) = ExtendInFlightDeadline(q, c)
  /\ \A q, b : EQ!Requeue(q, b) = Requeue(q, b) /\ EQ!RequeuePreserve(q, b) = RequeuePreserve(q, b)
  /\ \A q, b, r : EQ!RequeueAsCancelled(q, b, r) = RequeueAsCancelled(q, b, r)
  /\ \A q, c, e : /\ EQ!Push(q, c, e) = Push(q, c, e)
                  /\ EQ!MarkNativeSteerPending(q, c, e) = MarkNativeSteerPending(q, c, e)
                  /\ EQ!ReleaseNativeSteer(q, c, e) = ReleaseNativeSteer(q, c, e)
                  /\ EQ!RemoveEvent(q, c, e) = RemoveEvent(q, c, e)
  <1>1. /\ EQ!QueueState = QueueState /\ EQ!Batch = Batch /\ EQ!CancelReason = CancelReason
        /\ EQ!NewQueue = NewQueue
    BY Zenon DEF EQ!QueueState, QueueState, EQ!Batch, Batch, EQ!CancelReason, CancelReason, EQ!NewQueue, NewQueue
  <1>2. \A q : EQ!Expire(q) = Expire(q)
    BY Zenon DEF EQ!Expire, Expire, EQ!Recovered, Recovered, EQ!TrimBack, TrimBack
  <1>3. \A q : EQ!FlushNext(q) = FlushNext(q)
    BY Zenon DEF EQ!FlushNext, FlushNext, EQ!Ready, Ready, EQ!FlushQueued, FlushQueued, EQ!Oldest, Oldest,
                 EQ!StableSorts, StableSorts, EQ!Claim, Claim, EQ!Interrupted, Interrupted,
                 EQ!FlushCancelled, FlushCancelled, EQ!Bijection, Bijection, EQ!Injection, Injection,
                 EQ!Surjection, Surjection, EQ!IsInjective, IsInjective
  <1>4. \A q : EQ!CompactExpiredState(q) = CompactExpiredState(q)
    BY Zenon DEF EQ!CompactExpiredState, CompactExpiredState
  <1>5. \A q, c : EQ!Accepts(q, c) <=> Accepts(q, c)
    BY Zenon DEF EQ!Accepts, Accepts
  <1>5a. \A q, c : EQ!MarkComplete(q, c) = MarkComplete(q, c)
    BY Zenon DEF EQ!MarkComplete, MarkComplete
  <1>5b. \A q, c : EQ!DrainChannel(q, c) = DrainChannel(q, c)
    BY ZenonT(60) DEF EQ!DrainChannel, DrainChannel
  <1>5c. \A q, c : EQ!ExtendInFlightDeadline(q, c) = ExtendInFlightDeadline(q, c)
    BY Zenon DEF EQ!ExtendInFlightDeadline, ExtendInFlightDeadline
  <1>6. \A q, b : EQ!Requeue(q, b) = Requeue(q, b) /\ EQ!RequeuePreserve(q, b) = RequeuePreserve(q, b)
    BY ZenonT(60) DEF EQ!Requeue, Requeue, EQ!RequeuePreserve, RequeuePreserve, EQ!PushFront, PushFront,
                 EQ!TrimBack, TrimBack, EQ!DeadLetters, DeadLetters
  <1>7. \A q, b, r : EQ!RequeueAsCancelled(q, b, r) = RequeueAsCancelled(q, b, r)
    BY Zenon DEF EQ!RequeueAsCancelled, RequeueAsCancelled
  <1>0. \A s, e : EQ!Without(s, e) = Without(s, e)
    BY Zenon DEF EQ!Without, Without, EQ!Range, Range
  <1>00. \A q, c, e : EQ!PushFront(q, c, e) = PushFront(q, c, e)
    BY Zenon DEF EQ!PushFront, PushFront, EQ!TrimBack, TrimBack
  <1>000. \A s : EQ!Range(s) = Range(s)
    BY Zenon DEF EQ!Range, Range
  <1>8. \A q, c, e : EQ!Push(q, c, e) = Push(q, c, e)
    BY Zenon DEF EQ!Push, Push
  <1>8a. \A q, c, e : EQ!MarkNativeSteerPending(q, c, e) = MarkNativeSteerPending(q, c, e)
    BY ZenonT(60) DEF EQ!MarkNativeSteerPending, MarkNativeSteerPending, EQ!Without, Without, EQ!Range, Range
  <1>9. \A q, c, e : /\ EQ!ReleaseNativeSteer(q, c, e) = ReleaseNativeSteer(q, c, e)
                     /\ EQ!RemoveEvent(q, c, e) = RemoveEvent(q, c, e)
    BY <1>0, <1>00, <1>000, ZenonT(60) DEF EQ!ReleaseNativeSteer, ReleaseNativeSteer, EQ!RemoveEvent, RemoveEvent
  <1>10. QED
    BY <1>1, <1>2, <1>3, <1>4, <1>5, <1>5a, <1>5b, <1>5c, <1>6, <1>7, <1>8, <1>8a, <1>9

\* What EventQueue's module of proofs and the refinement mapping of AcpHarness call
\* the queue's steps are the same steps.
LEMMA SameSteps ==
  /\ Q!Init => EQ!Init
  /\ Q!Next => EQ!Next
  /\ UNCHANGED Q!vars => UNCHANGED EQ!vars
  <1> DEFINE h == {task[i].batch : i \in {j \in Slot : Busy(j) /\ task[j].chan \in Channel}}
             a == {[chan |-> s.chan, event |-> s.event] : s \in steering}
  <1>1. Held = h /\ Tries = a /\ Held' = h' /\ Tries' = a'
    BY DEF Held, Tries
  <1>2. Q!Init => EQ!Init
    BY <1>1, SameOperators, SameOperatorsEQ DEF Q!Init, EQ!Init
  <1>3. UNCHANGED Q!vars => UNCHANGED EQ!vars
    BY <1>1 DEF Q!vars, EQ!vars
  <1>4. ASSUME NEW c \in Channel, Q!Receive(c) PROVE EQ!Receive(c)
    BY <1>1, <1>4, SameOperators, SameOperatorsEQ DEF Q!Receive, EQ!Receive
  <1>5. ASSUME NEW c \in Channel, Q!ReceiveSteered(c) PROVE EQ!ReceiveSteered(c)
    BY <1>1, <1>5, SameOperators, SameOperatorsEQ DEF Q!ReceiveSteered, EQ!ReceiveSteered
  <1>6. ASSUME NEW c \in Channel, Q!Drain(c) PROVE EQ!Drain(c)
    BY <1>1, <1>6, SameOperators, SameOperatorsEQ DEF Q!Drain, EQ!Drain
  <1>7. ASSUME NEW c \in Channel, Q!ThrottleEnds(c) PROVE EQ!ThrottleEnds(c)
    BY <1>1, <1>7 DEF Q!ThrottleEnds, EQ!ThrottleEnds
  <1>8. ASSUME NEW c \in Channel, Q!DeadlinePasses(c) PROVE EQ!DeadlinePasses(c)
    BY <1>1, <1>8 DEF Q!DeadlinePasses, EQ!DeadlinePasses
  <1>9. ASSUME NEW b \in Held, Q!Finish(b) PROVE EQ!Finish(b)
    BY <1>1, <1>9, SameOperators, SameOperatorsEQ DEF Q!Finish, EQ!Finish
  <1>10. ASSUME NEW b \in Held, Q!Fail(b) PROVE EQ!Fail(b)
    BY <1>1, <1>10, SameOperators, SameOperatorsEQ DEF Q!Fail, EQ!Fail
  <1>11. ASSUME NEW b \in Held, NEW reason, Q!Cancel(b, reason) PROVE EQ!Cancel(b, reason)
    BY <1>1, <1>11, SameOperators, SameOperatorsEQ DEF Q!Cancel, EQ!Cancel
  <1>12. ASSUME NEW s \in Tries, Q!SteerDelivered(s) PROVE EQ!SteerDelivered(s)
    BY <1>1, <1>12, SameOperators, SameOperatorsEQ DEF Q!SteerDelivered, EQ!SteerDelivered
  <1>13. ASSUME NEW s \in Tries, Q!SteerReleased(s) PROVE EQ!SteerReleased(s)
    BY <1>1, <1>13, SameOperators, SameOperatorsEQ DEF Q!SteerReleased, EQ!SteerReleased
  <1>14. ASSUME Q!Dispatch PROVE EQ!Dispatch
    BY <1>1, <1>14, SameOperators, SameOperatorsEQ DEF Q!Dispatch, EQ!Dispatch
  <1>15. ASSUME Q!DispatchNoAgent PROVE EQ!DispatchNoAgent
    BY <1>1, <1>15, SameOperators, SameOperatorsEQ DEF Q!DispatchNoAgent, EQ!DispatchNoAgent
  <1>16. ASSUME Q!CheckWork PROVE EQ!CheckWork
    BY <1>1, <1>16, SameOperators, SameOperatorsEQ DEF Q!CheckWork, EQ!CheckWork
  <1>17. ASSUME Q!Maintain PROVE EQ!Maintain
    BY <1>1, <1>17, SameOperators, SameOperatorsEQ DEF Q!Maintain, EQ!Maintain
  <1>18. Q!CancelReason = EQ!CancelReason
    BY SameOperators, SameOperatorsEQ
  <1> HIDE DEF h, a
  <1>19. ASSUME Q!Next PROVE EQ!Next
    BY <1>1, <1>4, <1>5, <1>6, <1>7, <1>8, <1>9, <1>10, <1>11, <1>12, <1>13, <1>14, <1>15, <1>16, <1>17,
       <1>18, <1>19 DEF Q!Next, EQ!Next, h, a
  <1>20. QED
    BY <1>2, <1>3, <1>19

\* The harness implements the queue's specification: the main loop touches the queue
\* only through the groups of calls of EventQueue, so every theorem about EventQueue
\* is one about the harness.
THEOREM HarnessRefinesQueue == Spec => RefinesQueue
  <1>1. Init => EQ!Init
    BY InitHolds, SameSteps
  <1>2. HInv /\ [Next]_vars => [EQ!Next]_(EQ!vars)
    BY NextKeeps, SameSteps
  <1>3. QED
    BY <1>1, <1>2, HarnessInvariance, PTL DEF Spec, RefinesQueue, EQ!Spec

=============================================================================
