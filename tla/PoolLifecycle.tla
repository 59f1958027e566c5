--------------------------- MODULE PoolLifecycle ---------------------------
(***************************************************************************)
(* The life of the harness's agent pool from the first wake to the last    *)
(* reaped process (crates/buzz-acp/src/pool_lifecycle.rs and the wake and  *)
(* shutdown parts of lib.rs).  With a lazy pool no agent is started until  *)
(* work is queued; a wake task then builds the pool slot by slot and sends *)
(* it to the main loop.  At the end every agent process has to be reaped,  *)
(* wherever it is: in a slot, in a turn, in a channel, in a wake or in a   *)
(* respawn.                                                                *)
(*                                                                         *)
(* A process is followed from owner to owner.  "reaped" is                 *)
(* AcpClient::shutdown; "dropped" is the destructor, which only tries to   *)
(* kill and may leave a zombie.  What a turn does to the queue is the      *)
(* subject of AcpHarness: here `work` is queue.has_flushable_work().       *)
(***************************************************************************)
EXTENDS Naturals, Sequences, FiniteSets

CONSTANTS Slots,        \* config.agents
          Procs,        \* process identifiers: bounds the processes started
          MaxFaults     \* bound on failing spawns, crashes and panics

VARIABLES
  lc,        \* pool_lifecycle: its state, the attempt, whether retry_at is past
  ready,     \* pool_ready
  work,      \* the queue has flushable work
  wakes,     \* wake_tasks: the tasks that build a pool
  wakeChan,  \* wake_tx / wake_rx, capacity one
  proc,      \* every process: where it is, its slot and its wake attempt
  respawn,   \* the respawn task of a slot, and its result in respawn_rx
  signalled, \* the shutdown watch has fired
  phase,     \* "run", or how far the code after the main loop has come
  faults

vars == <<lc, ready, work, wakes, wakeChan, proc, respawn, signalled, phase, faults>>

\* Bound on the wakes: every fault may fail one.
MaxWakes == MaxFaults + 1

Live == {"wake", "waiting", "slot", "task", "result", "reaping", "old", "new", "respawned"}

Init ==
  /\ lc = [st |-> "Listening", attempt |-> 0, due |-> FALSE]
  /\ ready = FALSE /\ work = FALSE /\ signalled = FALSE
  /\ wakes = {} /\ wakeChan = <<>>
  /\ proc = [p \in Procs |-> [at |-> "none", slot |-> 0, by |-> 0]]
  /\ respawn = [i \in 1..Slots |-> "none"]
  /\ phase = "run" /\ faults = 0

\* The processes at a place, moved to another one.
Move(from, to, S) ==
  [p \in Procs |-> IF p \in S /\ proc[p].at = from THEN [proc[p] EXCEPT !.at = to] ELSE proc[p]]
At(place) == {p \in Procs : proc[p].at = place}
OfWake(a) == {p \in At("wake") : proc[p].by = a}
Unused == {p \in At("none") : \A q \in At("none") : p <= q}
Fault == faults < MaxFaults /\ faults' = faults + 1

-----------------------------------------------------------------------------
(* pool_lifecycle.rs *)

\* Mutant of WakeDue: a wake under way does not keep another one from starting.
WakeDueAgain == work /\ (lc.st \in {"Listening", "Waking"} \/ (lc.st = "Failed" /\ lc.due))

\* start_wake_if_due: the first wake, or a retry whose time has come.
WakeDue == work /\ (lc.st = "Listening" \/ (lc.st = "Failed" /\ lc.due))

\* Mutant of CompleteWake: a failed wake is forgotten instead of retried.
CompleteWakeForgets(a, ok) ==
  IF lc.st = "Waking" /\ lc.attempt = a
  THEN [lc EXCEPT !.st = IF ok THEN "Ready" ELSE "Waking", !.due = FALSE]
  ELSE lc

\* complete_wake: the result of any other attempt than the one under way is
\* rejected and changes nothing.
CompleteWake(a, ok) ==
  IF lc.st = "Waking" /\ lc.attempt = a
  THEN [lc EXCEPT !.st = IF ok THEN "Ready" ELSE "Failed", !.due = FALSE]
  ELSE lc

-----------------------------------------------------------------------------
(* The main loop until the pool is there *)

\* dispatch_pending ends a handler that leaves the processes as in f: if there is
\* work it is given to idle agents, until one of the two runs out.
DispatchPending(f, there) ==
  \E S \in SUBSET {p \in Procs : f[p].at = "slot"} :
    LET idle == {p \in Procs : f[p].at = "slot"} \ S
    IN /\ S = {} => idle = {} \/ ~there
       /\ S # {} => there
       /\ proc' = [p \in Procs |-> IF p \in S THEN [f[p] EXCEPT !.at = "task"] ELSE f[p]]
       /\ work' \in IF idle # {} THEN {FALSE} ELSE IF S = {} THEN {there} ELSE BOOLEAN

\* Before there is a pool an event is pushed, or a removed channel's events are
\* drained.
WorkChanges == /\ phase = "run" /\ ~ready /\ work' = ~work
               /\ UNCHANGED <<lc, ready, wakes, wakeChan, proc, respawn, signalled, phase, faults>>

StartWake ==
  /\ phase = "run" /\ ~ready /\ WakeDue /\ lc.attempt < MaxWakes
  /\ lc' = [st |-> "Waking", attempt |-> lc.attempt + 1, due |-> FALSE]
  /\ wakes' = wakes \cup {[attempt |-> lc.attempt + 1, slot |-> 1, at |-> "spawn"]}
  /\ UNCHANGED <<ready, work, wakeChan, proc, respawn, signalled, phase, faults>>

RetryDue == /\ lc.st = "Failed" /\ ~lc.due /\ lc' = [lc EXCEPT !.due = TRUE]
            /\ UNCHANGED <<ready, work, wakes, wakeChan, proc, respawn, signalled, phase, faults>>

\* A wake result arrives: the built pool replaces the placeholder, whose
\* remaining contents are dropped; a rejected result is dropped itself.
HandleWake ==
  /\ phase = "run" /\ ~ready /\ wakeChan # <<>>
  /\ LET r == Head(wakeChan)
         l == CompleteWake(r.attempt, r.ok)
         taken == l # lc /\ r.ok
     IN /\ lc' = IF taken THEN [l EXCEPT !.st = "Listening"] ELSE l
        /\ ready' = taken
        /\ LET f == [p \in Procs |->
                      CASE proc[p].at = "waiting" /\ proc[p].by = r.attempt ->
                             [proc[p] EXCEPT !.at = IF taken THEN "slot" ELSE "dropped"]
                        [] taken /\ proc[p].at \in {"slot", "result"} -> [proc[p] EXCEPT !.at = "dropped"]
                        [] OTHER -> proc[p]]
           IN IF taken THEN DispatchPending(f, work) ELSE proc' = f /\ UNCHANGED work
  /\ wakeChan' = Tail(wakeChan)
  /\ UNCHANGED <<wakes, respawn, signalled, phase, faults>>

\* A wake task panicked: whatever attempt is under way is cancelled.
HandleWakePanic ==
  /\ phase = "run" /\ wakeChan = <<>>
  /\ \E t \in wakes : t.at = "panicked" /\ wakes' = wakes \ {t}
  /\ lc' = CompleteWake(lc.attempt, FALSE)
  /\ UNCHANGED <<ready, work, wakeChan, proc, respawn, signalled, phase, faults>>

-----------------------------------------------------------------------------
(* initialize_agent_pool, as the wake task runs it *)

Advance(t, at, slot) == wakes' = (wakes \ {t}) \cup {[t EXCEPT !.at = at, !.slot = slot]}

WakeSpawns(t) ==
  /\ t.at = "spawn" /\ t.slot <= Slots
  /\ \E p \in Unused : proc' = [proc EXCEPT ![p] = [at |-> "wake", slot |-> t.slot, by |-> t.attempt]]
  /\ Advance(t, "init", t.slot)
  /\ UNCHANGED <<lc, ready, work, wakeChan, respawn, signalled, phase, faults>>

\* The spawn itself fails: the slot stays empty.
WakeSpawnFails(t) ==
  /\ t.at = "spawn" /\ t.slot <= Slots /\ Fault
  /\ Advance(t, "spawn", t.slot + 1)
  /\ UNCHANGED <<lc, ready, work, wakeChan, proc, respawn, signalled, phase>>

\* The handshake succeeds; the biased select looks at the shutdown watch first.
WakeInits(t) ==
  /\ t.at = "init" /\ ~signalled
  /\ Advance(t, "spawn", t.slot + 1)
  /\ UNCHANGED <<lc, ready, work, wakeChan, proc, respawn, signalled, phase, faults>>

\* The handshake fails or times out: the process is reaped, the slot empty.
WakeInitFails(t) ==
  /\ t.at = "init" /\ ~signalled /\ Fault
  /\ proc' = Move("wake", "reaped", {p \in OfWake(t.attempt) : proc[p].slot = t.slot})
  /\ Advance(t, "spawn", t.slot + 1)
  /\ UNCHANGED <<lc, ready, work, wakeChan, respawn, signalled, phase>>

\* Shutdown during a handshake: the task reaps what it has built.
WakeStops(t) ==
  /\ t.at = "init" /\ signalled
  /\ proc' = Move("wake", "reaped", OfWake(t.attempt))
  /\ Advance(t, "failed", t.slot)
  /\ UNCHANGED <<lc, ready, work, wakeChan, respawn, signalled, phase, faults>>

\* All slots tried: a pool with at least one agent is a success.
WakeBuilt(t) ==
  /\ t.at = "spawn" /\ t.slot = Slots + 1
  /\ Advance(t, IF OfWake(t.attempt) = {} THEN "failed" ELSE "send", t.slot)
  /\ UNCHANGED <<lc, ready, work, wakeChan, proc, respawn, signalled, phase, faults>>

\* wake_tx.send waits for room; then the task ends.
WakeSends(t) ==
  /\ t.at \in {"send", "failed"} /\ wakeChan = <<>>
  /\ wakeChan' = <<[attempt |-> t.attempt, ok |-> t.at = "send"]>>
  /\ proc' = Move("wake", "waiting", OfWake(t.attempt))
  /\ wakes' = wakes \ {t}
  /\ UNCHANGED <<lc, ready, work, respawn, signalled, phase, faults>>

WakePanics(t) ==
  /\ t.at \in {"spawn", "init"} /\ Fault
  /\ proc' = Move("wake", "dropped", OfWake(t.attempt))
  /\ Advance(t, "panicked", t.slot)
  /\ UNCHANGED <<lc, ready, work, wakeChan, respawn, signalled, phase>>

WakeStep(t) == WakeSpawns(t) \/ WakeInits(t) \/ WakeStops(t) \/ WakeBuilt(t) \/ WakeSends(t)
WakeFault(t) == WakeSpawnFails(t) \/ WakeInitFails(t) \/ WakePanics(t)

-----------------------------------------------------------------------------
(* Turns and respawns *)

\* The arms and timers that leave the pool alone but may bring work, or take it
\* away: events, membership changes, commands, heartbeats, steer answers.
Dispatch ==
  /\ phase = "run" /\ ready
  /\ \E there \in BOOLEAN : DispatchPending(proc, there)
  /\ UNCHANGED <<lc, ready, wakes, wakeChan, respawn, signalled, phase, faults>>

\* run_prompt_task sends its agent back with the result.
TaskEnds(p) ==
  /\ proc[p].at = "task" /\ proc' = [proc EXCEPT ![p].at = "result"]
  /\ UNCHANGED <<lc, ready, work, wakes, wakeChan, respawn, signalled, phase, faults>>

\* A panic destroys the task's agent; the main loop finds the join error.
TaskPanics(p) ==
  /\ proc[p].at = "task" /\ Fault
  /\ proc' = [proc EXCEPT ![p].at = "dropped"]
  /\ respawn' = [respawn EXCEPT ![proc[p].slot] = "panicked"]
  /\ UNCHANGED <<lc, ready, work, wakes, wakeChan, signalled, phase>>

\* What the result handlers dispatch: what was waiting, or what they requeue.
There == {work, TRUE}

AgentReturns(p) ==
  /\ phase = "run" /\ proc[p].at = "result"
  /\ \E there \in There : DispatchPending([proc EXCEPT ![p].at = "slot"], there)
  /\ UNCHANGED <<lc, ready, wakes, wakeChan, respawn, signalled, phase, faults>>

\* No agent in a slot or a turn, and no respawn under way: the loop gives up.
GivesUp(f, r) == /\ \A p \in Procs : f[p].at \notin {"slot", "task", "result"}
                 /\ \A i \in 1..Slots : r[i] = "none"

\* An agent is lost: the loop ends, or what is waiting is dispatched.
ExitOrDispatch(f, r) ==
  /\ respawn' = r
  /\ IF GivesUp(f, r) THEN phase' = "break" /\ proc' = f /\ UNCHANGED work
     ELSE UNCHANGED phase /\ \E there \in There : DispatchPending(f, there)

\* The turn killed its agent.  A respawn task takes the old agent, to reap it;
\* with an open circuit nobody does.
AgentCrashed(p) ==
  /\ phase = "run" /\ proc[p].at = "result" /\ Fault
  /\ \/ ExitOrDispatch([proc EXCEPT ![p].at = "old"], [respawn EXCEPT ![proc[p].slot] = "reap"])
     \/ ExitOrDispatch([proc EXCEPT ![p].at = "dropped"], respawn)
  /\ UNCHANGED <<lc, ready, wakes, wakeChan, signalled>>

\* recover_panicked_agent, with a closed or an open circuit.
HandlePanic(i) ==
  /\ phase = "run" /\ respawn[i] = "panicked"
  /\ \E to \in {"spawn", "none"} : ExitOrDispatch(proc, [respawn EXCEPT ![i] = to])
  /\ UNCHANGED <<lc, ready, wakes, wakeChan, signalled, faults>>

OldOf(i) == {p \in At("old") : proc[p].slot = i}
NewOf(i) == {p \in At("new") : proc[p].slot = i}

RespawnReaps(i) ==
  /\ respawn[i] = "reap" /\ respawn' = [respawn EXCEPT ![i] = "spawn"]
  /\ proc' = Move("old", "reaped", OldOf(i))
  /\ UNCHANGED <<lc, ready, work, wakes, wakeChan, signalled, phase, faults>>

\* spawn_and_init: the process is started and initialised; a failure of either
\* is the result, and a process whose handshake fails is reaped.
RespawnSpawns(i) ==
  /\ respawn[i] = "spawn" /\ respawn' = [respawn EXCEPT ![i] = "init"]
  /\ \E p \in Unused : proc' = [proc EXCEPT ![p] = [at |-> "new", slot |-> i, by |-> 0]]
  /\ UNCHANGED <<lc, ready, work, wakes, wakeChan, signalled, phase, faults>>

RespawnDone(i, ok) ==
  /\ respawn[i] = "init" /\ respawn' = [respawn EXCEPT ![i] = IF ok THEN "ok" ELSE "failed"]
  /\ IF ok THEN UNCHANGED faults ELSE Fault
  /\ proc' = Move("new", IF ok THEN "respawned" ELSE "reaped", NewOf(i))
  /\ UNCHANGED <<lc, ready, work, wakes, wakeChan, signalled, phase>>

\* The main loop collects what is in respawn_rx; new agents are given work.
Collect ==
  /\ phase = "run" /\ \E i \in 1..Slots : respawn[i] \in {"ok", "failed"}
  /\ respawn' = [i \in 1..Slots |-> IF respawn[i] \in {"ok", "failed"} THEN "none" ELSE respawn[i]]
  /\ IF At("respawned") = {} THEN UNCHANGED <<proc, work>>
     ELSE \E there \in There : DispatchPending(Move("respawned", "slot", At("respawned")), there)
  /\ UNCHANGED <<lc, ready, wakes, wakeChan, signalled, phase, faults>>

\* Neither an agent nor a respawn: pool.slot_alive and respawn_in_flight.
Empty(i) == /\ respawn[i] = "none"
            /\ \A p \in Procs : proc[p].slot = i => proc[p].at \notin {"slot", "task", "result"}

\* Maintenance refills the empty slots whose circuits allow it, and dispatches.
Refill ==
  /\ phase = "run" /\ ready
  /\ \E R \in SUBSET {i \in 1..Slots : Empty(i)} :
       respawn' = [i \in 1..Slots |-> IF i \in R THEN "spawn" ELSE respawn[i]]
  /\ \E there \in There : DispatchPending(proc, there)
  /\ UNCHANGED <<lc, ready, wakes, wakeChan, signalled, phase, faults>>

-----------------------------------------------------------------------------
(* Shutdown *)

\* A signal, or the owner's shutdown command, fires the watch.
Signal == /\ ~signalled /\ signalled' = TRUE
          /\ UNCHANGED <<lc, ready, work, wakes, wakeChan, proc, respawn, phase, faults>>

\* The main loop has ended, by the shutdown arm or by giving up; the watch is
\* fired again for the wakes that a giving-up loop leaves behind.
LoopEnds ==
  /\ phase = "break" \/ (phase = "run" /\ signalled)
  /\ phase' = "wakes" /\ signalled' = TRUE
  /\ UNCHANGED <<lc, ready, work, wakes, wakeChan, proc, respawn, faults>>

Goes(to) == /\ phase' = to
            /\ UNCHANGED <<lc, ready, work, wakeChan, signalled, faults>>

\* Wake tasks are awaited; one that does not come back in time is aborted.
WakesDrained == /\ phase = "wakes" /\ \A t \in wakes : t.at = "panicked"
                /\ wakes' = {} /\ UNCHANGED <<proc, respawn>> /\ Goes("wakeChan")

WakesAborted == /\ phase = "wakes" /\ \E t \in wakes : t.at \in {"spawn", "init"}
                /\ wakes' = {} /\ UNCHANGED respawn /\ Goes("wakeChan")
                /\ proc' = Move("wake", "dropped", At("wake"))

\* Mutant of WakeChanDrained: a pool that arrived too late is not looked at.
WakeChanIgnored == /\ phase = "wakeChan" /\ phase' = "turns"
                   /\ UNCHANGED <<lc, ready, work, wakeChan, signalled, faults, wakes, respawn, proc>>

\* wake_rx is drained and the pools in it are shut down.
WakeChanDrained ==
  /\ phase = "wakeChan" /\ phase' = "turns" /\ wakeChan' = <<>>
  /\ proc' = Move("waiting", "reaped", At("waiting"))
  /\ UNCHANGED <<lc, ready, work, signalled, faults, wakes, respawn>>

\* The grace period: agents that come back are reaped one by one, each awaited
\* (AcpClient::shutdown takes up to 5 s) before the next is looked at, until no
\* task is left.
ResultTaken(p) ==
  /\ phase = "turns" /\ proc[p].at = "result" /\ At("reaping") = {}
  /\ proc' = [proc EXCEPT ![p].at = "reaping"]
  /\ UNCHANGED <<lc, ready, work, wakes, wakeChan, respawn, signalled, phase, faults>>

ResultReaped(p) ==
  /\ phase = "turns" /\ proc[p].at = "reaping"
  /\ proc' = [proc EXCEPT ![p].at = "reaped"]
  /\ UNCHANGED <<lc, ready, work, wakes, wakeChan, respawn, signalled, phase, faults>>

TurnsDrained == /\ phase = "turns" /\ At("task") = {} /\ At("reaping") = {}
                /\ UNCHANGED <<proc, wakes, respawn>> /\ Goes("late")

\* The grace period has something to cut off: a task, or the reap of an agent.
CutShort == At("task") \cup At("reaping")

\* Mutant of GraceOver: the time limit is not applied.
GraceNeverOver == phase = "turns" /\ CutShort # {} /\ UNCHANGED vars

\* The time is up: the tasks that are left are aborted, and the loop above is
\* dropped with the agent it is reaping.
GraceOver == /\ phase = "turns" /\ CutShort # {}
             /\ proc' = [p \in Procs |-> IF p \in CutShort
                                         THEN [proc[p] EXCEPT !.at = "dropped"] ELSE proc[p]]
             /\ UNCHANGED <<wakes, respawn>> /\ Goes("late")

LateResultsReaped == /\ phase = "late" /\ Goes("idle") /\ UNCHANGED <<wakes, respawn>>
                     /\ proc' = Move("result", "reaped", At("result"))

IdleReaped == /\ phase = "idle" /\ Goes("respawns") /\ UNCHANGED <<wakes, respawn>>
              /\ proc' = Move("slot", "reaped", At("slot"))

\* respawn_tasks.shutdown aborts; the guard of an aborted task reports failure.
RespawnsAborted ==
  /\ phase = "respawns" /\ Goes("respawned") /\ UNCHANGED wakes
  /\ proc' = [p \in Procs |-> IF proc[p].at \in {"old", "new"}
                              THEN [proc[p] EXCEPT !.at = "dropped"] ELSE proc[p]]
  /\ respawn' = [i \in 1..Slots |-> IF respawn[i] \in {"reap", "spawn", "init"}
                                    THEN "failed" ELSE respawn[i]]

RespawnedReaped ==
  /\ phase = "respawned" /\ Goes("exit") /\ UNCHANGED wakes
  /\ proc' = Move("respawned", "reaped", At("respawned"))
  /\ respawn' = [i \in 1..Slots |-> "none"]

\* The function returns: everything it still owns is dropped.
Returns == /\ phase = "exit" /\ Goes("done") /\ UNCHANGED <<wakes, respawn>>
           /\ proc' = [p \in Procs |-> IF proc[p].at \in Live
                                       THEN [proc[p] EXCEPT !.at = "dropped"] ELSE proc[p]]

MainShutdown ==
  \/ LoopEnds \/ WakesDrained \/ WakeChanDrained \/ TurnsDrained \/ LateResultsReaped
  \/ IdleReaped \/ RespawnsAborted \/ RespawnedReaped \/ Returns
Timeouts == WakesAborted \/ GraceOver

Stopped == phase = "done" /\ UNCHANGED vars

Next ==
  \/ WorkChanges \/ StartWake \/ RetryDue \/ HandleWake \/ HandleWakePanic
  \/ \E t \in wakes : WakeStep(t) \/ WakeFault(t)
  \/ Dispatch \/ Collect \/ Refill
  \/ \E p \in Procs : TaskEnds(p) \/ TaskPanics(p) \/ AgentReturns(p)
                      \/ AgentCrashed(p) \/ ResultTaken(p) \/ ResultReaped(p)
  \/ \E i \in 1..Slots : RespawnReaps(i) \/ RespawnSpawns(i) \/ HandlePanic(i)
                         \/ \E ok \in BOOLEAN : RespawnDone(i, ok)
  \/ Signal \/ MainShutdown \/ Timeouts \/ Stopped

Spec == Init /\ [][Next]_vars

-----------------------------------------------------------------------------
(* Properties *)

\* A wake attempt is under way exactly as long as one task, or one result on
\* its way, carries its number; no other task or result exists.  So no result
\* is ever stale, and no two wakes start two sets of processes.
OneWake ==
  phase = "run" /\ ~ready =>
    LET carried == {t.attempt : t \in wakes} \cup {wakeChan[n].attempt : n \in 1..Len(wakeChan)}
    IN /\ carried = IF lc.st = "Waking" THEN {lc.attempt} ELSE {}
       /\ Cardinality(wakes) + Len(wakeChan) <= 1

\* The processes a step leaves to their destructor.
Lost == {p \in Procs : proc'[p].at = "dropped" /\ proc[p].at # "dropped"}

CutOff ==
  \A p \in Lost : \/ proc[p].at \in {"wake", "task", "old", "new"}
                  \/ proc[p].at = "result" /\ phase = "run"
                  \/ proc[p].at = "reaping" /\ phase = "turns"
OneReap == \A p, q \in Lost : proc[p].at = "reaping" /\ proc[q].at = "reaping" => p = q

\* A process is left to its destructor only when what works on it is cut off (a
\* panic, or an abort when a grace period is over or respawns are stopped) or
\* when it crashed behind an open circuit.  Of the agents whose turn has ended
\* the end of the grace period costs at most one, the one being reaped; what is
\* idle in a slot, and at shutdown what is in a channel, is always reaped.
DroppedOnlyWhenCutOff == [][CutOff /\ OneReap]_vars

\* Fairness: tasks of the runtime are scheduled, handshakes have a timeout, the
\* main loop runs its ready arms, and timers fire.  Turns need not end.
Fairness ==
  /\ WF_vars(StartWake) /\ WF_vars(RetryDue) /\ WF_vars(HandleWake) /\ WF_vars(HandleWakePanic)
  /\ WF_vars(\E t \in wakes : WakeStep(t))
  /\ WF_vars(MainShutdown) /\ WF_vars(Timeouts)

FairSpec == Spec /\ Fairness

\* Work that stays queued gets a pool, however often building it has failed.
WorkWakesPool == [](work /\ phase = "run" => <>(ready \/ ~work \/ phase # "run"))

\* Once shutdown is requested the harness ends, even if a turn never does.
ShutdownEnds == signalled ~> phase = "done"

=============================================================================
