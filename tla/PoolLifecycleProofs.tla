------------------------ MODULE PoolLifecycleProofs ------------------------
(***************************************************************************)
(* Proofs about the pool's lifecycle: one wake at a time, and no process   *)
(* left to its destructor that a shutdown should have reaped.              *)
(*                                                                         *)
(* OneWake is not inductive: it does not say what the processes of the     *)
(* wake are doing.  The invariant follows them: before the pool is there a *)
(* process belongs to the task that builds the pool or to the result on    *)
(* its way, and each phase of the shutdown leaves no process behind in the *)
(* place it has emptied.                                                   *)
(***************************************************************************)
EXTENDS PoolLifecycle, FiniteSetTheorems, TLAPS

\* The pool is not there yet, and the main loop runs.
Waiting == phase = "run" /\ ~ready

Nothing == wakes = {} /\ wakeChan = <<>>
Building == /\ wakeChan = <<>>
            /\ \E t \in wakes : /\ wakes = {t} /\ DOMAIN t = {"attempt", "slot", "at"}
                                /\ t.attempt = lc.attempt
Arriving == /\ wakes = {}
            /\ \E ok \in BOOLEAN : wakeChan = <<[attempt |-> lc.attempt, ok |-> ok]>>

Shapes ==
  /\ DOMAIN lc = {"st", "attempt", "due"}
  /\ DOMAIN proc = Procs /\ \A p \in Procs : DOMAIN proc[p] = {"at", "slot", "by"}
  /\ DOMAIN respawn = 1..Slots
  /\ ready \in BOOLEAN

\* A wake is under way as long as one task or one result carries it.
Attempts ==
  Waiting => /\ lc.st = "Waking" => Building \/ Arriving
             /\ lc.st # "Waking" => Nothing

\* Before the pool is there no agent is in a slot or a turn and nothing is respawned; a
\* process belongs to the wake task, or to the successful result.
Owners ==
  Waiting =>
    /\ \A p \in Procs :
         /\ proc[p].at \in {"none", "reaped", "dropped", "wake", "waiting"}
         /\ proc[p].at = "wake" =>
              \E t \in wakes : t.at \in {"spawn", "init", "send"} /\ t.attempt = proc[p].by
         /\ proc[p].at = "waiting" => wakeChan = <<[attempt |-> proc[p].by, ok |-> TRUE]>>
    /\ \A i \in 1..Slots : respawn[i] = "none"

AfterWakes == {"wakeChan", "turns", "late", "idle", "respawns", "respawned", "exit", "done"}
AfterWakeChan == AfterWakes \ {"wakeChan"}
AfterTurns == AfterWakeChan \ {"turns"}
AfterLate == AfterTurns \ {"late"}
AfterIdle == AfterLate \ {"idle"}
AfterRespawns == AfterIdle \ {"respawns"}

\* What each phase of the shutdown has emptied stays empty; one agent is reaped at a time.
Emptied ==
  /\ phase \in AfterWakes => wakes = {}
  /\ \A p \in Procs :
       /\ phase \in AfterWakeChan => proc[p].at # "waiting"
       /\ phase \in AfterTurns => proc[p].at \notin {"task", "reaping"}
       /\ phase \in AfterLate => proc[p].at # "result"
       /\ phase \in AfterIdle => proc[p].at # "slot"
       /\ phase \in AfterRespawns => proc[p].at \notin {"old", "new"}
       /\ phase \in {"exit", "done"} => proc[p].at # "respawned"
  /\ phase \in AfterRespawns => \A i \in 1..Slots : respawn[i] \notin {"reap", "spawn", "init"}
  /\ \A p, q \in Procs : proc[p].at = "reaping" /\ proc[q].at = "reaping" => p = q

Inv == Shapes /\ Attempts /\ Owners /\ Emptied

Safe == Inv' /\ CutOff

\* A process is reaped in the grace period only if it was taken for that.
NoneTaken == \A p \in Procs : proc'[p].at = "reaping" => proc[p].at = "reaping"

\* The five parts of the state a step of the pool may change, with their shapes.
ProcShape(f) == DOMAIN f = Procs /\ \A p \in Procs : DOMAIN f[p] = {"at", "slot", "by"}

-----------------------------------------------------------------------------
(* What the operators of the model do to processes and wakes               *)

\* Moving processes touches only those at the place they are moved from.
LEMMA MoveFacts ==
  ASSUME Inv, NEW from, NEW to, NEW S
  PROVE  /\ ProcShape(Move(from, to, S))
         /\ \A p \in Procs : /\ Move(from, to, S)[p].by = proc[p].by
                             /\ p \in S /\ proc[p].at = from => Move(from, to, S)[p].at = to
                             /\ ~(p \in S /\ proc[p].at = from) => Move(from, to, S)[p] = proc[p]
  BY DEF Inv, Shapes, ProcShape, Move

\* dispatch_pending only moves agents from their slots into turns.
LEMMA DispatchFacts ==
  ASSUME NEW f, ProcShape(f), NEW there, DispatchPending(f, there)
  PROVE  /\ ProcShape(proc')
         /\ \A p \in Procs : proc'[p] = f[p] \/ proc'[p].at = "task"
  <1>1. PICK S \in SUBSET {p \in Procs : f[p].at = "slot"} :
          proc' = [p \in Procs |-> IF p \in S THEN [f[p] EXCEPT !.at = "task"] ELSE f[p]]
    BY DEF DispatchPending
  <1>2. QED
    BY <1>1 DEF ProcShape

\* While the pool is awaited, a wake task is the only one and carries the attempt.
LEMMA TaskIsTheWake ==
  ASSUME Inv, Waiting, NEW t \in wakes
  PROVE  /\ lc.st = "Waking" /\ wakes = {t} /\ wakeChan = <<>>
         /\ DOMAIN t = {"attempt", "slot", "at"} /\ t.attempt = lc.attempt
         /\ \A p \in Procs : /\ proc[p].at # "waiting"
                             /\ proc[p].at = "wake" => /\ proc[p].by = t.attempt
                                                       /\ t.at \in {"spawn", "init", "send"}
  BY DEF Inv, Attempts, Owners, Nothing, Building, Arriving

\* Once the pool is there, and the main loop runs, only shapes have to be kept.
LEMMA ReadyIsSafe ==
  ASSUME Inv, ready, ready', phase' \in {"run", "break"}, UNCHANGED lc, DOMAIN respawn' = 1..Slots,
         ProcShape(proc'), NoneTaken,
         \A p \in Procs : proc'[p].at = "dropped" => proc[p].at \in {"dropped", "result"}, phase = "run"
  PROVE  Safe
  BY DEF Inv, Shapes, Attempts, Owners, Emptied, Waiting, ProcShape, Safe, CutOff, Lost, NoneTaken,
         AfterWakes, AfterWakeChan, AfterTurns, AfterLate, AfterIdle, AfterRespawns

\* A wake task goes on, and its processes stay or are given up.
LEMMA AdvanceIsSafe ==
  ASSUME Inv, NEW t \in wakes, NEW at, NEW slot, Advance(t, at, slot),
         UNCHANGED <<lc, ready, wakeChan, phase, respawn>>, ProcShape(proc'),
         \A p \in Procs : \/ proc'[p] = proc[p]
                          \/ /\ proc[p].at = "wake" /\ proc'[p].at \in {"reaped", "dropped"}
                          \/ /\ proc[p].at = "none" /\ proc'[p].at = "wake" /\ proc'[p].by = t.attempt,
         Waiting => \A p \in Procs : proc'[p].at = "wake" => at \in {"spawn", "init", "send"}
  PROVE  Safe
  <1>1. CutOff
    BY DEF CutOff, Lost
  <1>2. Shapes' /\ Emptied'
    <2>1. phase \notin AfterWakes
      BY DEF Inv, Emptied
    <2>2. QED
      BY <2>1 DEF Inv, Shapes, ProcShape, Emptied, AfterWakes, AfterWakeChan, AfterTurns, AfterLate,
           AfterIdle, AfterRespawns
  <1>3. CASE ~Waiting
    BY <1>1, <1>2, <1>3 DEF Inv, Attempts, Owners, Waiting, Safe
  <1>4. CASE Waiting
    <2>1. /\ lc.st = "Waking" /\ wakes = {t} /\ wakeChan = <<>>
          /\ DOMAIN t = {"attempt", "slot", "at"} /\ t.attempt = lc.attempt
          /\ \A p \in Procs : /\ proc[p].at # "waiting"
                              /\ proc[p].at = "wake" => proc[p].by = t.attempt
      BY <1>4, TaskIsTheWake
    <2>2. PICK u : u = [t EXCEPT !.at = at, !.slot = slot]
      OBVIOUS
    <2>3. wakes' = {u} /\ DOMAIN u = {"attempt", "slot", "at"} /\ u.attempt = t.attempt /\ u.at = at
      BY <2>1, <2>2 DEF Advance
    <2>4. Attempts'
      BY <2>1, <2>3 DEF Attempts, Building
    <2>5. Owners'
      <3>1. ASSUME NEW p \in Procs
            PROVE  /\ proc'[p].at \in {"none", "reaped", "dropped", "wake"}
                   /\ proc'[p].at = "wake" => u.at \in {"spawn", "init", "send"} /\ u.attempt = proc'[p].by
        BY <1>4, <2>1, <2>3 DEF Inv, Owners
      <3>2. QED
        BY <1>4, <2>3, <3>1 DEF Inv, Owners, Waiting
    <2>6. QED
      BY <1>1, <1>2, <2>4, <2>5 DEF Inv, Safe
  <1>5. QED
    BY <1>3, <1>4

-----------------------------------------------------------------------------
(* The steps                                                               *)

\* At the start nothing is under way.
LEMMA InvInit == Init => Inv
  <1> SUFFICES ASSUME Init PROVE Inv
    OBVIOUS
  <1>1. Shapes
    BY DEF Init, Shapes
  <1>2. Attempts /\ Emptied
    BY DEF Init, Attempts, Emptied, Waiting, Nothing, AfterWakes, AfterWakeChan,
         AfterTurns, AfterLate, AfterIdle, AfterRespawns
  <1>3. Owners
    BY DEF Init, Owners
  <1>4. QED
    BY <1>1, <1>2, <1>3 DEF Inv

\* A wake starts only when none is under way.
LEMMA StartStep ==
  ASSUME Inv, StartWake
  PROVE  Safe
  <1>1. Waiting /\ wakes = {} /\ wakeChan = <<>>
    BY DEF StartWake, WakeDue, Waiting, Inv, Attempts, Nothing
  <1>2. PICK u : u = [attempt |-> lc.attempt + 1, slot |-> 1, at |-> "spawn"]
    OBVIOUS
  <1>3. /\ wakes' = {u} /\ lc' = [st |-> "Waking", attempt |-> lc.attempt + 1, due |-> FALSE]
        /\ UNCHANGED <<ready, wakeChan, proc, respawn, phase>>
    BY <1>1, <1>2 DEF StartWake
  <1>4. DOMAIN u = {"attempt", "slot", "at"} /\ u.attempt = lc'.attempt
    BY <1>2, <1>3
  <1>5. Attempts'
    BY <1>1, <1>3, <1>4 DEF Attempts, Building
  <1>6. Owners'
    BY <1>1, <1>3 DEF Inv, Owners, Waiting
  <1>7. Shapes' /\ Emptied' /\ CutOff
    BY <1>1, <1>3 DEF Inv, Shapes, Emptied, Waiting, CutOff, Lost, AfterWakes, AfterWakeChan, AfterTurns,
         AfterLate, AfterIdle, AfterRespawns
  <1>8. QED
    BY <1>5, <1>6, <1>7 DEF Inv, Safe

\* A result that arrives is never stale: a pool is taken with all its processes, and a
\* failure has none.
LEMMA HandleWakeStep ==
  ASSUME Inv, HandleWake
  PROVE  Safe
  <1>1. Waiting /\ wakeChan # <<>>
    BY DEF HandleWake, Waiting
  <1>2. lc.st = "Waking" /\ wakes = {}
    BY <1>1 DEF Inv, Attempts, Nothing, Building, Arriving
  <1>3. PICK ok \in BOOLEAN : wakeChan = <<[attempt |-> lc.attempt, ok |-> ok]>>
    BY <1>1, <1>2 DEF Inv, Attempts, Building, Arriving
  <1>4. PICK r : r = [attempt |-> lc.attempt, ok |-> ok]
    OBVIOUS
  <1>5. Head(wakeChan) = r /\ Tail(wakeChan) = <<>> /\ r.attempt = lc.attempt /\ r.ok = ok
    BY <1>3, <1>4
  <1>6. PICK l : l = CompleteWake(lc.attempt, ok)
    OBVIOUS
  <1>7. DOMAIN l = {"st", "attempt", "due"} /\ l.st = (IF ok THEN "Ready" ELSE "Failed") /\ l # lc
    BY <1>2, <1>6 DEF CompleteWake, Inv, Shapes
  <1>8. PICK f : f = [p \in Procs |->
                      CASE proc[p].at = "waiting" /\ proc[p].by = r.attempt ->
                             [proc[p] EXCEPT !.at = IF ok THEN "slot" ELSE "dropped"]
                        [] ok /\ proc[p].at \in {"slot", "result"} -> [proc[p] EXCEPT !.at = "dropped"]
                        [] OTHER -> proc[p]]
    OBVIOUS
  <1>9. /\ lc' = IF ok THEN [l EXCEPT !.st = "Listening"] ELSE l
        /\ ready' = ok
        /\ IF ok THEN DispatchPending(f, work) ELSE proc' = f
        /\ wakeChan' = <<>> /\ UNCHANGED <<wakes, respawn, phase>>
    <2>1. (l # lc /\ r.ok) = ok
      BY <1>5, <1>7
    <2>2. QED
      BY <1>5, <1>6, <1>8, <2>1, Zenon DEF HandleWake
  <1>10. \A p \in Procs : /\ proc[p].at \notin {"slot", "result"}
                          /\ proc[p].at = "waiting" => ok /\ proc[p].by = lc.attempt
    <2>1. ASSUME NEW p \in Procs, proc[p].at = "waiting"
          PROVE  ok /\ proc[p].by = lc.attempt
      <3>1. wakeChan = <<[attempt |-> proc[p].by, ok |-> TRUE]>>
        BY <1>1, <2>1 DEF Inv, Owners
      <3>2. [attempt |-> proc[p].by, ok |-> TRUE] = [attempt |-> lc.attempt, ok |-> ok]
        <4> DEFINE a == [attempt |-> proc[p].by, ok |-> TRUE]
                   b == [attempt |-> lc.attempt, ok |-> ok]
        <4>1. <<a>> = <<b>>
          BY <1>3, <3>1
        <4> HIDE DEF a, b
        <4>2. a = b
          BY <4>1
        <4>3. QED
          BY <4>2 DEF a, b
      <3>3. QED
        BY <3>2
    <2>2. QED
      BY <1>1, <2>1 DEF Inv, Owners
  <1>11. /\ ProcShape(f)
         /\ \A p \in Procs : \/ f[p] = proc[p] /\ proc[p].at # "waiting"
                             \/ proc[p].at = "waiting" /\ ok /\ f[p].at = "slot"
    <2>1. ASSUME NEW p \in Procs, proc[p].at = "waiting"
          PROVE  f[p] = [proc[p] EXCEPT !.at = "slot"]
      BY <1>5, <1>8, <1>10, <2>1, Zenon
    <2>2. ASSUME NEW p \in Procs, proc[p].at # "waiting"
          PROVE  f[p] = proc[p]
      BY <1>8, <1>10, <2>2, Zenon
    <2>3. DOMAIN f = Procs
      BY <1>8
    <2>4. QED
      BY <1>10, <2>1, <2>2, <2>3 DEF ProcShape, Inv, Shapes
  <1>12. ProcShape(proc') /\ \A p \in Procs : proc'[p] = f[p] \/ proc'[p].at = "task"
    BY <1>9, <1>11, DispatchFacts
  <1>13. CutOff
    BY <1>11, <1>12 DEF CutOff, Lost
  <1>14. Shapes' /\ Emptied'
    <2>1. \A p \in Procs : proc'[p].at = "reaping" => proc[p].at = "reaping"
      BY <1>11, <1>12
    <2>2. QED
      BY <1>1, <1>7, <1>9, <1>12, <2>1 DEF Inv, Shapes, ProcShape, Emptied, Waiting, AfterWakes,
         AfterWakeChan, AfterTurns, AfterLate, AfterIdle, AfterRespawns
  <1>15. Attempts' /\ Owners'
    <2>1. CASE ok
      BY <1>9, <2>1 DEF Attempts, Owners, Waiting
    <2>2. CASE ~ok
      <3>1. /\ proc' = f /\ \A p \in Procs : proc'[p] = proc[p] /\ proc[p].at # "waiting"
            /\ lc'.st = "Failed" /\ wakes' = {} /\ wakeChan' = <<>>
        BY <1>2, <1>7, <1>9, <1>11, <2>2
      <3>2. Attempts'
        BY <3>1 DEF Attempts, Nothing
      <3>3. Owners'
        BY <1>1, <1>2, <1>9, <3>1 DEF Inv, Owners, Waiting
      <3>4. QED
        BY <3>2, <3>3
    <2>3. QED
      BY <2>1, <2>2
  <1>16. QED
    BY <1>13, <1>14, <1>15 DEF Inv, Safe

\* The panic of a wake task is found when it is the wake under way.
LEMMA HandleWakePanicStep ==
  ASSUME Inv, HandleWakePanic
  PROVE  Safe
  <1>1. PICK t \in wakes : t.at = "panicked" /\ wakes' = wakes \ {t}
    BY DEF HandleWakePanic
  <1>2. /\ phase = "run" /\ lc' = CompleteWake(lc.attempt, FALSE)
        /\ UNCHANGED <<ready, wakeChan, proc, respawn, phase>>
    BY DEF HandleWakePanic
  <1>3. Shapes' /\ Emptied' /\ CutOff
    BY <1>2 DEF Inv, Shapes, CompleteWake, Emptied, CutOff, Lost, AfterWakes, AfterWakeChan, AfterTurns, AfterLate,
         AfterIdle, AfterRespawns
  <1>4. CASE ~Waiting
    BY <1>2, <1>3, <1>4 DEF Inv, Attempts, Owners, Waiting, Safe
  <1>5. CASE Waiting
    <2>1. /\ lc.st = "Waking" /\ wakes = {t} /\ wakeChan = <<>>
          /\ \A p \in Procs : proc[p].at \notin {"wake", "waiting"}
      BY <1>1, <1>5, TaskIsTheWake
    <2>2. lc'.st = "Failed" /\ wakes' = {}
      BY <1>1, <1>2, <2>1 DEF CompleteWake, Inv, Shapes
    <2>3. Attempts'
      BY <1>2, <2>1, <2>2 DEF Attempts, Nothing
    <2>4. Owners'
      BY <1>2, <1>5, <2>1 DEF Inv, Owners, Waiting
    <2>5. QED
      BY <1>3, <2>3, <2>4 DEF Inv, Safe
  <1>6. QED
    BY <1>4, <1>5

\* The steps of a wake task.
LEMMA WakeTaskStep ==
  ASSUME Inv, NEW t \in wakes, WakeStep(t) \/ WakeFault(t)
  PROVE  Safe
  <1>1. ASSUME WakeSpawns(t)
        PROVE  Safe
    <2>1. PICK q \in Unused : proc' = [proc EXCEPT ![q] = [at |-> "wake", slot |-> t.slot, by |-> t.attempt]]
      BY <1>1 DEF WakeSpawns
    <2>2. q \in Procs /\ proc[q].at = "none"
      BY DEF Unused, At
    <2>3. /\ ProcShape(proc')
          /\ \A p \in Procs : \/ proc'[p] = proc[p]
                              \/ /\ proc[p].at = "none" /\ proc'[p].at = "wake" /\ proc'[p].by = t.attempt
      BY <2>1, <2>2 DEF ProcShape, Inv, Shapes
    <2>4. Advance(t, "init", t.slot) /\ UNCHANGED <<lc, ready, wakeChan, phase, respawn>>
      BY <1>1 DEF WakeSpawns
    <2>5. QED
      BY <2>3, <2>4, AdvanceIsSafe
  <1>2. ASSUME WakeSpawnFails(t) \/ WakeInits(t)
        PROVE  Safe
    <2>1. Advance(t, "spawn", t.slot + 1) /\ UNCHANGED <<lc, ready, wakeChan, phase, respawn, proc>>
      BY <1>2 DEF WakeSpawnFails, WakeInits
    <2>2. ProcShape(proc')
      BY <2>1 DEF ProcShape, Inv, Shapes
    <2>3. QED
      BY <2>1, <2>2, AdvanceIsSafe
  <1>3. ASSUME WakeInitFails(t)
        PROVE  Safe
    <2>1. /\ Advance(t, "spawn", t.slot + 1) /\ UNCHANGED <<lc, ready, wakeChan, phase, respawn>>
          /\ \E S : proc' = Move("wake", "reaped", S)
      BY <1>3 DEF WakeInitFails
    <2>2. /\ ProcShape(proc')
          /\ \A p \in Procs : proc'[p] = proc[p] \/ (proc[p].at = "wake" /\ proc'[p].at = "reaped")
      BY <2>1, MoveFacts
    <2>3. QED
      BY <2>1, <2>2, AdvanceIsSafe
  <1>4. ASSUME WakeStops(t) \/ WakePanics(t)
        PROVE  Safe
    <2>1. PICK at \in {"failed", "panicked"}, to \in {"reaped", "dropped"} :
            /\ Advance(t, at, t.slot) /\ proc' = Move("wake", to, OfWake(t.attempt))
            /\ UNCHANGED <<lc, ready, wakeChan, phase, respawn>>
      BY <1>4 DEF WakeStops, WakePanics
    <2>2. /\ ProcShape(proc')
          /\ \A p \in Procs : \/ proc'[p] = proc[p] /\ p \notin OfWake(t.attempt)
                              \/ proc[p].at = "wake" /\ proc'[p].at \in {"reaped", "dropped"}
      BY <2>1, MoveFacts DEF OfWake, At
    <2>3. Waiting => \A p \in Procs : proc'[p].at # "wake"
      BY <2>2, TaskIsTheWake DEF OfWake, At
    <2>4. QED
      BY <2>1, <2>2, <2>3, AdvanceIsSafe
  <1>5. ASSUME WakeBuilt(t)
        PROVE  Safe
    <2>1. PICK at : /\ at = IF OfWake(t.attempt) = {} THEN "failed" ELSE "send"
                    /\ Advance(t, at, t.slot)
      BY <1>5 DEF WakeBuilt
    <2>2. UNCHANGED <<lc, ready, wakeChan, phase, respawn, proc>>
      BY <1>5 DEF WakeBuilt
    <2>3. ProcShape(proc')
      BY <2>2 DEF ProcShape, Inv, Shapes
    <2>4. Waiting => \A p \in Procs : proc'[p].at = "wake" => at \in {"spawn", "init", "send"}
      BY <2>1, <2>2, TaskIsTheWake DEF OfWake, At
    <2>5. QED
      BY <2>1, <2>2, <2>3, <2>4, AdvanceIsSafe
  <1>6. ASSUME WakeSends(t)
        PROVE  Safe
    <2>1. /\ wakeChan = <<>> /\ wakeChan' = <<[attempt |-> t.attempt, ok |-> t.at = "send"]>>
          /\ proc' = Move("wake", "waiting", OfWake(t.attempt)) /\ wakes' = wakes \ {t}
          /\ t.at \in {"send", "failed"}
          /\ UNCHANGED <<lc, ready, respawn, phase>>
      BY <1>6 DEF WakeSends
    <2>2. /\ ProcShape(proc')
          /\ \A p \in Procs : \/ proc'[p] = proc[p] /\ p \notin OfWake(t.attempt)
                              \/ /\ proc[p].at = "wake" /\ proc'[p].at = "waiting"
                                 /\ proc'[p].by = proc[p].by
      BY <2>1, MoveFacts DEF OfWake, At
    <2>3. Shapes' /\ Emptied' /\ CutOff
      <3>1. phase \notin AfterWakes
        BY DEF Inv, Emptied
      <3>2. QED
        BY <2>1, <2>2, <3>1 DEF Inv, Shapes, ProcShape, Emptied, CutOff, Lost, AfterWakes, AfterWakeChan,
           AfterTurns, AfterLate, AfterIdle, AfterRespawns
    <2>4. CASE ~Waiting
      BY <2>1, <2>3, <2>4 DEF Inv, Attempts, Owners, Waiting, Safe
    <2>5. CASE Waiting
      <3>1. /\ lc.st = "Waking" /\ wakes = {t} /\ t.attempt = lc.attempt
            /\ \A p \in Procs : /\ proc[p].at # "waiting"
                                /\ proc[p].at = "wake" => proc[p].by = t.attempt /\ t.at # "failed"
        BY <2>5, TaskIsTheWake
      <3>2. wakes' = {}
        BY <2>1, <3>1
      <3>3. Attempts'
        BY <2>1, <3>1, <3>2 DEF Attempts, Arriving
      <3>4. ASSUME NEW p \in Procs
            PROVE  /\ proc'[p].at \in {"none", "reaped", "dropped", "waiting"}
                   /\ proc'[p].at = "waiting" => wakeChan' = <<[attempt |-> proc'[p].by, ok |-> TRUE]>>
        <4>1. CASE proc[p].at = "wake"
          <5>1. t.at = "send" /\ proc'[p].at = "waiting" /\ proc'[p].by = t.attempt
            BY <2>1, <2>2, <3>1, <4>1 DEF OfWake, At
          <5>2. QED
            BY <2>1, <5>1
        <4>2. CASE proc[p].at # "wake"
          BY <2>2, <2>5, <3>1, <4>2 DEF Inv, Owners
        <4>3. QED
          BY <4>1, <4>2
      <3>5. Owners'
        BY <2>1, <2>5, <3>4 DEF Inv, Owners, Waiting
      <3>6. QED
        BY <2>3, <3>3, <3>5 DEF Inv, Safe
    <2>6. QED
      BY <2>4, <2>5
  <1>7. QED
    BY <1>1, <1>2, <1>3, <1>4, <1>5, <1>6 DEF WakeStep, WakeFault

\* The steps of the main loop that give work to agents: there is a pool.
LEMMA MainLoopStep ==
  ASSUME Inv,
         \/ Dispatch \/ Collect \/ Refill
         \/ \E p \in Procs : AgentReturns(p) \/ AgentCrashed(p)
         \/ \E i \in 1..Slots : HandlePanic(i)
  PROVE  Safe
  <1>1. phase = "run" /\ UNCHANGED <<lc, ready>>
    BY DEF Dispatch, Collect, Refill, AgentReturns, AgentCrashed, HandlePanic
  <1>2. ready
    BY <1>1 DEF Inv, Owners, Waiting, Dispatch, Collect, Refill, AgentReturns, AgentCrashed, HandlePanic
  <1>3. ProcShape(proc)
    BY DEF Inv, Shapes, ProcShape
  <1>4. ASSUME NEW f, ProcShape(f),
               \A p \in Procs : f[p].at = "dropped" => proc[p].at \in {"dropped", "result"},
               \A p \in Procs : f[p].at = "reaping" => proc[p].at = "reaping",
               proc' = f \/ (\E there : DispatchPending(f, there)),
               phase' \in {"run", "break"}, DOMAIN respawn' = 1..Slots
        PROVE  Safe
    <2>1. ProcShape(proc') /\ \A p \in Procs : proc'[p] = f[p] \/ proc'[p].at = "task"
      BY <1>4, DispatchFacts
    <2>2. QED
      BY <1>1, <1>2, <1>4, <2>1, ReadyIsSafe DEF NoneTaken
  <1>5. CASE Dispatch
    <2>1. (\E there : DispatchPending(proc, there)) /\ UNCHANGED <<respawn, phase>>
      BY <1>5 DEF Dispatch
    <2>2. QED
      BY <1>1, <1>3, <1>4, <2>1 DEF Inv, Shapes
  <1>6. CASE Refill
    <2>1. (\E there : DispatchPending(proc, there)) /\ UNCHANGED phase /\ DOMAIN respawn' = 1..Slots
      BY <1>6 DEF Refill
    <2>2. QED
      BY <1>1, <1>3, <1>4, <2>1
  <1>7. CASE Collect
    <2>1. UNCHANGED phase /\ DOMAIN respawn' = 1..Slots
      BY <1>7 DEF Collect
    <2>2. CASE At("respawned") = {}
      BY <1>1, <1>3, <1>4, <1>7, <2>1, <2>2 DEF Collect
    <2>3. CASE At("respawned") # {}
      <3>1. PICK f : f = Move("respawned", "slot", At("respawned"))
        OBVIOUS
      <3>2. \E there : DispatchPending(f, there)
        BY <1>7, <2>3, <3>1 DEF Collect
      <3>3. /\ ProcShape(f)
            /\ \A p \in Procs : f[p].at = "dropped" => proc[p].at \in {"dropped", "result"}
            /\ \A p \in Procs : f[p].at = "reaping" => proc[p].at = "reaping"
        BY <3>1, MoveFacts
      <3>4. QED
        BY <1>1, <1>4, <2>1, <3>2, <3>3
    <2>4. QED
      BY <2>2, <2>3
  <1>8. ASSUME NEW q \in Procs, AgentReturns(q)
        PROVE  Safe
    <2>1. PICK f : f = [proc EXCEPT ![q].at = "slot"]
      OBVIOUS
    <2>2. (\E there : DispatchPending(f, there)) /\ UNCHANGED <<respawn, phase>>
      BY <1>8, <2>1 DEF AgentReturns
    <2>3. /\ ProcShape(f)
          /\ \A p \in Procs : f[p].at = "dropped" => proc[p].at \in {"dropped", "result"}
          /\ \A p \in Procs : f[p].at = "reaping" => proc[p].at = "reaping"
      BY <1>3, <2>1 DEF ProcShape
    <2>4. QED
      BY <1>1, <1>4, <2>2, <2>3 DEF Inv, Shapes
  <1>9. ASSUME NEW f, NEW r, ExitOrDispatch(f, r)
        PROVE  /\ respawn' = r /\ (phase' = "break" \/ phase' = phase)
               /\ proc' = f \/ (\E there : DispatchPending(f, there))
    BY <1>9 DEF ExitOrDispatch
  <1>10. ASSUME NEW q \in Procs, AgentCrashed(q)
         PROVE  Safe
    <2>1. PICK f, r : /\ ExitOrDispatch(f, r) /\ DOMAIN r = DOMAIN respawn
                      /\ \E to \in {"old", "dropped"} : f = [proc EXCEPT ![q].at = to]
      <3>1. DOMAIN [respawn EXCEPT ![proc[q].slot] = "reap"] = DOMAIN respawn
        OBVIOUS
      <3>2. QED
        BY <1>10, <3>1 DEF AgentCrashed
    <2>2. proc[q].at = "result"
      BY <1>10 DEF AgentCrashed
    <2>3. /\ ProcShape(f)
          /\ \A p \in Procs : f[p].at = "dropped" => proc[p].at \in {"dropped", "result"}
          /\ \A p \in Procs : f[p].at = "reaping" => proc[p].at = "reaping"
      BY <1>3, <2>1, <2>2 DEF ProcShape
    <2>4. /\ proc' = f \/ (\E there : DispatchPending(f, there))
          /\ phase' \in {"run", "break"} /\ DOMAIN respawn' = 1..Slots
      BY <1>1, <1>9, <2>1 DEF Inv, Shapes
    <2>5. QED
      BY <1>4, <2>3, <2>4
  <1>11. ASSUME NEW i \in 1..Slots, HandlePanic(i)
         PROVE  Safe
    <2>1. PICK r : ExitOrDispatch(proc, r) /\ DOMAIN r = DOMAIN respawn
      BY <1>11 DEF HandlePanic
    <2>2. QED
      BY <1>1, <1>3, <1>4, <1>9, <2>1 DEF Inv, Shapes
  <1>12. QED
    BY <1>5, <1>6, <1>7, <1>8, <1>10, <1>11

\* The steps of turns and of respawn tasks: there is a pool, or there was one.
LEMMA AgentStep ==
  ASSUME Inv,
         \/ \E p \in Procs : TaskEnds(p) \/ TaskPanics(p) \/ ResultTaken(p) \/ ResultReaped(p)
         \/ \E i \in 1..Slots : \/ RespawnReaps(i) \/ RespawnSpawns(i)
                                \/ \E ok \in BOOLEAN : RespawnDone(i, ok)
  PROVE  Safe
  <1>1. UNCHANGED <<lc, ready, phase, wakes, wakeChan>> /\ ~Waiting
    BY DEF Inv, Owners, Waiting, TaskEnds, TaskPanics, ResultTaken, ResultReaped,
         RespawnReaps, RespawnSpawns, RespawnDone
  <1>2. ASSUME ProcShape(proc'), DOMAIN respawn' = 1..Slots, Emptied', CutOff
        PROVE  Safe
    BY <1>1, <1>2 DEF Inv, Shapes, ProcShape, Attempts, Owners, Waiting, Safe
  <1>3. ASSUME NEW q \in Procs, TaskEnds(q) \/ TaskPanics(q) \/ ResultReaped(q)
        PROVE  Safe
    <2>1. PICK to \in {"result", "dropped", "reaped"} :
            /\ proc' = [proc EXCEPT ![q].at = to]
            /\ to # "reaped" => proc[q].at = "task"
            /\ DOMAIN respawn' = 1..Slots
            /\ \A i \in 1..Slots : respawn'[i] \in {respawn[i], "panicked"}
      BY <1>3 DEF TaskEnds, TaskPanics, ResultReaped, Inv, Shapes
    <2>2. /\ ProcShape(proc') /\ proc'[q].at = to
          /\ \A p \in Procs \ {q} : proc'[p] = proc[p]
      BY <2>1 DEF ProcShape, Inv, Shapes
    <2>3. Emptied'
      BY <1>1, <2>1, <2>2 DEF Inv, Emptied, AfterWakes, AfterWakeChan, AfterTurns, AfterLate, AfterIdle,
           AfterRespawns
    <2>4. CutOff
      BY <1>3, <2>1, <2>2 DEF CutOff, Lost, ResultReaped
    <2>5. QED
      BY <1>2, <2>1, <2>2, <2>3, <2>4
  <1>4. ASSUME NEW i \in 1..Slots, NEW to, respawn' = [respawn EXCEPT ![i] = to],
               respawn[i] \in {"reap", "spawn", "init"}, ProcShape(proc'),
               \A p \in Procs : \/ proc'[p] = proc[p]
                                \/ proc'[p].at \in {"reaped", "new", "respawned"}
        PROVE  Safe
    <2>1. phase \notin AfterRespawns
      BY <1>4 DEF Inv, Emptied
    <2>2. Emptied'
      BY <1>1, <1>4, <2>1 DEF Inv, Emptied, AfterWakes, AfterWakeChan, AfterTurns, AfterLate, AfterIdle,
           AfterRespawns
    <2>3. DOMAIN respawn' = 1..Slots /\ CutOff
      BY <1>4 DEF CutOff, Lost, Inv, Shapes
    <2>4. QED
      BY <1>2, <1>4, <2>2, <2>3
  <1>5. ASSUME NEW i \in 1..Slots, RespawnReaps(i)
        PROVE  Safe
    <2>1. ProcShape(proc') /\ \A p \in Procs : proc'[p] = proc[p] \/ proc'[p].at = "reaped"
      BY <1>5, MoveFacts DEF RespawnReaps
    <2>2. QED
      BY <1>4, <1>5, <2>1 DEF RespawnReaps
  <1>6. ASSUME NEW i \in 1..Slots, RespawnSpawns(i)
        PROVE  Safe
    <2>1. ProcShape(proc') /\ \A p \in Procs : proc'[p] = proc[p] \/ proc'[p].at = "new"
      BY <1>6 DEF RespawnSpawns, ProcShape, Inv, Shapes, Unused, At
    <2>2. QED
      BY <1>4, <1>6, <2>1 DEF RespawnSpawns
  <1>7. ASSUME NEW i \in 1..Slots, NEW ok \in BOOLEAN, RespawnDone(i, ok)
        PROVE  Safe
    <2>1. PICK to \in {"respawned", "reaped"} : proc' = Move("new", to, NewOf(i))
      BY <1>7 DEF RespawnDone
    <2>2. ProcShape(proc') /\ \A p \in Procs : proc'[p] = proc[p] \/ proc'[p].at \in {"respawned", "reaped"}
      BY <2>1, MoveFacts
    <2>3. QED
      BY <1>4, <1>7, <2>2 DEF RespawnDone
  <1>8. ASSUME NEW q \in Procs, ResultTaken(q)
        PROVE  Safe
    <2>1. /\ proc' = [proc EXCEPT ![q].at = "reaping"] /\ phase = "turns" /\ respawn' = respawn
          /\ \A p \in Procs : proc[p].at # "reaping"
      BY <1>8 DEF ResultTaken, At
    <2>2. /\ ProcShape(proc') /\ proc'[q].at = "reaping"
          /\ \A p \in Procs \ {q} : proc'[p] = proc[p]
      BY <2>1 DEF ProcShape, Inv, Shapes
    <2>3. Emptied'
      BY <1>1, <2>1, <2>2 DEF Inv, Emptied, AfterWakes, AfterWakeChan, AfterTurns, AfterLate, AfterIdle,
           AfterRespawns
    <2>4. DOMAIN respawn' = 1..Slots /\ CutOff
      BY <2>1, <2>2 DEF CutOff, Lost, Inv, Shapes
    <2>5. QED
      BY <1>2, <2>2, <2>3, <2>4
  <1>9. QED
    BY <1>3, <1>5, <1>6, <1>7, <1>8

\* The shutdown, phase by phase.
LEMMA ShutdownStep ==
  ASSUME Inv, MainShutdown \/ Timeouts
  PROVE  Safe
  <1>1. ASSUME ProcShape(proc'), DOMAIN respawn' = 1..Slots, Emptied', CutOff, phase' # "run",
               UNCHANGED <<lc, ready>>
        PROVE  Safe
    BY <1>1 DEF Inv, Shapes, ProcShape, Attempts, Owners, Waiting, Safe
  <1>2. CASE LoopEnds
    BY <1>1, <1>2 DEF LoopEnds, Inv, Shapes, ProcShape, Emptied, CutOff, Lost, AfterWakes, AfterWakeChan,
         AfterTurns, AfterLate, AfterIdle, AfterRespawns
  <1>3. CASE WakesDrained \/ TurnsDrained
    <2>1. UNCHANGED <<proc, respawn, lc, ready>>
      BY <1>3 DEF WakesDrained, TurnsDrained, Goes
    <2>2. Emptied' /\ phase' # "run"
      BY <1>3 DEF WakesDrained, TurnsDrained, Goes, At, Inv, Emptied, AfterWakes, AfterWakeChan,
         AfterTurns, AfterLate, AfterIdle, AfterRespawns
    <2>3. QED
      BY <1>1, <2>1, <2>2 DEF Inv, Shapes, ProcShape, CutOff, Lost
  <1>4. ASSUME NEW from, NEW to, proc' = Move(from, to, At(from)),
               to = "dropped" => from \in {"wake", "task"}, to \in {"reaped", "dropped"}
        PROVE  /\ ProcShape(proc') /\ CutOff
               /\ \A p \in Procs : \/ proc'[p] = proc[p] /\ proc[p].at # from
                                   \/ proc'[p].at \in {"reaped", "dropped"}
    <2>1. /\ ProcShape(proc')
          /\ \A p \in Procs : \/ proc'[p] = proc[p] /\ proc[p].at # from
                              \/ proc[p].at = from /\ proc'[p].at = to
      BY <1>4, MoveFacts DEF At
    <2>2. QED
      BY <1>4, <2>1 DEF CutOff, Lost
  <1>5. CASE WakesAborted
    <2>1. /\ proc' = Move("wake", "dropped", At("wake")) /\ wakes' = {} /\ phase' = "wakeChan"
          /\ UNCHANGED <<respawn, lc, ready>>
      BY <1>5 DEF WakesAborted, Goes
    <2>2. Emptied'
      BY <1>4, <2>1 DEF Inv, Emptied, AfterWakes, AfterWakeChan, AfterTurns, AfterLate, AfterIdle, AfterRespawns
    <2>3. QED
      BY <1>1, <1>4, <2>1, <2>2 DEF Inv, Shapes
  <1>6. CASE WakeChanDrained
    <2>1. /\ proc' = Move("waiting", "reaped", At("waiting")) /\ phase = "wakeChan" /\ phase' = "turns"
          /\ UNCHANGED <<wakes, respawn, lc, ready>>
      BY <1>6 DEF WakeChanDrained
    <2>2. Emptied'
      BY <1>4, <2>1 DEF Inv, Emptied, AfterWakes, AfterWakeChan, AfterTurns, AfterLate, AfterIdle, AfterRespawns
    <2>3. QED
      BY <1>1, <1>4, <2>1, <2>2 DEF Inv, Shapes
  <1>7. CASE GraceOver
    <2>1. /\ proc' = [p \in Procs |-> IF p \in CutShort
                                      THEN [proc[p] EXCEPT !.at = "dropped"] ELSE proc[p]]
          /\ phase = "turns" /\ phase' = "late" /\ UNCHANGED <<wakes, respawn, lc, ready>>
      BY <1>7 DEF GraceOver, Goes
    <2>2. /\ ProcShape(proc')
          /\ \A p \in Procs : \/ proc'[p] = proc[p] /\ proc[p].at \notin {"task", "reaping"}
                              \/ proc[p].at \in {"task", "reaping"} /\ proc'[p].at = "dropped"
      BY <2>1 DEF CutShort, At, ProcShape, Inv, Shapes
    <2>3. Emptied' /\ CutOff
      BY <2>1, <2>2 DEF Inv, Emptied, CutOff, Lost, AfterWakes, AfterWakeChan, AfterTurns, AfterLate, AfterIdle,
           AfterRespawns
    <2>4. QED
      BY <1>1, <2>1, <2>2, <2>3 DEF Inv, Shapes
  <1>8. CASE LateResultsReaped
    <2>1. /\ proc' = Move("result", "reaped", At("result")) /\ phase = "late" /\ phase' = "idle"
          /\ UNCHANGED <<wakes, respawn, lc, ready>>
      BY <1>8 DEF LateResultsReaped, Goes
    <2>2. Emptied'
      BY <1>4, <2>1 DEF Inv, Emptied, AfterWakes, AfterWakeChan, AfterTurns, AfterLate, AfterIdle, AfterRespawns
    <2>3. QED
      BY <1>1, <1>4, <2>1, <2>2 DEF Inv, Shapes
  <1>9. CASE IdleReaped
    <2>1. /\ proc' = Move("slot", "reaped", At("slot")) /\ phase = "idle" /\ phase' = "respawns"
          /\ UNCHANGED <<wakes, respawn, lc, ready>>
      BY <1>9 DEF IdleReaped, Goes
    <2>2. Emptied'
      BY <1>4, <2>1 DEF Inv, Emptied, AfterWakes, AfterWakeChan, AfterTurns, AfterLate, AfterIdle, AfterRespawns
    <2>3. QED
      BY <1>1, <1>4, <2>1, <2>2 DEF Inv, Shapes
  <1>10. CASE RespawnsAborted
    <2>1. /\ proc' = [p \in Procs |-> IF proc[p].at \in {"old", "new"}
                                      THEN [proc[p] EXCEPT !.at = "dropped"] ELSE proc[p]]
          /\ respawn' = [i \in 1..Slots |-> IF respawn[i] \in {"reap", "spawn", "init"}
                                            THEN "failed" ELSE respawn[i]]
          /\ phase = "respawns" /\ phase' = "respawned" /\ UNCHANGED <<wakes, lc, ready>>
      BY <1>10 DEF RespawnsAborted, Goes
    <2>2. /\ ProcShape(proc') /\ CutOff
          /\ \A p \in Procs : \/ proc'[p] = proc[p] /\ proc[p].at \notin {"old", "new"}
                              \/ proc'[p].at = "dropped"
      BY <2>1 DEF ProcShape, CutOff, Lost, Inv, Shapes
    <2>3. DOMAIN respawn' = 1..Slots /\ \A i \in 1..Slots : respawn'[i] \notin {"reap", "spawn", "init"}
      BY <2>1
    <2>4. Emptied'
      BY <2>1, <2>2, <2>3 DEF Inv, Emptied, AfterWakes, AfterWakeChan, AfterTurns, AfterLate, AfterIdle,
           AfterRespawns
    <2>5. QED
      BY <1>1, <2>1, <2>2, <2>3, <2>4
  <1>11. CASE RespawnedReaped
    <2>1. /\ proc' = Move("respawned", "reaped", At("respawned"))
          /\ phase = "respawned" /\ phase' = "exit"
          /\ respawn' = [i \in 1..Slots |-> "none"] /\ UNCHANGED <<wakes, lc, ready>>
      BY <1>11 DEF RespawnedReaped, Goes
    <2>2. Emptied'
      BY <1>4, <2>1 DEF Inv, Emptied, AfterWakes, AfterWakeChan, AfterTurns, AfterLate, AfterIdle, AfterRespawns
    <2>3. QED
      BY <1>1, <1>4, <2>1, <2>2
  <1>12. CASE Returns
    <2>1. /\ proc' = [p \in Procs |-> IF proc[p].at \in Live
                                      THEN [proc[p] EXCEPT !.at = "dropped"] ELSE proc[p]]
          /\ phase = "exit" /\ phase' = "done" /\ UNCHANGED <<wakes, respawn, lc, ready>>
      BY <1>12 DEF Returns, Goes
    <2>2. ProcShape(proc') /\ \A p \in Procs : proc'[p] = proc[p] \/ proc'[p].at = "dropped"
      BY <2>1 DEF ProcShape, Inv, Shapes
    <2>3. \A p \in Procs : proc'[p].at = "dropped" /\ proc[p].at # "dropped" => proc[p].at \in Live
      BY <2>1
    <2>4. CutOff
      BY <2>1, <2>3 DEF CutOff, Lost, Live, Inv, Emptied, AfterWakes, AfterWakeChan, AfterTurns, AfterLate, AfterIdle,
           AfterRespawns
    <2>5. Emptied'
      BY <2>1, <2>2 DEF Inv, Emptied, AfterWakes, AfterWakeChan, AfterTurns, AfterLate, AfterIdle,
           AfterRespawns
    <2>6. QED
      BY <1>1, <2>1, <2>2, <2>4, <2>5 DEF Inv, Shapes
  <1>13. QED
    BY <1>2, <1>3, <1>5, <1>6, <1>7, <1>8, <1>9, <1>10, <1>11, <1>12 DEF MainShutdown, Timeouts

\* Every step keeps the invariant, and cuts off only what may be cut off.
LEMMA InvStep ==
  ASSUME Inv, [Next]_vars
  PROVE  Inv' /\ [CutOff /\ OneReap]_vars
  <1>0. OneReap
    BY DEF Inv, Emptied, OneReap, Lost
  <1>1. CASE WorkChanges \/ RetryDue \/ Signal
    <2>1. /\ UNCHANGED <<ready, wakes, wakeChan, proc, respawn, phase>>
          /\ DOMAIN lc' = DOMAIN lc /\ lc'.attempt = lc.attempt /\ lc'.st = lc.st
      BY <1>1 DEF WorkChanges, RetryDue, Signal, Inv, Shapes
    <2>2. Shapes' /\ Emptied' /\ Owners' /\ CutOff
      BY <2>1 DEF Inv, Shapes, Emptied, Owners, Waiting, CutOff, Lost
    <2>3. Attempts'
      BY <2>1 DEF Inv, Attempts, Waiting, Nothing, Building, Arriving
    <2>4. QED
      BY <1>0, <2>2, <2>3 DEF Inv
  <1>2. CASE UNCHANGED vars
    <2>1. UNCHANGED <<lc, ready, wakes, wakeChan, proc, respawn, phase>>
      BY <1>2 DEF vars
    <2>2. Shapes' /\ Emptied' /\ Owners'
      BY <2>1 DEF Inv, Shapes, Emptied, Owners, Waiting
    <2>3. Attempts'
      BY <2>1 DEF Inv, Attempts, Waiting, Nothing, Building, Arriving
    <2>4. QED
      BY <1>2, <2>2, <2>3 DEF Inv
  <1>3. CASE /\ Next /\ ~(WorkChanges \/ RetryDue \/ Signal) /\ ~UNCHANGED vars
    <2>1. Safe
      BY <1>3, StartStep, HandleWakeStep, HandleWakePanicStep, WakeTaskStep, MainLoopStep, AgentStep,
         ShutdownStep DEF Next, Stopped
    <2>2. QED
      BY <1>0, <2>1 DEF Safe
  <1>4. QED
    BY <1>1, <1>2, <1>3

\* While the pool is awaited the invariant says what OneWake does.
LEMMA InvOneWake == Inv => OneWake
  <1> SUFFICES ASSUME Inv, Waiting
               PROVE  LET carried == {t.attempt : t \in wakes} \cup {wakeChan[n].attempt : n \in 1..Len(wakeChan)}
                      IN /\ carried = IF lc.st = "Waking" THEN {lc.attempt} ELSE {}
                         /\ Cardinality(wakes) + Len(wakeChan) <= 1
    BY DEF OneWake, Waiting
  <1>1. Cardinality({}) = 0 /\ \A t : Cardinality({t}) = 1
    BY FS_EmptySet, FS_Singleton
  <1>2. CASE lc.st # "Waking"
    <2>1. wakes = {} /\ wakeChan = <<>>
      BY <1>2 DEF Inv, Attempts, Nothing
    <2>2. QED
      BY <1>1, <1>2, <2>1
  <1>3. CASE lc.st = "Waking" /\ Building
    <2>1. PICK t : wakes = {t} /\ t.attempt = lc.attempt /\ wakeChan = <<>>
      BY <1>3 DEF Building
    <2>2. {u.attempt : u \in wakes} = {lc.attempt} /\ Len(wakeChan) = 0 /\ 1..0 = {}
      BY <2>1
    <2>3. {wakeChan[n].attempt : n \in 1..Len(wakeChan)} = {}
      BY <2>2
    <2>4. Cardinality(wakes) = 1
      BY <1>1, <2>1, Zenon
    <2>5. QED
      BY <1>3, <2>2, <2>3, <2>4
  <1>4. CASE lc.st = "Waking" /\ Arriving
    <2>1. PICK r : wakes = {} /\ wakeChan = <<r>> /\ r.attempt = lc.attempt
      BY <1>4 DEF Arriving
    <2>2. Len(wakeChan) = 1 /\ wakeChan[1] = r /\ 1..1 = {1}
      BY <2>1
    <2>3. {wakeChan[n].attempt : n \in 1..Len(wakeChan)} = {lc.attempt}
      BY <2>1, <2>2
    <2>4. QED
      BY <1>1, <1>4, <2>1, <2>2, <2>3
  <1>5. QED
    BY <1>2, <1>3, <1>4 DEF Inv, Attempts

\* pool_lifecycle.rs and the shutdown of lib.rs, for any number of slots, processes and
\* faults: at most one wake is under way and no result is stale; and only a process whose
\* owner was cut off is left to its destructor, at most one of them while it was reaped.
THEOREM Safety == Spec => []OneWake /\ DroppedOnlyWhenCutOff
  <1>1. Init => Inv
    BY InvInit
  <1>2. Inv /\ [Next]_vars => Inv' /\ [CutOff /\ OneReap]_vars
    BY InvStep
  <1>3. Inv => OneWake
    BY InvOneWake
  <1>4. QED
    BY <1>1, <1>2, <1>3, PTL DEF Spec, DroppedOnlyWhenCutOff

=============================================================================
