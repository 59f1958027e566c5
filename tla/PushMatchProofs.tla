-------------------------- MODULE PushMatchProofs --------------------------
(***************************************************************************)
(* Theorems about PushMatch: for any number of installations, events and   *)
(* matchers, no event slips past the gate, a job is deleted only when its  *)
(* wakes are durable, and a live claim is respected.                       *)
(***************************************************************************)
EXTENDS PushMatch, TLAPS

\* A claim token in use is neither the absent one nor that of a dead process.
Parameters == Nobody \notin Matcher /\ Crashed \notin Matcher /\ MaxTries \in Nat

-----------------------------------------------------------------------------
(* Types.                                                                  *)

LeaseRow == [gen : Nat, st : {"off", "on", "disabled", "expired"}]
EventState == {"none", "skips", "enqueues", "recent", "old", "deleted"}
JobRow == [st : {"none", "pending", "matching"}, tries : Nat,
           claim : Matcher \cup {Nobody, Crashed}, ripe : BOOLEAN]
MatcherState == [pc : {"idle", "load", "flush", "complete", "retry"},
                 jobs : SUBSET (Event \X Nat), ctx : SUBSET (Inst \X Nat), done : SUBSET Event]

TypeOK ==
  /\ lease \in [Inst -> LeaseRow]
  /\ ev \in [Event -> EventState]
  /\ act \in [inst : Inst \cup {Nobody}, gen : Nat]
  /\ job \in [Event -> JobRow]
  /\ mt \in [Matcher -> MatcherState]
  /\ outbox \in [Inst \X Event -> Nat]

\* The empty tables have their types.
LEMMA InitType == Init => TypeOK
  <1> SUFFICES ASSUME Init PROVE TypeOK
    OBVIOUS
  <1>1. NoLease \in LeaseRow /\ NoJob \in JobRow /\ Idle \in MatcherState
        /\ NoAct \in [inst : Inst \cup {Nobody}, gen : Nat]
    BY DEF NoLease, LeaseRow, NoJob, JobRow, Idle, MatcherState, NoAct
  <1>2. QED
    BY <1>1 DEF Init, TypeOK, EventState

\* The trigger and the backfill add jobs and change none.
LEMMA JobsOfType ==
  ASSUME TypeOK, NEW S
  PROVE  /\ JobsOf(S) \in [Event -> JobRow]
         /\ \A e \in Event : job[e].st # "none" => JobsOf(S)[e] = job[e]
         /\ \A e \in Event : JobsOf(S)[e] # job[e] => JobsOf(S)[e].claim = Nobody /\ JobsOf(S)[e].st = "pending"
         /\ \A e \in Event : e \in S => JobsOf(S)[e].st # "none"
  <1> DEFINE new == [NoJob EXCEPT !.st = "pending", !.ripe = TRUE]
  <1>1. NoJob \in JobRow /\ NoJob.claim = Nobody
    BY DEF NoJob, JobRow
  <1>2. new \in JobRow /\ new.st = "pending" /\ new.claim = Nobody
    BY <1>1 DEF JobRow
  <1>3. \A e \in Event : JobsOf(S)[e] = IF e \in S /\ job[e].st = "none" THEN new ELSE job[e]
    BY DEF JobsOf
  <1>4. JobsOf(S) = [e \in Event |-> JobsOf(S)[e]]
    BY DEF JobsOf
  <1> HIDE DEF new
  <1>5. \A e \in Event : JobsOf(S)[e] \in JobRow
    BY <1>2, <1>3 DEF TypeOK
  <1>6. QED
    BY <1>2, <1>3, <1>4, <1>5

\* A release touches the jobs it names and gives up their claims.
LEMMA ReleasedType ==
  ASSUME TypeOK, NEW S
  PROVE  /\ Released(S) \in [Event -> JobRow]
         /\ \A e \in Event : e \notin S => Released(S)[e] = job[e]
         /\ \A e \in Event : e \in S => Released(S)[e].claim = Nobody /\ Released(S)[e].st = "pending"
  BY DEF Released, TypeOK, JobRow

\* What a claim of the due jobs does to the queue.
LEMMA ClaimedJobs ==
  ASSUME TypeOK, NEW m \in Matcher, NEW loaded \in BOOLEAN, ClaimBatch(m, loaded)
  PROVE  /\ job' \in [Event -> JobRow]
         /\ \A e \in Event : ~job[e].ripe \/ job[e].st = "none" => job'[e] = job[e]
         /\ \A e \in Event : \/ job'[e] = job[e]
                             \/ job'[e] = NoJob
                             \/ job'[e].claim = m /\ job'[e].tries = job[e].tries + 1 /\ job'[e].st = "matching"
         /\ \A e \in Event : Claimable(e) /\ Stored(e) =>
              job'[e].claim = m /\ job'[e].tries = job[e].tries + 1 /\ job'[e].st = "matching"
  <1> DEFINE batch == {e \in Event : Claimable(e)}
             gone == {e \in batch : ~Stored(e)}
             held(e) == [st |-> "matching", tries |-> job[e].tries + 1, claim |-> m, ripe |-> FALSE]
  <1>1. job' = [e \in Event |->
             CASE e \in batch /\ (e \notin gone \/ ~loaded) -> held(e)
               [] e \in gone /\ loaded -> NoJob
               [] OTHER -> job[e]]
    BY Zenon DEF ClaimBatch
  <1>2. ASSUME NEW e \in Event
        PROVE  /\ e \in batch /\ (e \notin gone \/ ~loaded) => job'[e] = held(e)
               /\ e \in gone /\ loaded => job'[e] = NoJob
               /\ e \notin batch => job'[e] = job[e]
    <2>1. CASE e \in batch /\ (e \notin gone \/ ~loaded)
      BY <1>1, <2>1
    <2>2. CASE e \in gone /\ loaded
      BY <1>1, <2>2
    <2>3. CASE e \notin batch
      BY <1>1, <2>3
    <2>4. QED
      BY <2>1, <2>2, <2>3
  <1>3. \A e \in Event : held(e) \in JobRow /\ NoJob \in JobRow /\ job[e] \in JobRow
    BY DEF TypeOK, JobRow, NoJob
  <1>4. \A e \in Event : /\ held(e).claim = m /\ held(e).tries = job[e].tries + 1
                         /\ held(e).st = "matching"
    OBVIOUS
  <1>5. \A e \in Event : ~job[e].ripe \/ job[e].st = "none" => e \notin batch
    BY DEF Claimable
  <1>6. \A e \in Event : /\ e \in batch <=> Claimable(e)
                         /\ e \in gone <=> Claimable(e) /\ ~Stored(e)
    OBVIOUS
  <1>7. job' = [e \in Event |-> job'[e]]
    BY <1>1
  <1> HIDE DEF batch, gone, held
  <1>8. \A e \in Event : job'[e] = held(e) \/ job'[e] = NoJob \/ job'[e] = job[e]
    BY <1>2, <1>6
  <1>9. job' \in [Event -> JobRow]
    BY <1>3, <1>7, <1>8
  <1>10. QED
    BY <1>2, <1>4, <1>5, <1>6, <1>8, <1>9

-----------------------------------------------------------------------------
(* The inductive invariant.                                                *)

\* An event whose insert skipped the queue, and an activation, exclude each other;
\* the skip is right as long as the insert is open.
Gate ==
  /\ act # NoAct => \A e \in Event : ev[e] \notin {"skips", "enqueues"}
  /\ \A e \in Event : ev[e] = "skips" => \A i \in Inst : ~Eligible(i)

\* Generations only grow: a lease that was replaced since a matcher loaded it does
\* not match what the matcher loaded.
Generations ==
  /\ \A i \in Inst : Eligible(i) => lease[i].gen > 0
  /\ act # NoAct => act.inst \in Inst /\ act.gen = lease[act.inst].gen + 1
  /\ \A m \in Matcher : \A i \in Inst, g \in Nat : <<i, g>> \in mt[m].ctx => g =< lease[i].gen

\* A matcher that still holds the claim on a job knows how often it was tried.
Claims ==
  /\ \A e \in Event : job[e].st = "none" => job[e].claim = Nobody
  /\ \A m \in Matcher : \A e \in Event, n \in Nat :
       <<e, n>> \in mt[m].jobs /\ job[e].claim = m => job[e].tries = n
  /\ \A m \in Matcher : mt[m].pc = "idle" => mt[m].jobs = {}

\* The wakes of e are in the outbox, for every lease m loaded that is still the same.
WakesStored(m, e) ==
  \A i \in Inst : Eligible(i) /\ <<i, lease[i].gen>> \in mt[m].ctx => outbox[<<i, e>>] # 0

\* After the flush, a job to be deleted has its wakes, or its last try is over.
Durable ==
  \A m \in Matcher : mt[m].pc = "complete" =>
    \A e \in mt[m].done : WakesStored(m, e) \/ (job[e].claim = m => job[e].tries >= MaxTries)

Inv == TypeOK /\ Gate /\ Generations /\ Claims /\ Durable

\* The empty tables satisfy the inductive invariant.
LEMMA InitInv == Init => Inv
  <1> SUFFICES ASSUME Init PROVE Inv
    OBVIOUS
  <1>1. TypeOK
    BY InitType
  <1>2. Gate /\ Generations
    BY DEF Init, Gate, Generations, Eligible, NoLease, Idle
  <1>3. Claims /\ Durable
    BY DEF Init, Claims, Durable, NoJob, Idle
  <1>4. QED
    BY <1>1, <1>2, <1>3 DEF Inv

-----------------------------------------------------------------------------
(* The steps of events and of the clock.                                   *)

\* A step that touches neither leases nor the matchers' memory, nor gives a matcher
\* a claim, keeps what the matchers rely on.
LEMMA MatchersKept ==
  ASSUME Inv, UNCHANGED <<lease, mt, outbox>>,
         \A e \in Event : \/ job'[e] = job[e]
                          \/ /\ job'[e].claim \notin Matcher
                             /\ job'[e].st = "none" => job'[e].claim = Nobody
                          \/ /\ job'[e].claim = job[e].claim /\ job'[e].tries = job[e].tries
                             /\ job'[e].st = job[e].st
  PROVE  Claims' /\ Durable'
  <1>1. Claims'
    BY DEF Inv, Claims
  <1>2. \A m \in Matcher, e \in Event : WakesStored(m, e) => WakesStored(m, e)'
    BY DEF WakesStored, Eligible
  <1>3. Durable'
    BY <1>2 DEF Inv, Durable, TypeOK, MatcherState
  <1>4. QED
    BY <1>1, <1>3

\* An event is inserted, deleted or ages.
LEMMA EventStepInv ==
  ASSUME Parameters, Inv, NEW e \in Event,
         InsertEvent(e) \/ DeleteEvent(e) \/ EventAges(e)
  PROVE  Inv'
  <1>1. UNCHANGED <<lease, act, job, mt, outbox>>
    BY DEF InsertEvent, DeleteEvent, EventAges
  <1>2. TypeOK'
    BY <1>1 DEF Inv, TypeOK, EventState, InsertEvent, DeleteEvent, EventAges
  <1>3. Gate'
    BY <1>1 DEF Inv, TypeOK, EventState, Gate, InsertEvent, DeleteEvent, EventAges, Eligible, GateShared
  <1>4. Generations'
    BY <1>1 DEF Inv, Generations, Eligible
  <1>5. QED
    BY <1>1, <1>2, <1>3, <1>4, MatchersKept DEF Inv

\* An event commits, with the job its trigger decided on.
LEMMA CommitEventInv ==
  ASSUME Parameters, Inv, NEW e \in Event, CommitEvent(e)
  PROVE  Inv'
  <1>1. UNCHANGED <<lease, act, mt, outbox>> /\ ev' = [ev EXCEPT ![e] = "recent"]
    BY DEF CommitEvent
  <1>2. /\ job' \in [Event -> JobRow]
        /\ \A x \in Event : job'[x] = job[x] \/ (job'[x].claim = Nobody /\ job'[x].st = "pending")
    <2>1. CASE ev[e] = "enqueues"
      BY <2>1, JobsOfType DEF CommitEvent, Inv
    <2>2. CASE ev[e] # "enqueues"
      BY <2>2 DEF CommitEvent, Inv, TypeOK
    <2>3. QED
      BY <2>1, <2>2
  <1>3. TypeOK'
    BY <1>1, <1>2 DEF Inv, TypeOK, EventState
  <1>4. Gate' /\ Generations'
    BY <1>1 DEF Inv, TypeOK, Gate, Generations, Eligible
  <1>5. QED
    BY <1>1, <1>2, <1>3, <1>4, MatchersKept DEF Inv, Parameters

\* A retry falls due, or the claim on a job lapses.
LEMMA RipensInv ==
  ASSUME Parameters, Inv, NEW e \in Event, Ripens(e)
  PROVE  Inv'
  <1>1. UNCHANGED <<lease, ev, act, mt, outbox>> /\ job' = [job EXCEPT ![e].ripe = TRUE]
    BY DEF Ripens
  <1>2. /\ job' \in [Event -> JobRow]
        /\ \A x \in Event : /\ job'[x].claim = job[x].claim /\ job'[x].tries = job[x].tries
                            /\ job'[x].st = job[x].st
    BY <1>1, ZenonT(60) DEF Inv, TypeOK, JobRow
  <1>3. TypeOK' /\ Gate' /\ Generations'
    BY <1>1, <1>2 DEF Inv, TypeOK, Gate, Generations, Eligible
  <1>4. QED
    BY <1>1, <1>2, <1>3, MatchersKept DEF Inv

\* The reaper deletes jobs whose tries are used up.
LEMMA ReapInv ==
  ASSUME Parameters, Inv, Reap
  PROVE  Inv'
  <1>1. /\ UNCHANGED <<lease, ev, act, mt, outbox>>
        /\ job' = [e \in Event |-> IF Exhausted(e) THEN NoJob ELSE job[e]]
    BY DEF Reap
  <1>2. NoJob \in JobRow /\ NoJob.claim = Nobody
    BY DEF NoJob, JobRow
  <1>3. job' \in [Event -> JobRow] /\ \A e \in Event : job'[e] = NoJob \/ job'[e] = job[e]
    BY <1>1, <1>2 DEF Inv, TypeOK
  <1>4. TypeOK' /\ Gate' /\ Generations'
    BY <1>1, <1>3 DEF Inv, TypeOK, Gate, Generations, Eligible
  <1>5. QED
    BY <1>1, <1>2, <1>3, <1>4, MatchersKept DEF Inv, Parameters
-----------------------------------------------------------------------------
(* The steps of leases.                                                    *)

\* A step that makes no lease a matcher has loaded eligible again keeps the wakes.
LEMMA LeasesKept ==
  ASSUME Inv, UNCHANGED <<mt, job, outbox>>,
         \A i \in Inst : /\ lease'[i].gen \in Nat /\ lease[i].gen =< lease'[i].gen
                         /\ \/ lease'[i].st # "on"
                            \/ lease'[i].gen > lease[i].gen
                            \/ lease'[i] = lease[i]
  PROVE  /\ Claims' /\ Durable'
         /\ \A m \in Matcher : \A i \in Inst, g \in Nat : <<i, g>> \in mt'[m].ctx => g =< lease'[i].gen
  <1>1. Claims'
    BY DEF Inv, Claims
  <1>2. ASSUME NEW m \in Matcher, NEW i \in Inst, NEW g \in Nat, <<i, g>> \in mt'[m].ctx
        PROVE  g =< lease'[i].gen
    BY <1>2 DEF Inv, Generations, TypeOK, LeaseRow
  <1>3. ASSUME NEW m \in Matcher, NEW e \in Event, WakesStored(m, e)
        PROVE  WakesStored(m, e)'
    <2> SUFFICES ASSUME NEW i \in Inst, Eligible(i)', <<i, lease'[i].gen>> \in mt'[m].ctx
                 PROVE  outbox'[<<i, e>>] # 0
      BY DEF WakesStored
    <2>1. lease'[i].gen =< lease[i].gen
      BY DEF Inv, Generations
    <2>2. lease'[i] = lease[i]
      BY <2>1 DEF Eligible, Inv, TypeOK, LeaseRow
    <2>3. QED
      BY <1>3, <2>2 DEF WakesStored, Eligible
  <1>4. Durable'
    BY <1>3 DEF Inv, Durable, TypeOK, MatcherState
  <1>5. QED
    BY <1>1, <1>2, <1>4

\* An activation takes the gate exclusively.
LEMMA ActivateBeginsInv ==
  ASSUME Parameters, Inv, NEW i \in Inst, NEW gen \in 1..MaxGen, ActivateBegins(i, gen)
  PROVE  Inv'
  <1>1. /\ UNCHANGED <<lease, ev, job, mt, outbox>> /\ act' = [inst |-> i, gen |-> gen]
        /\ \A e \in Event : ev[e] \notin {"skips", "enqueues"}
    BY Zenon DEF ActivateBegins, GateExclusive
  <1>2. gen = lease[i].gen + 1
    BY Zenon DEF ActivateBegins, Wins
  <1>3. lease[i].gen \in Nat
    BY DEF Inv, TypeOK, LeaseRow
  <1>4. TypeOK'
    BY <1>1, <1>2, <1>3 DEF Inv, TypeOK
  <1>5. Gate'
    BY <1>1 DEF Inv, Gate, Eligible
  <1>6. Generations'
    BY <1>1, <1>2 DEF Inv, Generations, Eligible
  <1>7. QED
    BY <1>1, <1>4, <1>5, <1>6, MatchersKept DEF Inv

\* The activation holds the gate, so no insert that skipped is open, and the lease it
\* puts in effect has a generation that no matcher has loaded.
LEMMA ActivateCommitsInv ==
  ASSUME Parameters, Inv, ActivateCommits
  PROVE  Inv'
  <1>1. /\ act # NoAct /\ act' = NoAct /\ UNCHANGED <<ev, mt, outbox>>
        /\ lease' = [lease EXCEPT ![act.inst] = [gen |-> act.gen, st |-> "on"]]
        /\ job' = JobsOf({e \in Event : ev[e] = "recent"})
    BY DEF ActivateCommits
  <1>2. act.inst \in Inst /\ act.gen \in Nat /\ act.gen = lease[act.inst].gen + 1
        /\ lease[act.inst].gen \in Nat
    BY <1>1 DEF Inv, Generations, TypeOK, LeaseRow
  <1>3. /\ job' \in [Event -> JobRow]
        /\ \A e \in Event : job'[e] = job[e] \/ (job'[e].claim = Nobody /\ job'[e].st = "pending")
    BY <1>1, JobsOfType DEF Inv
  <1>4. TypeOK'
    BY <1>1, <1>2, <1>3 DEF Inv, TypeOK, LeaseRow, NoAct
  <1>5. \A i \in Inst : \/ i = act.inst /\ lease'[i] = [gen |-> act.gen, st |-> "on"]
                        \/ i # act.inst /\ lease'[i] = lease[i]
    BY <1>1, <1>2 DEF Inv, TypeOK
  <1>6. Gate'
    BY <1>1 DEF Inv, Gate, TypeOK
  <1>7. Generations'
    <2>1. \A i \in Inst : Eligible(i)' => lease'[i].gen > 0
      BY <1>2, <1>5 DEF Inv, Generations, Eligible
    <2>2. \A m \in Matcher : \A i \in Inst, g \in Nat : <<i, g>> \in mt'[m].ctx => g =< lease'[i].gen
      <3>1. \A i \in Inst : lease[i].gen \in Nat /\ lease'[i].gen \in Nat /\ lease[i].gen =< lease'[i].gen
        BY <1>2, <1>5 DEF Inv, TypeOK, LeaseRow
      <3>2. QED
        BY <1>1, <3>1 DEF Inv, Generations
    <2>3. QED
      BY <1>1, <2>1, <2>2 DEF Generations
  <1>8. Claims'
    BY <1>1, <1>3 DEF Inv, Claims, Parameters
  <1>9. ASSUME NEW m \in Matcher, NEW e \in Event, WakesStored(m, e)
        PROVE  WakesStored(m, e)'
    <2> SUFFICES ASSUME NEW i \in Inst, Eligible(i)', <<i, lease'[i].gen>> \in mt'[m].ctx
                 PROVE  outbox'[<<i, e>>] # 0
      BY DEF WakesStored
    <2>1. i # act.inst
      BY <1>1, <1>2, <1>5 DEF Inv, Generations
    <2>2. lease'[i] = lease[i]
      BY <1>5, <2>1
    <2>3. QED
      BY <1>1, <1>9, <2>2 DEF WakesStored, Eligible
  <1>10. Durable'
    BY <1>1, <1>3, <1>9 DEF Inv, Durable, TypeOK, MatcherState, Parameters
  <1>11. QED
    BY <1>4, <1>6, <1>7, <1>8, <1>10 DEF Inv

\* A lease ends: revoked, expired, or its endpoint is dead.
LEMMA LeaseEndsInv ==
  ASSUME Parameters, Inv, NEW i \in Inst,
         (\E gen \in 1..MaxGen : Revoke(i, gen)) \/ LeaseExpires(i) \/ DisableEndpoint(i)
  PROVE  Inv'
  <1>1. UNCHANGED <<ev, act, job, mt, outbox>>
    BY Zenon DEF Revoke, LeaseExpires, DisableEndpoint
  <1>2. \/ lease' = [lease EXCEPT ![i] = [gen |-> lease[i].gen + 1, st |-> "off"]] /\ act = NoAct
        \/ lease' = [lease EXCEPT ![i].st = "expired"]
        \/ lease' = [lease EXCEPT ![i].st = "disabled"]
    BY Zenon DEF Revoke, Wins, LeaseExpires, DisableEndpoint
  <1>3. /\ lease' \in [Inst -> LeaseRow]
        /\ \A j \in Inst : lease'[j] = lease[j] \/ (lease'[j].st # "on" /\ lease[j].gen =< lease'[j].gen)
        /\ act # NoAct => \A j \in Inst : lease'[j].gen = lease[j].gen
    BY <1>2 DEF Inv, TypeOK, LeaseRow
  <1>4. TypeOK' /\ Gate'
    BY <1>1, <1>3 DEF Inv, TypeOK, Gate, Eligible
  <1>5. \A j \in Inst : /\ lease'[j].gen \in Nat /\ lease[j].gen =< lease'[j].gen
                        /\ lease'[j].st # "on" \/ lease'[j] = lease[j]
    BY <1>3 DEF Inv, TypeOK, LeaseRow
  <1>6. /\ Claims' /\ Durable'
        /\ \A m \in Matcher : \A j \in Inst, g \in Nat : <<j, g>> \in mt'[m].ctx => g =< lease'[j].gen
    BY <1>1, <1>5, LeasesKept
  <1>7. Generations'
    BY <1>1, <1>3, <1>5, <1>6 DEF Inv, Generations, Eligible
  <1>8. QED
    BY <1>4, <1>6, <1>7 DEF Inv
-----------------------------------------------------------------------------
(* The steps of matchers.                                                  *)

\* A step of one matcher: what the others hold is kept, if none of them is given a
\* claim and no wake disappears.
LEMMA OneMatcher ==
  ASSUME Inv, NEW m \in Matcher, UNCHANGED <<lease, ev, act>>,
         mt' \in [Matcher -> MatcherState], \A q \in Matcher \ {m} : mt'[q] = mt[q],
         job' \in [Event -> JobRow],
         \A e \in Event : job'[e].st = "none" => job'[e].claim = Nobody,
         \A q \in Matcher \ {m}, e \in Event :
           job'[e].claim = q => job[e].claim = q /\ job'[e].tries = job[e].tries,
         outbox' \in [Inst \X Event -> Nat],
         \A r \in Inst \X Event : outbox[r] # 0 => outbox'[r] # 0,
         \A i \in Inst, g \in Nat : <<i, g>> \in mt'[m].ctx => g =< lease[i].gen,
         \A e \in Event, n \in Nat :
           <<e, n>> \in mt'[m].jobs /\ job'[e].claim = m => job'[e].tries = n,
         mt'[m].pc = "idle" => mt'[m].jobs = {},
         mt'[m].pc = "complete" =>
           \A e \in mt'[m].done : WakesStored(m, e)' \/ (job'[e].claim = m => job'[e].tries >= MaxTries)
  PROVE  Inv'
  <1>1. TypeOK'
    BY DEF Inv, TypeOK
  <1>2. Gate'
    BY DEF Inv, Gate, Eligible
  <1>3. Generations'
    BY DEF Inv, Generations, Eligible
  <1>4. Claims'
    BY DEF Inv, Claims
  <1>5. ASSUME NEW q \in Matcher \ {m}, NEW e \in Event, WakesStored(q, e)
        PROVE  WakesStored(q, e)'
    BY <1>5 DEF WakesStored, Eligible
  <1>6. Durable'
    <2> SUFFICES ASSUME NEW q \in Matcher, mt'[q].pc = "complete", NEW e \in mt'[q].done
                 PROVE  WakesStored(q, e)' \/ (job'[e].claim = q => job'[e].tries >= MaxTries)
      BY DEF Durable
    <2>1. CASE q = m
      BY <2>1
    <2>2. CASE q # m
      <3>1. mt'[q] = mt[q] /\ e \in Event
        BY <2>2 DEF Inv, TypeOK, MatcherState
      <3>2. WakesStored(q, e) \/ (job[e].claim = q => job[e].tries >= MaxTries)
        BY <3>1 DEF Inv, Durable
      <3>3. QED
        BY <1>5, <2>2, <3>1, <3>2
    <2>3. QED
      BY <2>1, <2>2
  <1>7. QED
    BY <1>1, <1>2, <1>3, <1>4, <1>6 DEF Inv

\* A matcher claims a batch of jobs.
LEMMA ClaimBatchInv ==
  ASSUME Parameters, Inv, NEW m \in Matcher, NEW loaded \in BOOLEAN, ClaimBatch(m, loaded)
  PROVE  Inv'
  <1> DEFINE batch == {e \in Event : Claimable(e)}
             gone == {e \in batch : ~Stored(e)}
             jobs == {<<e, job[e].tries + 1>> : e \in batch \ gone}
  <1>1. /\ job' \in [Event -> JobRow]
        /\ \A e \in Event : \/ job'[e] = job[e] \/ job'[e] = NoJob
                            \/ job'[e].claim = m /\ job'[e].tries = job[e].tries + 1 /\ job'[e].st = "matching"
        /\ \A e \in Event : Claimable(e) /\ Stored(e) => job'[e].tries = job[e].tries + 1
    BY ClaimedJobs DEF Inv
  <1>2. /\ UNCHANGED <<lease, ev, act, outbox>> /\ mt[m].pc = "idle"
        /\ mt' = mt \/ mt' = [mt EXCEPT ![m].pc = "load", ![m].jobs = jobs]
    BY Zenon DEF ClaimBatch
  <1>3. jobs \in SUBSET (Event \X Nat)
    BY DEF Inv, TypeOK, JobRow
  <1>4. \A e \in Event, n \in Nat : <<e, n>> \in jobs => job'[e].tries = n
    BY <1>1
  <1> HIDE DEF jobs
  <1>5. /\ mt' \in [Matcher -> MatcherState] /\ \A q \in Matcher \ {m} : mt'[q] = mt[q]
        /\ mt'[m].ctx = mt[m].ctx /\ mt'[m].pc \in {"idle", "load"}
        /\ \/ mt'[m].jobs = mt[m].jobs /\ mt'[m].pc = "idle"
           \/ mt'[m].jobs = jobs /\ mt'[m].pc = "load"
    <2>1. CASE mt' = mt
      BY <1>2, <2>1 DEF Inv, TypeOK
    <2>2. CASE mt' = [mt EXCEPT ![m].pc = "load", ![m].jobs = jobs]
      BY <1>3, <2>2, ZenonT(60) DEF Inv, TypeOK, MatcherState
    <2>3. QED
      BY <1>2, <2>1, <2>2
  <1>6. mt[m].jobs = {}
    BY <1>2 DEF Inv, Claims
  <1>7. NoJob.claim = Nobody
    BY DEF NoJob
  <1>8. \A e \in Event : job'[e].st = "none" => job'[e].claim = Nobody
    BY <1>1, <1>7 DEF Inv, Claims
  <1>9. \A q \in Matcher \ {m}, e \in Event :
          job'[e].claim = q => job[e].claim = q /\ job'[e].tries = job[e].tries
    BY <1>1, <1>7 DEF Parameters
  <1>10. \A e \in Event, n \in Nat :
          <<e, n>> \in mt'[m].jobs /\ job'[e].claim = m => job'[e].tries = n
    BY <1>4, <1>5, <1>6
  <1>11. \A i \in Inst, g \in Nat : <<i, g>> \in mt'[m].ctx => g =< lease[i].gen
    BY <1>5 DEF Inv, Generations
  <1>12. outbox' \in [Inst \X Event -> Nat]
    BY <1>2 DEF Inv, TypeOK
  <1>13. QED
    BY <1>1, <1>2, <1>5, <1>6, <1>8, <1>9, <1>10, <1>11, <1>12, OneMatcher

\* A matcher notes the leases in effect.
LEMMA LoadContextInv ==
  ASSUME Parameters, Inv, NEW m \in Matcher, LoadContext(m)
  PROVE  Inv'
  <1> DEFINE ctx == {<<i, lease[i].gen>> : i \in {j \in Inst : Eligible(j)}}
  <1>1. /\ UNCHANGED <<lease, ev, act, job, outbox>>
        /\ mt' = [mt EXCEPT ![m].pc = "flush", ![m].ctx = ctx]
    BY DEF LoadContext
  <1>2. /\ ctx \in SUBSET (Inst \X Nat)
        /\ \A i \in Inst, g \in Nat : <<i, g>> \in ctx => g =< lease[i].gen
    BY DEF Inv, TypeOK, LeaseRow
  <1> HIDE DEF ctx
  <1>3. /\ mt' \in [Matcher -> MatcherState] /\ \A q \in Matcher \ {m} : mt'[q] = mt[q]
        /\ mt'[m].pc = "flush" /\ mt'[m].ctx = ctx /\ mt'[m].jobs = mt[m].jobs
    BY <1>1, <1>2, ZenonT(60) DEF Inv, TypeOK, MatcherState
  <1>4. \A e \in Event, n \in Nat :
          <<e, n>> \in mt'[m].jobs /\ job'[e].claim = m => job'[e].tries = n
    BY <1>1, <1>3 DEF Inv, Claims
  <1>5. job' \in [Event -> JobRow] /\ outbox' \in [Inst \X Event -> Nat]
        /\ \A e \in Event : job'[e].st = "none" => job'[e].claim = Nobody
    BY <1>1 DEF Inv, TypeOK, Claims
  <1>6. QED
    BY <1>1, <1>2, <1>3, <1>4, <1>5, OneMatcher

\* A matcher that drops its batch, and at most gives up claims of its own.
LEMMA GoesIdle ==
  ASSUME Parameters, Inv, NEW m \in Matcher, mt' = [mt EXCEPT ![m] = Idle],
         UNCHANGED <<lease, ev, act, outbox>>, job' \in [Event -> JobRow],
         \A e \in Event : \/ job'[e] = job[e]
                          \/ job'[e].claim \in {Nobody, Crashed} /\ job'[e].st # "none"
  PROVE  Inv'
  <1>1. Idle \in MatcherState /\ Idle.pc = "idle" /\ Idle.jobs = {} /\ Idle.ctx = {}
    BY DEF Idle, MatcherState
  <1>2. /\ mt' \in [Matcher -> MatcherState] /\ \A q \in Matcher \ {m} : mt'[q] = mt[q]
        /\ mt'[m] = Idle
    BY <1>1 DEF Inv, TypeOK
  <1>3. \A e \in Event : job'[e].st = "none" => job'[e].claim = Nobody
    BY DEF Inv, Claims
  <1>4. \A q \in Matcher \ {m}, e \in Event :
          job'[e].claim = q => job[e].claim = q /\ job'[e].tries = job[e].tries
    BY DEF Parameters
  <1>5. outbox' \in [Inst \X Event -> Nat]
    BY DEF Inv, TypeOK
  <1>6. QED
    BY <1>1, <1>2, <1>3, <1>4, <1>5, OneMatcher

\* Loading the context fails: the batch is released, or left to the lapse of its claim.
LEMMA LoadFailsInv ==
  ASSUME Parameters, Inv, NEW m \in Matcher, LoadFails(m)
  PROVE  Inv'
  <1>1. /\ UNCHANGED <<lease, ev, act, outbox>> /\ mt' = [mt EXCEPT ![m] = Idle]
        /\ job' = job \/ job' = Released(Fenced(m, Mine(m)))
    BY DEF LoadFails
  <1>2. /\ job' \in [Event -> JobRow]
        /\ \A e \in Event : job'[e] = job[e] \/ (job'[e].claim = Nobody /\ job'[e].st = "pending")
    BY <1>1, ReleasedType DEF Inv, TypeOK
  <1>3. QED
    BY <1>1, <1>2, GoesIdle

\* The jobs that are not done are released, or left to the lapse of their claim.
LEMMA RetryInv ==
  ASSUME Parameters, Inv, NEW m \in Matcher, NEW ok \in BOOLEAN, Retry(m, ok)
  PROVE  Inv'
  <1>1. /\ UNCHANGED <<lease, ev, act, outbox>> /\ mt' = [mt EXCEPT ![m] = Idle]
        /\ job' = job \/ job' = Released(Fenced(m, Mine(m) \ mt[m].done))
    BY Zenon DEF Retry
  <1>2. /\ job' \in [Event -> JobRow]
        /\ \A e \in Event : job'[e] = job[e] \/ (job'[e].claim = Nobody /\ job'[e].st = "pending")
    BY <1>1, ReleasedType DEF Inv, TypeOK
  <1>3. QED
    BY <1>1, <1>2, GoesIdle

\* A relay process dies: its claims carry a token nobody has.
LEMMA CrashInv ==
  ASSUME Parameters, Inv, NEW m \in Matcher, Crash(m)
  PROVE  Inv'
  <1>1. /\ UNCHANGED <<lease, ev, act, outbox>> /\ mt' = [mt EXCEPT ![m] = Idle]
        /\ job' = [e \in Event |-> IF job[e].claim = m THEN [job[e] EXCEPT !.claim = Crashed] ELSE job[e]]
    BY DEF Crash
  <1>2. \A e \in Event : job[e].claim = m => job[e].st # "none"
    BY DEF Inv, Claims, Parameters
  <1>3. /\ job' \in [Event -> JobRow]
        /\ \A e \in Event : job'[e] = job[e] \/ (job'[e].claim = Crashed /\ job'[e].st = job[e].st
                                                  /\ job[e].claim = m)
    <2>1. \A e \in Event : job[e] \in JobRow
      BY DEF Inv, TypeOK
    <2>2. \A r \in JobRow : /\ [r EXCEPT !.claim = Crashed] \in JobRow
                            /\ [r EXCEPT !.claim = Crashed].claim = Crashed
                            /\ [r EXCEPT !.claim = Crashed].st = r.st
      BY DEF JobRow
    <2>3. \A e \in Event : job'[e] = IF job[e].claim = m THEN [job[e] EXCEPT !.claim = Crashed] ELSE job[e]
      BY <1>1
    <2>4. \A e \in Event : job'[e] \in JobRow
      BY <2>1, <2>2, <2>3
    <2>5. job' \in [Event -> JobRow]
      BY <1>1, <2>3, <2>4
    <2>6. ASSUME NEW e \in Event, job[e].claim = m
          PROVE  job'[e].claim = Crashed /\ job'[e].st = job[e].st
      <3>1. job[e] \in JobRow /\ job'[e] = [job[e] EXCEPT !.claim = Crashed]
        BY <2>1, <2>3, <2>6
      <3>2. QED
        BY <2>2, <3>1
    <2>7. ASSUME NEW e \in Event, job[e].claim # m
          PROVE  job'[e] = job[e]
      BY <2>3, <2>7
    <2>8. QED
      BY <2>5, <2>6, <2>7, Zenon
  <1>4. QED
    BY <1>1, <1>2, <1>3, GoesIdle, ZenonT(60)

\* enqueue_wakes: a job that is done after it has a wake for each lease that still is
\* what the matcher loaded, unless its tries are used up.
LEMMA FlushInv ==
  ASSUME Parameters, Inv, NEW m \in Matcher, NEW bad \in SUBSET Event, NEW ok \in BOOLEAN,
         Flush(m, bad, ok)
  PROVE  Inv'
  <1> DEFINE good == Mine(m) \ bad
             failed == bad \cup IF ok \/ mt[m].ctx = {} THEN {} ELSE good
             wakes(r) == /\ ok /\ r[2] \in good /\ outbox[r] = 0
                         /\ <<r[1], lease[r[1]].gen>> \in mt[m].ctx /\ Eligible(r[1])
  <1>1. /\ UNCHANGED <<lease, ev, act, job>> /\ mt[m].pc = "flush"
        /\ outbox' = [r \in Inst \X Event |-> IF wakes(r) THEN lease[r[1]].gen ELSE outbox[r]]
        /\ mt' = [mt EXCEPT ![m].pc = "complete", ![m].done = DoneAfter(m, failed)]
    BY Zenon DEF Flush
  <1>2. \A r \in Inst \X Event : wakes(r) => lease[r[1]].gen \in Nat /\ lease[r[1]].gen # 0
    BY DEF Inv, TypeOK, LeaseRow, Generations
  <1>3. /\ outbox' \in [Inst \X Event -> Nat]
        /\ \A r \in Inst \X Event : outbox[r] # 0 => outbox'[r] # 0
        /\ \A r \in Inst \X Event : wakes(r) => outbox'[r] # 0
    <2>1. \A r \in Inst \X Event : outbox'[r] = IF wakes(r) THEN lease[r[1]].gen ELSE outbox[r]
      BY <1>1, Zenon
    <2> HIDE DEF wakes
    <2>2. outbox' = [r \in Inst \X Event |-> outbox'[r]]
      BY <1>1
    <2>3. \A r \in Inst \X Event : outbox'[r] \in Nat
      BY <1>2, <2>1 DEF Inv, TypeOK
    <2>4. QED
      BY <1>2, <2>1, <2>2, <2>3
  <1>4. ASSUME NEW e \in DoneAfter(m, failed)
        PROVE  e \in Event /\ \E n \in Nat : <<e, n>> \in mt[m].jobs /\ (e \notin failed \/ n >= MaxTries)
    <2> HIDE DEF failed
    <2>1. PICK x \in mt[m].jobs : e = x[1] /\ (x[1] \notin failed \/ x[2] >= MaxTries)
      BY DEF DoneAfter
    <2>2. x \in Event \X Nat
      BY DEF Inv, TypeOK, MatcherState
    <2>3. x = <<x[1], x[2]>> /\ x[1] \in Event /\ x[2] \in Nat
      BY <2>2
    <2>4. QED
      BY <2>1, <2>3
  <1>5. DoneAfter(m, failed) \in SUBSET Event
    BY <1>4
  <1>6. /\ mt' \in [Matcher -> MatcherState] /\ \A q \in Matcher \ {m} : mt'[q] = mt[q]
        /\ mt'[m].pc = "complete" /\ mt'[m].ctx = mt[m].ctx /\ mt'[m].jobs = mt[m].jobs
        /\ mt'[m].done = DoneAfter(m, failed)
    BY <1>1, <1>5, ZenonT(60) DEF Inv, TypeOK, MatcherState
  <1>7. ASSUME NEW e \in mt'[m].done
        PROVE  WakesStored(m, e)' \/ (job'[e].claim = m => job'[e].tries >= MaxTries)
    <2>1. e \in Event /\ e \in DoneAfter(m, failed)
      BY <1>4, <1>6, <1>7
    <2>2. PICK n \in Nat : <<e, n>> \in mt[m].jobs /\ (e \notin failed \/ n >= MaxTries)
      BY <1>4, <2>1
    <2>3. CASE n >= MaxTries
      BY <1>1, <2>1, <2>2, <2>3 DEF Inv, Claims
    <2>4. CASE e \notin failed
      <3>1. e \in good /\ (ok \/ mt[m].ctx = {})
        BY <2>2, <2>4 DEF Mine
      <3>2. ASSUME NEW i \in Inst, Eligible(i)', <<i, lease'[i].gen>> \in mt'[m].ctx
            PROVE  outbox'[<<i, e>>] # 0
        <4>1. Eligible(i) /\ <<i, lease[i].gen>> \in mt[m].ctx /\ ok /\ <<i, e>> \in Inst \X Event
          BY <1>1, <1>6, <2>1, <3>1, <3>2 DEF Eligible
        <4>2. outbox[<<i, e>>] = 0 => wakes(<<i, e>>)
          BY <3>1, <4>1
        <4> HIDE DEF wakes
        <4>3. QED
          BY <1>3, <4>1, <4>2
      <3>3. QED
        BY <3>2 DEF WakesStored
    <2>5. QED
      BY <2>2, <2>3, <2>4
  <1> HIDE DEF failed, good, wakes
  <1>8. /\ job' \in [Event -> JobRow]
        /\ \A e \in Event : job'[e].st = "none" => job'[e].claim = Nobody
        /\ \A e \in Event, n \in Nat :
             <<e, n>> \in mt'[m].jobs /\ job'[e].claim = m => job'[e].tries = n
        /\ \A i \in Inst, g \in Nat : <<i, g>> \in mt'[m].ctx => g =< lease[i].gen
    BY <1>1, <1>6 DEF Inv, TypeOK, Claims, Generations
  <1>9. QED
    BY <1>1, <1>3, <1>6, <1>7, <1>8, OneMatcher

\* Completion deletes only jobs the matcher still has the claim of.
LEMMA CompleteFacts ==
  ASSUME Parameters, Inv, NEW m \in Matcher, NEW ok \in BOOLEAN, Complete(m, ok)
  PROVE  /\ job' \in [Event -> JobRow]
         /\ \A e \in Event : \/ job'[e] = job[e]
                             \/ /\ job'[e] = NoJob /\ e \in mt[m].done
                                /\ job[e].st = "matching" /\ job[e].claim = m
  <1>1. job' = [e \in Event |-> IF ok /\ e \in Fenced(m, mt[m].done) THEN NoJob ELSE job[e]]
    BY DEF Complete
  <1>2. NoJob \in JobRow
    BY DEF NoJob, JobRow
  <1>3. QED
    BY <1>1, <1>2 DEF Fenced, Inv, TypeOK

\* A matcher completes its batch.
LEMMA CompleteInv ==
  ASSUME Parameters, Inv, NEW m \in Matcher, NEW ok \in BOOLEAN, Complete(m, ok)
  PROVE  Inv'
  <1>1. /\ UNCHANGED <<lease, ev, act, outbox>>
        /\ mt' = [mt EXCEPT ![m].pc = "retry", ![m].ctx = {}]
    BY DEF Complete
  <1>2. /\ job' \in [Event -> JobRow] /\ NoJob.claim = Nobody
        /\ \A e \in Event : job'[e] = job[e] \/ job'[e] = NoJob
    BY CompleteFacts DEF NoJob
  <1>3. /\ mt' \in [Matcher -> MatcherState] /\ \A q \in Matcher \ {m} : mt'[q] = mt[q]
        /\ mt'[m].pc = "retry" /\ mt'[m].ctx = {} /\ mt'[m].jobs = mt[m].jobs
    BY <1>1, ZenonT(60) DEF Inv, TypeOK, MatcherState
  <1>4. /\ \A e \in Event : job'[e].st = "none" => job'[e].claim = Nobody
        /\ \A q \in Matcher \ {m}, e \in Event :
             job'[e].claim = q => job[e].claim = q /\ job'[e].tries = job[e].tries
        /\ \A e \in Event, n \in Nat :
             <<e, n>> \in mt'[m].jobs /\ job'[e].claim = m => job'[e].tries = n
    BY <1>2, <1>3 DEF Inv, Claims, Parameters
  <1>5. outbox' \in [Inst \X Event -> Nat]
    BY <1>1 DEF Inv, TypeOK
  <1>6. QED
    BY <1>1, <1>2, <1>3, <1>4, <1>5, OneMatcher

\* Every step of leases, events and matchers preserves the inductive invariant.
LEMMA NextInv ==
  ASSUME Parameters, Inv, [Next]_vars
  PROVE  Inv'
  <1>1. CASE UNCHANGED vars
    BY <1>1, MatchersKept DEF vars, Inv, TypeOK, Gate, Generations, Eligible
  <1>2. ASSUME NEW e \in Event,
               InsertEvent(e) \/ CommitEvent(e) \/ DeleteEvent(e) \/ EventAges(e) \/ Ripens(e)
        PROVE  Inv'
    BY <1>2, EventStepInv, CommitEventInv, RipensInv
  <1>3. ASSUME NEW i \in Inst, LeaseStep(i)
        PROVE  Inv'
    BY <1>3, ActivateBeginsInv, LeaseEndsInv DEF LeaseStep
  <1>4. ASSUME NEW m \in Matcher, MatcherStep(m) \/ Crash(m)
        PROVE  Inv'
    BY <1>4, ClaimBatchInv, LoadContextInv, LoadFailsInv, FlushInv, CompleteInv, RetryInv, CrashInv
       DEF MatcherStep
  <1>5. QED
    BY <1>1, <1>2, <1>3, <1>4, ActivateCommitsInv, ReapInv DEF Next
-----------------------------------------------------------------------------
(* The theorems.                                                           *)

\* The inductive invariant of push matching.
LEMMA AlwaysInv ==
  ASSUME Parameters
  PROVE  Spec => []Inv
  <1>1. Init => Inv
    BY InitInv
  <1>2. Inv /\ [Next]_vars => Inv'
    BY NextInv
  <1>3. QED
    BY <1>1, <1>2, PTL DEF Spec

\* The step that commits an event is the only one that stores it.
LEMMA GateStep ==
  ASSUME Parameters, Inv, Next, NEW e \in Event, ~Stored(e), Stored(e)',
         \E i \in Inst : Eligible(i)
  PROVE  job'[e].st # "none"
  <1>1. CommitEvent(e)
    <2>1. ev'[e] # ev[e] /\ ev[e] \notin {"recent", "old"} /\ ev'[e] \in {"recent", "old"}
      BY DEF Stored
    <2>2. \A x \in Event : ~InsertEvent(x) /\ ~DeleteEvent(x) /\ ~EventAges(x) /\ ~Ripens(x)
      BY <2>1 DEF InsertEvent, DeleteEvent, EventAges, Ripens, Inv, TypeOK
    <2>3. ~ActivateCommits /\ ~Reap /\ \A i \in Inst : ~LeaseStep(i)
      BY <2>1, Zenon DEF ActivateCommits, Reap, LeaseStep, ActivateBegins, Revoke, LeaseExpires,
         DisableEndpoint
    <2>4. \A m \in Matcher : ~MatcherStep(m) /\ ~Crash(m)
      BY <2>1, ZenonT(60) DEF MatcherStep, Crash, ClaimBatch, Complete, Retry, Flush, LoadContext, LoadFails
    <2>5. \A x \in Event : CommitEvent(x) => x = e
      BY <2>1 DEF CommitEvent, Inv, TypeOK
    <2>6. QED
      BY <2>2, <2>3, <2>4, <2>5 DEF Next
  <1>2. ev[e] = "enqueues"
    BY <1>1 DEF CommitEvent, Inv, Gate
  <1>3. job' = JobsOf({e})
    BY <1>1, <1>2 DEF CommitEvent
  <1>4. QED
    BY <1>3, JobsOfType DEF Inv

\* The deletion of a job by the matcher that holds it.
LEMMA DeleteStep ==
  ASSUME Parameters, Inv, Next, NEW m \in Matcher, NEW e \in Event, Deletes(m, e)
  PROVE  WakesStored(m, e)
  <1>1. mt[m].pc = "complete" /\ mt'[m].pc = "retry" /\ job[e].claim = m
        /\ job[e].tries < MaxTries /\ job'[e].st = "none"
    BY DEF Deletes
  <1>2. job[e].st # "none" /\ job[e].tries \in Nat
    BY <1>1 DEF Inv, Claims, Parameters, TypeOK, JobRow
  <1>3. \E ok \in BOOLEAN : Complete(m, ok)
    <2>1. mt' # mt
      BY <1>1
    <2>2. \A x \in Event : ~(InsertEvent(x) \/ CommitEvent(x) \/ DeleteEvent(x) \/ EventAges(x) \/ Ripens(x))
      BY <2>1, Zenon DEF InsertEvent, CommitEvent, DeleteEvent, EventAges, Ripens
    <2>3. ~ActivateCommits /\ ~Reap /\ \A i \in Inst : ~LeaseStep(i)
      BY <2>1, Zenon DEF ActivateCommits, Reap, LeaseStep, ActivateBegins, Revoke, LeaseExpires,
         DisableEndpoint
    <2>4. \A q \in Matcher : ~Crash(q) /\ ~LoadFails(q) /\ \A ok \in BOOLEAN : ~Retry(q, ok)
      BY <1>1 DEF Crash, LoadFails, Retry, Idle, Inv, TypeOK
    <2>5. \A q \in Matcher : /\ ~LoadContext(q)
                             /\ \A ok \in BOOLEAN, bad \in SUBSET Event : ~Flush(q, bad, ok)
      BY <1>1 DEF LoadContext, Flush, Inv, TypeOK, MatcherState
    <2>6. \A q \in Matcher, ok \in BOOLEAN : ~ClaimBatch(q, ok)
      <3>1. ASSUME NEW q \in Matcher, NEW ok \in BOOLEAN, ClaimBatch(q, ok), NEW jobs,
                   mt' = [mt EXCEPT ![q].pc = "load", ![q].jobs = jobs]
            PROVE  FALSE
        BY <1>1, <3>1 DEF Inv, TypeOK, MatcherState
      <3>2. \A q \in Matcher, ok \in BOOLEAN : ClaimBatch(q, ok) =>
              mt' = mt \/ \E jobs : mt' = [mt EXCEPT ![q].pc = "load", ![q].jobs = jobs]
        BY Zenon DEF ClaimBatch
      <3>3. QED
        BY <2>1, <3>1, <3>2
    <2>7. \A q \in Matcher, ok \in BOOLEAN : Complete(q, ok) => q = m
      BY <1>1 DEF Complete, Inv, TypeOK, MatcherState
    <2>8. QED
      BY <2>2, <2>3, <2>4, <2>5, <2>6, <2>7 DEF Next, MatcherStep
  <1>4. e \in mt[m].done
    BY <1>1, <1>2, <1>3, CompleteFacts
  <1>5. WakesStored(m, e) \/ job[e].tries >= MaxTries
    BY <1>1, <1>4 DEF Inv, Durable
  <1>6. QED
    BY <1>1, <1>2, <1>5 DEF Parameters

\* A claim that has not lapsed is changed only by a step of its matcher.
LEMMA ClaimStep ==
  ASSUME Parameters, Inv, Next, NEW m \in Matcher, NEW e \in Event,
         job[e].st = "matching", job[e].claim = m, ~job[e].ripe, job'[e] # job[e], ~job'[e].ripe
  PROVE  mt'[m] # mt[m]
  <1>1. \A x \in Event : ~(InsertEvent(x) \/ DeleteEvent(x) \/ EventAges(x))
    BY Zenon DEF InsertEvent, DeleteEvent, EventAges
  <1>2. \A i \in Inst : ~LeaseStep(i)
    BY Zenon DEF LeaseStep, ActivateBegins, Revoke, LeaseExpires, DisableEndpoint
  <1>3. \A x \in Event : ~CommitEvent(x)
    <2>1. ASSUME NEW x \in Event, CommitEvent(x) PROVE FALSE
      <3>1. job' = job \/ job' = JobsOf({x})
        BY <2>1 DEF CommitEvent
      <3>2. QED
        BY <3>1, JobsOfType DEF Inv
    <2>2. QED
      BY <2>1
  <1>4. ~ActivateCommits
    BY JobsOfType DEF ActivateCommits, Inv
  <1>5. \A x \in Event : ~Ripens(x)
    <2>1. ASSUME NEW x \in Event, Ripens(x) PROVE FALSE
      <3>1. job' = [job EXCEPT ![x].ripe = TRUE]
        BY <2>1 DEF Ripens
      <3>2. CASE x = e
        BY <3>1, <3>2 DEF Inv, TypeOK, JobRow
      <3>3. CASE x # e
        BY <3>1, <3>3 DEF Inv, TypeOK
      <3>4. QED
        BY <3>2, <3>3
    <2>2. QED
      BY <2>1
  <1>6. ~Reap
    BY DEF Reap, Exhausted
  <1>7. \A q \in Matcher, ok \in BOOLEAN : ~ClaimBatch(q, ok)
    BY ClaimedJobs DEF Inv
  <1>8. \A q \in Matcher : ~LoadContext(q) /\ \A ok \in BOOLEAN, bad \in SUBSET Event : ~Flush(q, bad, ok)
    BY Zenon DEF LoadContext, Flush
  <1>9. ASSUME NEW q \in Matcher,
               LoadFails(q) \/ Crash(q) \/ \E ok \in BOOLEAN : Retry(q, ok)
        PROVE  mt'[m] # mt[m]
    <2>1. /\ mt' = [mt EXCEPT ![q] = Idle] /\ mt[q].pc # "idle"
      BY <1>9 DEF LoadFails, Crash, Retry
    <2>2. q = m
      <3>1. CASE Crash(q)
        BY <3>1 DEF Crash
      <3>2. CASE LoadFails(q)
        <4>1. job' = Released(Fenced(q, Mine(q)))
          BY <3>2 DEF LoadFails
        <4>2. QED
          BY <4>1, ReleasedType DEF Inv, Fenced
      <3>3. ASSUME NEW ok \in BOOLEAN, Retry(q, ok) PROVE q = m
        <4>1. job' = Released(Fenced(q, Mine(q) \ mt[q].done))
          BY <3>3, Zenon DEF Retry
        <4>2. QED
          BY <4>1, ReleasedType DEF Inv, Fenced
      <3>4. QED
        BY <1>9, <3>1, <3>2, <3>3
    <2>3. QED
      BY <2>1, <2>2 DEF Idle, Inv, TypeOK
  <1>10. ASSUME NEW q \in Matcher, NEW ok \in BOOLEAN, Complete(q, ok)
         PROVE  mt'[m] # mt[m]
    <2>1. q = m
      BY <1>10, CompleteFacts
    <2>2. QED
      BY <1>10, <2>1 DEF Complete, Inv, TypeOK, MatcherState
  <1>11. QED
    BY <1>1, <1>2, <1>3, <1>4, <1>5, <1>6, <1>7, <1>8, <1>9, <1>10 DEF Next, MatcherStep

\* What the three theorems say of a step.
GateHolds == \A e \in Event : ~Stored(e) /\ Stored(e)' /\ (\E i \in Inst : Eligible(i))
                              => job'[e].st # "none"
DeletesSafely == \A m \in Matcher, e \in Event : Deletes(m, e) =>
                   \A i \in Inst : Eligible(i) /\ <<i, lease[i].gen>> \in mt[m].ctx => outbox[<<i, e>>] # 0
ClaimHolds == \A m \in Matcher, e \in Event :
                job[e].st = "matching" /\ job[e].claim = m /\ ~job[e].ripe /\ job'[e] # job[e]
                  /\ ~job'[e].ripe
                => mt'[m] # mt[m]

\* In every behaviour, no event slips past the gate, jobs are deleted when their wakes
\* are durable, and live claims are respected.
THEOREM Safety ==
  ASSUME Parameters
  PROVE  Spec => GateMissesNothing /\ MatchedIsDurable /\ ClaimIsExclusive
  <1>1. Inv /\ [Next]_vars => [GateHolds]_vars
    BY GateStep DEF GateHolds
  <1>2. Inv /\ [Next]_vars => [DeletesSafely]_vars
    BY DeleteStep DEF DeletesSafely, WakesStored
  <1>3. Inv /\ [Next]_vars => [ClaimHolds]_vars
    BY ClaimStep DEF ClaimHolds
  <1>4. QED
    BY <1>1, <1>2, <1>3, AlwaysInv, PTL
       DEF Spec, GateMissesNothing, MatchedIsDurable, ClaimIsExclusive,
           GateHolds, DeletesSafely, ClaimHolds

=============================================================================
