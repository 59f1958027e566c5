----------------------- MODULE WorkflowScheduleProofs -----------------------
(***************************************************************************)
(* Theorems about WorkflowSchedule: for any number of pods, any period,    *)
(* lateness and interval, an instant is run at most once, and an enabled   *)
(* interval workflow does not fall silent.                                 *)
(***************************************************************************)
EXTENDS WorkflowSchedule, TLAPS

-----------------------------------------------------------------------------
(* At most one run for an instant.                                         *)

PodFields == {"step", "at", "due", "last"}

\* A pod about to create a run holds the claim of its instant alone, and the
\* instant has no run yet.
Claimed ==
  /\ DOMAIN pod = Pod /\ \A p \in Pod : DOMAIN pod[p] = PodFields
  /\ DOMAIN runs \subseteq fires /\ \A c \in DOMAIN runs : runs[c] = 1
  /\ \A p \in Pod : pod[p].step = "create" => pod[p].due \in fires /\ pod[p].due \notin DOMAIN runs
  /\ \A p, q \in Pod :
       pod[p].step = "create" /\ pod[q].step = "create" /\ pod[p].due = pod[q].due => p = q

\* A step in which one pod gets to a step other than the insert and no run is made.
LEMMA NoCreate ==
  ASSUME Claimed, NEW p \in Pod, UNCHANGED <<fires, runs>>,
         DOMAIN pod' = Pod, \A q \in Pod \ {p} : pod'[q] = pod[q],
         DOMAIN pod'[p] = PodFields, pod'[p].step # "create"
  PROVE  Claimed'
  BY DEF Claimed

\* A pod that goes to sleep, and no other, changes.
LEMMA SleepsShape ==
  ASSUME Claimed, NEW p \in Pod, NEW l, Sleeps(p, l)
  PROVE  /\ DOMAIN pod' = Pod /\ \A q \in Pod \ {p} : pod'[q] = pod[q]
         /\ DOMAIN pod'[p] = PodFields /\ pod'[p].step = "sleep"
  BY DEF Claimed, Sleeps, PodFields

\* A pod that tries a claim, and no other, changes.
LEMMA ClaimsShape ==
  ASSUME Claimed, NEW p \in Pod, NEW c, Claims(p, c)
  PROVE  /\ DOMAIN pod' = Pod /\ \A q \in Pod \ {p} : pod'[q] = pod[q]
         /\ DOMAIN pod'[p] = PodFields /\ pod'[p].step = "claim"
  BY DEF Claimed, Claims, PodFields

\* Every step keeps the link between claimed instants and runs.
LEMMA NextClaimed ==
  ASSUME Claimed, [Next]_vars
  PROVE  Claimed'
  <1>1. CASE UNCHANGED vars
    BY <1>1 DEF vars, Claimed
  <1>2. CASE Advance \/ Toggle
    BY <1>2 DEF Advance, Toggle, Claimed
  <1>3. ASSUME NEW p \in Pod,
               \/ TickUnlisted(p) \/ TickListFails(p) \/ TickCron(p)
               \/ ClaimLost(p) \/ ClaimFails(p) \/ CreateFails(p)
        PROVE  Claimed'
    <2>1. UNCHANGED <<fires, runs>>
      BY <1>3 DEF TickUnlisted, TickListFails, TickCron, ClaimLost, ClaimFails, CreateFails
    <2>2. (\E l : Sleeps(p, l)) \/ (\E c : Claims(p, c))
      BY <1>3 DEF TickUnlisted, TickListFails, TickCron, ClaimLost, ClaimFails, CreateFails
    <2>3. QED
      BY <2>1, <2>2, NoCreate, SleepsShape, ClaimsShape
  <1>4. ASSUME NEW p \in Pod, TickInterval(p)
        PROVE  Claimed'
    <2>1. UNCHANGED <<fires, runs>>
      BY <1>4 DEF TickInterval
    <2>2. (\E l : Sleeps(p, l)) \/ (\E c : Claims(p, c))
      BY <1>4 DEF TickInterval
    <2>3. QED
      BY <2>1, <2>2, NoCreate, SleepsShape, ClaimsShape
  <1>5. ASSUME NEW p \in Pod, Restart(p)
        PROVE  Claimed'
    <2>1. /\ UNCHANGED <<fires, runs>> /\ DOMAIN pod' = Pod
          /\ (\A q \in Pod \ {p} : pod'[q] = pod[q]) /\ pod'[p] = Fresh(now)
      BY <1>5 DEF Restart, Claimed
    <2>2. QED
      BY <2>1, NoCreate DEF Fresh, PodFields
  <1>6. ASSUME NEW p \in Pod, ClaimWon(p)
        PROVE  Claimed'
    <2>1. /\ DOMAIN pod' = Pod /\ \A q \in Pod \ {p} : pod'[q] = pod[q]
          /\ DOMAIN pod'[p] = PodFields /\ pod'[p].step = "create" /\ pod'[p].due = pod[p].due
      BY <1>6 DEF ClaimWon, Claimed, PodFields
    <2>2. pod[p].due \notin fires /\ fires' = fires \cup {pod[p].due} /\ runs' = runs
      BY <1>6 DEF ClaimWon, Free
    <2>3. QED
      BY <2>1, <2>2 DEF Claimed
  <1>7. ASSUME NEW p \in Pod, CreateRun(p)
        PROVE  Claimed'
    <2>1. /\ DOMAIN pod' = Pod /\ \A q \in Pod \ {p} : pod'[q] = pod[q]
          /\ DOMAIN pod'[p] = PodFields /\ pod'[p].step = "sleep"
      BY <1>7, SleepsShape DEF CreateRun
    <2>2. pod[p].due \in fires /\ pod[p].due \notin DOMAIN runs /\ fires' = fires
      BY <1>7 DEF CreateRun, Claimed
    <2>3. /\ DOMAIN runs' = DOMAIN runs \cup {pod[p].due}
          /\ \A c \in DOMAIN runs : runs'[c] = runs[c] + 0
          /\ runs'[pod[p].due] = 0 + 1
      BY <1>7, <2>2 DEF CreateRun, SetToBag, (+)
    <2>4. \A c \in DOMAIN runs' : runs'[c] = 1
      BY <2>3 DEF Claimed
    <2>5. \A q \in Pod \ {p} : pod[q].step = "create" => pod[q].due # pod[p].due
      BY <1>7 DEF CreateRun, Claimed
    <2>6. QED
      BY <2>1, <2>2, <2>3, <2>4, <2>5 DEF Claimed
  <1>8. QED
    BY <1>1, <1>2, <1>3, <1>4, <1>5, <1>6, <1>7 DEF Next

\* The claim row is the at-most-once boundary, for every set of pods and whatever
\* the trigger, the clock and the faults do.
THEOREM OnceOnly == Spec => []OneRunPerInstant
  <1>1. Init => Claimed
    BY DEF Init, Claimed, Fresh, PodFields, EmptyBag, SetToBag
  <1>2. Claimed /\ [Next]_vars => Claimed'
    BY NextClaimed
  <1>3. Claimed => OneRunPerInstant
    BY DEF Claimed, OneRunPerInstant, BagToSet
  <1>4. QED
    BY <1>1, <1>2, <1>3, PTL DEF Spec

-----------------------------------------------------------------------------
(* An interval workflow keeps firing.                                      *)

\* What the loop needs of its parameters: a pod that runs it, and an interval that
\* parse_duration_secs accepts as positive.
Parameters ==
  /\ Pod # {} /\ None \notin Nat
  /\ Period \in Nat /\ Drift \in Nat /\ Interval \in Nat \ {0}

PodState == [step : {"sleep", "claim", "create"}, at : Nat,
             due : Nat \cup {None}, last : Nat \cup {None}]

\* x is not before any claimed instant.
Newest(x) == \A f \in fires : f =< x

\* The clock and the claims.  fires has a greatest element, unless it is empty.
Clock ==
  /\ now \in Nat /\ steady \in Nat /\ steady =< now
  /\ \A f \in fires : f \in Nat /\ f =< steady /\ \E k \in Nat : f = k * Interval
  /\ fires # {} => \E m \in fires : Newest(m)

\* What every pod knows: it is on time, and it claims only what was due.
OnTime(r) ==
  /\ r.at =< now /\ now =< r.at + Drift + (IF r.step = "sleep" THEN Period ELSE 0)
  /\ r.last # None => r.last =< now
  /\ r.step # "sleep" => /\ r.due = IntervalFireInstant(r.at)
                         /\ r.last # None => r.last + Interval =< r.at
  /\ r.step = "create" => r.at =< steady

\* A pod that will win a claim in time.  Asleep, it has no entry and goes by the
\* claims, or an entry that is not before the claims, or one that is long overdue.
Overdue(r) ==
  \/ /\ r.last = None
     /\ enabled => r.at =< steady \/ \E f \in fires : r.at < f + Interval
  \/ /\ r.last # None /\ Newest(r.last)
     /\ enabled => /\ r.last =< steady + Period + Drift
                   /\ \/ r.at =< steady \/ r.at < r.last + Interval
                      \/ r.at < steady + Interval + Drift
  \/ /\ r.last # None /\ r.last + Interval =< r.at
     /\ enabled => r.at =< steady

FiresNext(r) ==
  /\ r.step = "sleep" => Overdue(r)
  /\ r.step # "sleep" => Newest(r.due)
  /\ r.step = "claim" /\ enabled =>
       /\ r.at =< steady + Interval + 2 * Period + 2 * Drift
       /\ r.due \in fires => r.at =< steady + Period + Drift

Firing ==
  trigger = "interval" =>
    /\ Clock
    /\ pod \in [Pod -> PodState]
    /\ \A p \in Pod : OnTime(pod[p])
    /\ \E p \in Pod : FiresNext(pod[p])

\* The bucket of an instant starts at most an interval before it.
LEMMA BucketBounds ==
  ASSUME Parameters, NEW t \in Nat
  PROVE  /\ IntervalFireInstant(t) \in Nat
         /\ IntervalFireInstant(t) =< t /\ t < IntervalFireInstant(t) + Interval
         /\ \E k \in Nat : IntervalFireInstant(t) = k * Interval
  <1> DEFINE k == t \div Interval
  <1>1. k \in Nat /\ k * Interval \in Nat /\ t = k * Interval + (t % Interval)
    BY DEF Parameters
  <1>2. t % Interval \in 0..(Interval - 1)
    BY DEF Parameters
  <1>3. IntervalFireInstant(t) = k * Interval
    BY DEF IntervalFireInstant
  <1> HIDE DEF k
  <1>4. k * Interval =< t /\ t < k * Interval + Interval
    BY <1>1, <1>2 DEF Parameters
  <1>5. QED
    BY <1>1, <1>3, <1>4

\* No bucket starts between the start of the one an instant is in and the instant.
LEMMA BucketIsLast ==
  ASSUME Parameters, NEW t \in Nat, NEW k \in Nat, k * Interval =< t
  PROVE  k * Interval =< IntervalFireInstant(t)
  <1>1. PICK q \in Nat : IntervalFireInstant(t) = q * Interval
    BY BucketBounds
  <1>2. t < q * Interval + Interval
    BY <1>1, BucketBounds
  <1>3. CASE k =< q
    BY <1>1, <1>3 DEF Parameters
  <1>4. CASE k >= q + 1
    <2>1. k * Interval >= (q + 1) * Interval
      BY <1>4 DEF Parameters
    <2>2. (q + 1) * Interval = q * Interval + Interval
      BY DEF Parameters
    <2>3. q * Interval \in Nat /\ k * Interval \in Nat
      BY DEF Parameters
    <2>4. QED
      BY <1>2, <2>1, <2>2, <2>3 DEF Parameters
  <1>5. QED
    BY <1>3, <1>4

\* The anchor read from the table is the greatest claimed instant.
LEMMA AnchorIsNewest ==
  ASSUME Clock, fires # {}
  PROVE  Max(fires) \in fires /\ Newest(Max(fires))
  <1>1. \E m \in fires : \A f \in fires : m >= f
    BY DEF Clock, Newest
  <1>2. Max(fires) \in fires /\ \A f \in fires : Max(fires) >= f
    BY <1>1 DEF Max
  <1>3. QED
    BY <1>2 DEF Newest, Clock

\* Later faults and claims only give a pod more time.
LEMMA FiresNextGrows ==
  ASSUME Parameters, Clock, NEW r \in PodState, FiresNext(r),
         steady' \in Nat, steady =< steady', UNCHANGED <<fires, enabled>>
  PROVE  FiresNext(r)'
  BY DEF Parameters, Clock, PodState, FiresNext, Overdue, Newest

\* A step of one pod that claims nothing.
LEMMA OnePod ==
  ASSUME Parameters, Firing, trigger = "interval", NEW p \in Pod,
         UNCHANGED <<trigger, fires, enabled, now>>,
         steady' \in Nat, steady =< steady', steady' =< now,
         pod' \in [Pod -> PodState], \A q \in Pod \ {p} : pod'[q] = pod[q],
         OnTime(pod[p])', FiresNext(pod[p]) => FiresNext(pod[p])'
  PROVE  Firing'
  <1>1. Clock /\ pod \in [Pod -> PodState]
    BY DEF Firing
  <1>2. Clock'
    BY <1>1 DEF Clock, Newest
  <1>3. ASSUME NEW q \in Pod
        PROVE  OnTime(pod[q])'
    <2>1. CASE q = p
      BY <2>1
    <2>2. CASE q # p
      <3>1. pod'[q] = pod[q] /\ OnTime(pod[q]) /\ pod[q] \in PodState
        BY <2>2 DEF Firing
      <3>2. QED
        BY <1>1, <3>1 DEF OnTime, Clock, PodState
    <2>3. QED
      BY <2>1, <2>2
  <1>4. \E q \in Pod : FiresNext(pod[q])'
    <2>1. PICK g \in Pod : FiresNext(pod[g])
      BY DEF Firing
    <2>2. CASE g = p
      BY <2>1, <2>2
    <2>3. CASE g # p
      <3>1. PICK r \in PodState : r = pod[g]
        BY <1>1
      <3>2. FiresNext(r)'
        BY <1>1, <2>1, <3>1, FiresNextGrows
      <3>3. pod'[g] = r
        BY <2>3, <3>1
      <3>4. FiresNext(pod[g])'
        BY <3>2, <3>3 DEF FiresNext, Overdue, Newest
      <3>5. QED
        BY <3>4
    <2>4. QED
      BY <2>2, <2>3
  <1>5. QED
    BY <1>2, <1>3, <1>4 DEF Firing

\* What a pod that goes to sleep remembers.
LEMMA SleepsFacts ==
  ASSUME Firing, trigger = "interval", now \in Nat,
         NEW p \in Pod, NEW l \in Nat \cup {None}, Sleeps(p, l)
  PROVE  /\ pod' \in [Pod -> PodState] /\ \A q \in Pod \ {p} : pod'[q] = pod[q]
         /\ pod'[p].step = "sleep" /\ pod'[p].at = now /\ pod'[p].last = l
  BY DEF Firing, Sleeps, PodState

\* What a pod that tries a claim remembers.
LEMMA ClaimsFacts ==
  ASSUME Firing, trigger = "interval", now \in Nat,
         NEW p \in Pod, NEW c \in Nat, Claims(p, c)
  PROVE  /\ pod' \in [Pod -> PodState] /\ \A q \in Pod \ {p} : pod'[q] = pod[q]
         /\ pod'[p].step = "claim" /\ pod'[p].at = now /\ pod'[p].due = c
         /\ pod'[p].last = pod[p].last
  BY DEF Firing, Claims, PodState

\* A pod that goes back to sleep.
LEMMA GoesToSleep ==
  ASSUME Parameters, Firing, trigger = "interval", NEW p \in Pod,
         NEW l \in Nat \cup {None}, l # None => l =< now, Sleeps(p, l),
         UNCHANGED <<trigger, fires, enabled, now>>, steady' \in {steady, now},
         FiresNext(pod[p]) => Overdue(pod[p])'
  PROVE  Firing'
  <1>1. now \in Nat /\ steady \in Nat /\ steady =< now
    BY DEF Firing, Clock
  <1>2. /\ pod' \in [Pod -> PodState] /\ \A q \in Pod \ {p} : pod'[q] = pod[q]
        /\ pod'[p].step = "sleep" /\ pod'[p].at = now /\ pod'[p].last = l
    BY <1>1, SleepsFacts
  <1>3. OnTime(pod[p])'
    BY <1>1, <1>2 DEF OnTime, Parameters
  <1>4. FiresNext(pod[p]) => FiresNext(pod[p])'
    BY <1>2 DEF FiresNext
  <1>5. steady' \in Nat /\ steady =< steady' /\ steady' =< now
    BY <1>1
  <1>6. QED
    BY <1>2, <1>3, <1>4, <1>5, OnePod

\* What the step lemmas use of the invariant.
LEMMA PodFacts ==
  ASSUME Parameters, Firing, trigger = "interval", NEW p \in Pod
  PROVE  /\ now \in Nat /\ steady \in Nat /\ steady =< now
         /\ Period \in Nat /\ Drift \in Nat /\ Interval \in Nat /\ Interval > 0
         /\ \A f \in fires : f \in Nat /\ f =< steady
         /\ pod[p].step \in {"sleep", "claim", "create"} /\ pod[p].at \in Nat
         /\ pod[p].due \in Nat \cup {None} /\ pod[p].last \in Nat \cup {None}
         /\ OnTime(pod[p])
  BY DEF Firing, Clock, PodState, Parameters

\* A tick that does not list the workflow forgets its last firing.
LEMMA TickUnlistedFires ==
  ASSUME Parameters, Firing, trigger = "interval", NEW p \in Pod, TickUnlisted(p)
  PROVE  Firing'
  <1>1. now \in Nat
    BY PodFacts
  <1>2. pod'[p].last = None
    BY <1>1, SleepsFacts DEF TickUnlisted
  <1>3. Overdue(pod[p])'
    BY <1>2 DEF Overdue, TickUnlisted
  <1>4. QED
    BY <1>3, GoesToSleep DEF TickUnlisted, Calm

\* After a failure the pod sleeps again with the entry it had.
LEMMA FailureFires ==
  ASSUME Parameters, Firing, trigger = "interval", NEW p \in Pod,
         TickListFails(p) \/ ClaimFails(p) \/ CreateFails(p)
  PROVE  Firing'
  <1>1. /\ Sleeps(p, pod[p].last) /\ steady' = now
        /\ UNCHANGED <<trigger, fires, enabled, now>>
    BY DEF TickListFails, ClaimFails, CreateFails, Fault
  <1>2. /\ now \in Nat /\ steady \in Nat /\ steady =< now
        /\ Period \in Nat /\ Drift \in Nat /\ Interval \in Nat /\ Interval > 0
        /\ pod[p].at \in Nat /\ pod[p].last \in Nat \cup {None} /\ OnTime(pod[p])
    BY PodFacts
  <1>3. pod'[p].at = now /\ pod'[p].last = pod[p].last
    BY <1>1, <1>2, SleepsFacts
  <1>4. pod[p].last # None => pod[p].last =< now
    BY <1>2 DEF OnTime
  <1>5. FiresNext(pod[p]) => Overdue(pod[p])'
    <2>1. CASE pod[p].step = "sleep"
      BY <1>1, <1>2, <1>3, <1>4, <2>1 DEF FiresNext, Overdue, OnTime, Newest
    <2>2. CASE pod[p].step # "sleep"
      <3>1. pod[p].last # None => pod[p].last + Interval =< pod[p].at /\ pod[p].at =< now
        BY <1>2, <2>2 DEF OnTime
      <3>2. QED
        BY <1>1, <1>2, <1>3, <3>1 DEF Overdue, Parameters
    <2>3. QED
      BY <2>1, <2>2
  <1>6. QED
    BY <1>1, <1>2, <1>4, <1>5, GoesToSleep

\* A restarted pod starts a new steady stretch.
LEMMA RestartFires ==
  ASSUME Parameters, Firing, trigger = "interval", NEW p \in Pod, Restart(p)
  PROVE  Firing'
  <1>1. now \in Nat /\ steady \in Nat /\ steady =< now
    BY PodFacts
  <1>2. Sleeps(p, None) /\ steady' = now /\ UNCHANGED <<trigger, fires, enabled, now>>
    BY DEF Restart, Fault, Fresh, Sleeps
  <1>3. pod'[p].at = now /\ pod'[p].last = None
    BY <1>1, <1>2, SleepsFacts
  <1>4. Overdue(pod[p])'
    BY <1>1, <1>2, <1>3 DEF Overdue
  <1>5. QED
    BY <1>2, <1>4, GoesToSleep

\* The entry after a claim is the tick that made it; a lost one was made soon enough.
LEMMA ClaimLostFires ==
  ASSUME Parameters, Firing, trigger = "interval", NEW p \in Pod, ClaimLost(p)
  PROVE  Firing'
  <1>1. /\ Sleeps(p, pod[p].at) /\ pod[p].step = "claim" /\ pod[p].due \in fires
        /\ UNCHANGED <<steady, trigger, fires, enabled, now>>
    BY DEF ClaimLost, Entry, Calm, Free
  <1>2. /\ now \in Nat /\ steady \in Nat /\ steady =< now
        /\ Period \in Nat /\ Drift \in Nat /\ Interval \in Nat /\ Interval > 0
        /\ pod[p].at \in Nat /\ OnTime(pod[p])
        /\ \A f \in fires : f \in Nat /\ f =< steady
    BY PodFacts
  <1>3. /\ pod[p].due =< pod[p].at /\ pod[p].at < pod[p].due + Interval
        /\ pod[p].at =< now /\ now =< pod[p].at + Drift
    <2> DEFINE b == IntervalFireInstant(pod[p].at)
    <2>1. b \in Nat /\ b =< pod[p].at /\ pod[p].at < b + Interval
      BY <1>2, BucketBounds
    <2>2. pod[p].due = b
      BY <1>1, <1>2 DEF OnTime
    <2> HIDE DEF b
    <2>3. QED
      BY <1>1, <1>2, <2>1, <2>2 DEF OnTime
  <1>4. pod[p].at < steady + Interval /\ now < steady + Interval + Drift
    BY <1>1, <1>2, <1>3
  <1>5. pod'[p].at = now /\ pod'[p].last = pod[p].at
    BY <1>1, <1>2, SleepsFacts
  <1>6. ASSUME FiresNext(pod[p]) PROVE Overdue(pod[p])'
    <2>1. pod'[p].last # None
      BY <1>2, <1>5 DEF Parameters
    <2>2. Newest(pod[p].last)'
      BY <1>1, <1>2, <1>3, <1>5, <1>6 DEF FiresNext, Newest
    <2>3. enabled => pod[p].at =< steady + Period + Drift
      BY <1>1, <1>6 DEF FiresNext
    <2>4. QED
      BY <1>1, <1>4, <1>5, <2>1, <2>2, <2>3 DEF Overdue
  <1>7. QED
    BY <1>1, <1>2, <1>3, <1>6, GoesToSleep

\* A run is created and the pod remembers the tick as the last firing.
LEMMA CreateRunFires ==
  ASSUME Parameters, Firing, trigger = "interval", NEW p \in Pod, CreateRun(p)
  PROVE  Firing'
  <1>1. /\ Sleeps(p, pod[p].at) /\ pod[p].step = "create"
        /\ UNCHANGED <<steady, trigger, fires, enabled, now>>
    BY DEF CreateRun, Entry, Calm
  <1>2. /\ now \in Nat /\ steady \in Nat /\ steady =< now
        /\ Period \in Nat /\ Drift \in Nat /\ Interval \in Nat /\ Interval > 0
        /\ pod[p].at \in Nat /\ pod[p].due \in Nat \cup {None} /\ OnTime(pod[p])
        /\ \A f \in fires : f \in Nat /\ f =< steady
    BY PodFacts
  <1>3. /\ pod[p].due \in Nat /\ pod[p].due =< pod[p].at
        /\ pod[p].at =< steady /\ pod[p].at =< now /\ now =< pod[p].at + Drift
    <2> DEFINE b == IntervalFireInstant(pod[p].at)
    <2>1. b \in Nat /\ b =< pod[p].at /\ pod[p].at < b + Interval
      BY <1>2, BucketBounds
    <2>2. pod[p].due = b
      BY <1>1, <1>2 DEF OnTime
    <2> HIDE DEF b
    <2>3. QED
      BY <1>1, <1>2, <2>1, <2>2 DEF OnTime
  <1>4. pod'[p].at = now /\ pod'[p].last = pod[p].at
    BY <1>1, <1>2, SleepsFacts
  <1>5. ASSUME FiresNext(pod[p]) PROVE Overdue(pod[p])'
    <2>1. pod'[p].last # None
      BY <1>2, <1>4 DEF Parameters
    <2>2. Newest(pod[p].last)'
      BY <1>1, <1>2, <1>3, <1>4, <1>5 DEF FiresNext, Newest
    <2>3. now < steady + Interval + Drift /\ pod[p].at =< steady + Period + Drift
      BY <1>2, <1>3
    <2>4. QED
      BY <1>1, <1>4, <2>1, <2>2, <2>3 DEF Overdue
  <1>6. QED
    BY <1>1, <1>2, <1>3, <1>5, GoesToSleep

\* A tick of the pod that is to fire next: it claims an instant after all others, or
\* sleeps again with the entry that the next tick needs.
LEMMA TickIntervalFires ==
  ASSUME Parameters, Firing, trigger = "interval", NEW p \in Pod, TickInterval(p)
  PROVE  Firing'
  <1>1. /\ pod[p].step = "sleep" /\ enabled
        /\ UNCHANGED <<trigger, fires, enabled, now>>
    BY DEF TickInterval, Awake
  <1>2. /\ now \in Nat /\ steady \in Nat /\ steady =< now
        /\ Period \in Nat /\ Drift \in Nat /\ Interval \in Nat /\ Interval > 0
        /\ pod[p].at \in Nat /\ pod[p].last \in Nat \cup {None}
        /\ OnTime(pod[p]) /\ \A f \in fires : f \in Nat /\ f =< steady
    BY PodFacts
  <1>3. /\ pod[p].at =< now /\ now =< pod[p].at + Drift + Period
        /\ pod[p].last # None => pod[p].last =< now
    BY <1>1, <1>2 DEF OnTime
  <1>4. PICK l \in Anchors(p) :
          /\ IF IntervalShouldFire(l, now) THEN Claims(p, IntervalFireInstant(now))
             ELSE Sleeps(p, Seeded(p, l, now))
          /\ IF ReadFailed(p, l) THEN Fault ELSE Calm
    BY DEF TickInterval
  <1>5. steady' \in {steady, now} /\ (ReadFailed(p, l) => steady' = now)
    BY <1>4 DEF Fault, Calm
  <1>6. \/ pod[p].last # None /\ l = pod[p].last
        \/ pod[p].last = None /\ l = None
        \/ pod[p].last = None /\ fires # {} /\ l \in fires /\ Newest(l)
    BY <1>4, AnchorIsNewest DEF Anchors, Firing
  <1>7. l \in Nat \cup {None} /\ (l # None => l =< now)
    BY <1>2, <1>3, <1>6
  <1>8. CASE IntervalShouldFire(l, now)
    <2> DEFINE c == IntervalFireInstant(now)
    <2>1. l \in Nat /\ l + Interval =< now
      BY <1>2, <1>7, <1>8 DEF IntervalShouldFire
    <2>2. c \in Nat /\ c =< now /\ now < c + Interval
      BY <1>2, BucketBounds
    <2>3. /\ pod' \in [Pod -> PodState] /\ \A q \in Pod \ {p} : pod'[q] = pod[q]
          /\ pod'[p].step = "claim" /\ pod'[p].at = now /\ pod'[p].due = c
          /\ pod'[p].last = pod[p].last
      BY <1>2, <1>4, <1>8, <2>2, ClaimsFacts
    <2>4. OnTime(pod[p])'
      <3>1. pod[p].last # None => pod[p].last + Interval =< now
        BY <1>6, <2>1
      <3>2. pod'[p].due = IntervalFireInstant(pod[p].at)'
        BY <1>1, <2>3 DEF IntervalFireInstant
      <3>3. QED
        BY <1>1, <1>2, <1>3, <2>3, <3>1, <3>2 DEF OnTime
    <2>5. \A f \in fires : f =< c
      <3>1. ASSUME NEW f \in fires PROVE f =< c
        <4>1. PICK k \in Nat : f = k * Interval
          BY DEF Firing, Clock
        <4>2. f =< now
          BY <1>2
        <4>3. QED
          BY <1>2, <4>1, <4>2, BucketIsLast
      <3>2. QED
        BY <3>1
    <2> HIDE DEF c
    <2>6. ASSUME FiresNext(pod[p]) PROVE FiresNext(pod[p])'
      <3>1. Overdue(pod[p])
        BY <1>1, <2>6 DEF FiresNext
      <3>2. now =< steady + Interval + 2 * Period + 2 * Drift
        BY <1>1, <1>2, <1>3, <3>1 DEF Overdue
      <3>3. c \in fires => now =< steady + Period + Drift
        <4>1. CASE pod[p].last # None /\ pod[p].last + Interval =< pod[p].at /\ pod[p].at =< steady
          BY <1>2, <1>3, <4>1
        <4>2. CASE Newest(l)
          BY <1>2, <2>1, <2>2, <4>2 DEF Newest
        <4>3. CASE pod[p].last = None /\ l = None
          BY <2>1, <4>3 DEF Parameters
        <4>4. QED
          BY <1>1, <1>6, <3>1, <4>1, <4>2, <4>3 DEF Overdue
      <3>4. steady =< steady'
        BY <1>2, <1>5
      <3>5. QED
        BY <1>1, <1>2, <1>5, <2>2, <2>3, <2>5, <3>2, <3>3, <3>4 DEF FiresNext, Newest
    <2>7. QED
      BY <1>1, <1>2, <1>5, <2>3, <2>4, <2>6, OnePod
  <1>9. CASE ~IntervalShouldFire(l, now)
    <2> DEFINE s == Seeded(p, l, now)
    <2>1. l # None => now < l + Interval
      BY <1>2, <1>7, <1>9 DEF IntervalShouldFire
    <2>2. s \in Nat \cup {None} /\ (s # None => s =< now)
      BY <1>2, <1>3 DEF Seeded
    <2>3. Sleeps(p, s)
      BY <1>4, <1>9
    <2>4. pod'[p].at = now /\ pod'[p].last = s
      BY <1>2, <2>2, <2>3, SleepsFacts
    <2>5. ASSUME FiresNext(pod[p]) PROVE Overdue(pod[p])'
      <3>1. Overdue(pod[p])
        BY <1>1, <2>5 DEF FiresNext
      <3>2. CASE l = None
        <4>1. s = now /\ pod[p].last = None /\ now # None /\ Newest(s)
          BY <1>2, <1>6, <3>2 DEF Seeded, Parameters, Newest
        <4>2. now =< steady' + Period + Drift
          <5>1. CASE fires = {}
            BY <1>2, <1>3, <1>5, <3>1, <4>1, <5>1, <1>1 DEF Overdue
          <5>2. CASE fires # {}
            BY <1>2, <1>5, <3>2, <4>1, <5>2 DEF ReadFailed
          <5>3. QED
            BY <5>1, <5>2
        <4>3. now < now + Interval
          BY <1>2
        <4>4. QED
          BY <1>1, <2>4, <4>1, <4>2, <4>3 DEF Overdue, Newest
      <3>3. CASE l # None /\ pod[p].last = None
        <4>1. s = None /\ l \in fires /\ now < l + Interval
          BY <1>6, <2>1, <3>3 DEF Seeded
        <4>2. QED
          BY <1>1, <2>4, <4>1 DEF Overdue
      <3>4. CASE l # None /\ pod[p].last # None
        <4>1. s = l /\ l = pod[p].last /\ now < l + Interval
          BY <1>6, <2>1, <3>4 DEF Seeded
        <4>2. Newest(l) /\ l =< steady + Period + Drift
          BY <1>1, <1>2, <1>3, <3>1, <3>4, <4>1 DEF Overdue
        <4>3. l =< steady' + Period + Drift
          BY <1>2, <1>5, <1>7, <3>4, <4>2
        <4>4. QED
          BY <1>1, <2>4, <3>4, <4>1, <4>2, <4>3 DEF Overdue, Newest
      <3>5. QED
        BY <3>2, <3>3, <3>4
    <2> HIDE DEF s
    <2>6. QED
      BY <1>1, <1>5, <2>2, <2>3, <2>5, GoesToSleep
  <1>10. QED
    BY <1>8, <1>9

\* A claim: of the newest instant, and its pod is the one to fire next; or of an
\* older one, by a slow pod, and the pod that was to fire next still is.
LEMMA ClaimWonFires ==
  ASSUME Parameters, Firing, trigger = "interval", NEW p \in Pod, ClaimWon(p)
  PROVE  Firing'
  <1> DEFINE d == pod[p].due
  <1>1. /\ pod[p].step = "claim" /\ d \notin fires /\ fires' = fires \cup {d}
        /\ steady' = now /\ UNCHANGED <<trigger, enabled, now>>
    BY DEF ClaimWon, Free
  <1>2. /\ now \in Nat /\ steady \in Nat /\ steady =< now
        /\ Period \in Nat /\ Drift \in Nat /\ Interval \in Nat /\ Interval > 0
        /\ pod[p].at \in Nat /\ pod[p].last \in Nat \cup {None}
        /\ OnTime(pod[p]) /\ \A f \in fires : f \in Nat /\ f =< steady
    BY PodFacts
  <1>3. d \in Nat /\ d =< now /\ \E k \in Nat : d = k * Interval
    <2> DEFINE b == IntervalFireInstant(pod[p].at)
    <2>1. b \in Nat /\ b =< pod[p].at /\ \E k \in Nat : b = k * Interval
      BY <1>2, BucketBounds
    <2>2. d = b /\ pod[p].at =< now
      BY <1>1, <1>2 DEF OnTime
    <2> HIDE DEF b
    <2>3. QED
      BY <1>2, <2>1, <2>2
  <1>4. /\ pod' \in [Pod -> PodState] /\ \A q \in Pod \ {p} : pod'[q] = pod[q]
        /\ pod'[p].step = "create" /\ pod'[p].at = pod[p].at
        /\ pod'[p].due = d /\ pod'[p].last = pod[p].last
    BY DEF ClaimWon, Firing, PodState
  <1> HIDE DEF d
  <1>5. Clock'
    <2>1. \A f \in fires' : f \in Nat /\ f =< now /\ \E k \in Nat : f = k * Interval
      <3>1. \A f \in fires : f =< now
        BY <1>2
      <3>2. \A f \in fires : f \in Nat /\ \E k \in Nat : f = k * Interval
        BY DEF Firing, Clock
      <3>3. QED
        BY <1>1, <1>3, <3>1, <3>2
    <2>2. \E m \in fires' : \A f \in fires' : f =< m
      <3>1. CASE Newest(d)
        BY <1>1, <1>3, <3>1 DEF Newest
      <3>2. CASE ~Newest(d)
        <4>1. PICK e \in fires : ~(e =< d)
          BY <3>2 DEF Newest
        <4>2. PICK m \in fires : Newest(m)
          BY <4>1 DEF Firing, Clock
        <4>3. d =< m
          BY <1>2, <1>3, <4>1, <4>2 DEF Newest
        <4>4. QED
          BY <1>1, <4>2, <4>3 DEF Newest
      <3>3. QED
        BY <3>1, <3>2
    <2>3. QED
      BY <1>1, <1>2, <2>1, <2>2 DEF Clock, Newest
  <1>6. ASSUME NEW q \in Pod PROVE OnTime(pod[q])'
    <2>1. CASE q = p
      <3>1. pod'[p].due = IntervalFireInstant(pod[p].at)'
        BY <1>1, <1>2, <1>4 DEF OnTime, IntervalFireInstant, d
      <3>2. QED
        BY <1>1, <1>2, <1>4, <2>1, <3>1 DEF OnTime
    <2>2. CASE q # p
      <3>1. pod'[q] = pod[q] /\ OnTime(pod[q]) /\ pod[q] \in PodState
        BY <1>4, <2>2 DEF Firing
      <3>2. QED
        BY <1>1, <1>2, <3>1 DEF OnTime, PodState
    <2>3. QED
      BY <2>1, <2>2
  <1>7. \E q \in Pod : FiresNext(pod[q])'
    <2>1. CASE Newest(d)
      <3>1. FiresNext(pod[p])'
        BY <1>1, <1>3, <1>4, <2>1 DEF FiresNext, Newest
      <3>2. QED
        BY <3>1
    <2>2. CASE ~Newest(d)
      <3>1. PICK g \in Pod : FiresNext(pod[g])
        BY DEF Firing
      <3>2. g # p
        BY <1>1, <2>2, <3>1 DEF FiresNext, d
      <3>3. PICK r \in PodState : r = pod[g]
        BY DEF Firing
      <3>4. \A x \in Nat : Newest(x) => x > d /\ \A f \in fires' : f =< x
        <4>1. PICK e \in fires : e > d
          BY <1>2, <1>3, <2>2 DEF Newest
        <4>2. ASSUME NEW x \in Nat, Newest(x) PROVE x > d /\ \A f \in fires' : f =< x
          BY <1>1, <1>2, <1>3, <4>1, <4>2 DEF Newest
        <4>3. QED
          BY <4>2
      <3>5. r.step # "sleep" => r.due \in Nat
        <4>1. OnTime(pod[g]) /\ pod[g].at \in Nat
          BY PodFacts
        <4>2. QED
          BY <3>3, <4>1, BucketBounds DEF OnTime
      <3>6. FiresNext(r)'
        <4>1. ASSUME r.step = "sleep" PROVE Overdue(r)'
          <5>1. Overdue(r)
            BY <3>1, <3>3, <4>1 DEF FiresNext
          <5>2. r.last # None /\ Newest(r.last) => \A f \in fires' : f =< r.last
            BY <3>4 DEF PodState
          <5>3. QED
            BY <1>1, <1>2, <5>1, <5>2 DEF Overdue, Newest, PodState
        <4>2. ASSUME r.step # "sleep" PROVE r.due > d /\ \A f \in fires' : f =< r.due
          BY <3>1, <3>3, <3>4, <3>5, <4>2 DEF FiresNext
        <4>3. ASSUME r.step = "claim", enabled
              PROVE  /\ r.at =< steady' + Interval + 2 * Period + 2 * Drift
                     /\ r.due \in fires' => r.at =< steady' + Period + Drift
          <5>1. r.due \in fires' => r.due \in fires
            BY <1>1, <1>3, <3>5, <4>2, <4>3
          <5>2. QED
            BY <1>1, <1>2, <3>1, <3>3, <4>3, <5>1 DEF FiresNext, PodState
        <4>4. QED
          BY <1>1, <4>1, <4>2, <4>3 DEF FiresNext, Newest
      <3>7. pod'[g] = r
        BY <1>4, <3>2, <3>3
      <3>8. FiresNext(pod[g])'
        BY <3>6, <3>7 DEF FiresNext, Overdue, Newest
      <3>9. QED
        BY <3>8
    <2>3. QED
      BY <2>1, <2>2
  <1>8. QED
    BY <1>4, <1>5, <1>6, <1>7 DEF Firing

\* The clock does not pass a pod that has something to do.
LEMMA AdvanceFires ==
  ASSUME Parameters, Firing, trigger = "interval", Advance
  PROVE  Firing'
  <1>1. now' = now + 1 /\ UNCHANGED <<trigger, enabled, pod, fires, steady>>
    BY DEF Advance
  <1>2. Clock'
    BY <1>1 DEF Firing, Clock, Newest
  <1>3. ASSUME NEW p \in Pod PROVE OnTime(pod[p])'
    <2>1. /\ now \in Nat /\ Period \in Nat /\ Drift \in Nat /\ pod[p].at \in Nat
          /\ pod[p].last \in Nat \cup {None} /\ OnTime(pod[p]) /\ InTime(p)
      BY PodFacts DEF Advance
    <2>2. pod'[p].due = IntervalFireInstant(pod[p].at)' <=> pod[p].due = IntervalFireInstant(pod[p].at)
      BY <1>1 DEF IntervalFireInstant
    <2>3. QED
      BY <1>1, <2>1, <2>2 DEF OnTime, InTime
  <1>4. \E p \in Pod : FiresNext(pod[p])'
    BY <1>1 DEF Firing, FiresNext, Overdue, Newest
  <1>5. QED
    BY <1>1, <1>2, <1>3, <1>4 DEF Firing

\* Whoever enables the workflow again gives every pod its full time.
LEMMA ToggleFires ==
  ASSUME Parameters, Firing, trigger = "interval", Toggle
  PROVE  Firing'
  <1>1. steady' = now /\ UNCHANGED <<trigger, pod, fires, now>>
    BY DEF Toggle, Fault
  <1>2. Clock'
    BY <1>1 DEF Firing, Clock, Newest
  <1>3. ASSUME NEW p \in Pod PROVE OnTime(pod[p])'
    <2>1. now \in Nat /\ steady \in Nat /\ steady =< now /\ pod[p].at \in Nat /\ OnTime(pod[p])
      BY PodFacts
    <2>2. QED
      BY <1>1, <2>1 DEF OnTime
  <1>4. \E p \in Pod : FiresNext(pod[p])'
    <2>1. PICK p \in Pod : FiresNext(pod[p])
      BY DEF Firing
    <2>2. /\ now \in Nat /\ Period \in Nat /\ Drift \in Nat /\ Interval \in Nat
          /\ pod[p].at \in Nat /\ pod[p].last \in Nat \cup {None} /\ OnTime(pod[p])
      BY PodFacts
    <2>3. pod[p].at =< now /\ (pod[p].last # None => pod[p].last =< now)
      BY <2>2 DEF OnTime
    <2>4. FiresNext(pod[p])'
      BY <1>1, <2>1, <2>2, <2>3 DEF FiresNext, Overdue, Newest
    <2>5. QED
      BY <2>4
  <1>5. QED
    BY <1>1, <1>2, <1>3, <1>4 DEF Firing

\* A fresh scheduler satisfies the invariant of the interval trigger.
LEMMA InitFiring ==
  ASSUME Parameters, Init
  PROVE  Firing
  <1>1. now = 0 /\ steady = 0 /\ fires = {} /\ pod = [p \in Pod |-> Fresh(0)]
    BY DEF Init
  <1>2. Clock
    BY <1>1 DEF Clock
  <1>3. pod \in [Pod -> PodState]
    BY <1>1 DEF Fresh, PodState
  <1>4. \A p \in Pod : OnTime(pod[p]) /\ FiresNext(pod[p])
    BY <1>1 DEF OnTime, FiresNext, Overdue, Fresh, Parameters
  <1>5. QED
    BY <1>2, <1>3, <1>4 DEF Firing, Parameters

\* Every step preserves the invariant of the interval trigger.
LEMMA NextFiring ==
  ASSUME Parameters, Firing, [Next]_vars
  PROVE  Firing'
  <1>1. CASE UNCHANGED vars
    BY <1>1 DEF vars, Firing, Clock, OnTime, FiresNext, Overdue, Newest
  <1>2. trigger' = trigger
    BY DEF Next, vars, Advance, Toggle, TickUnlisted, TickListFails, TickCron, TickInterval,
       ClaimWon, ClaimLost, ClaimFails, CreateRun, CreateFails, Restart
  <1>3. CASE trigger # "interval"
    BY <1>2, <1>3 DEF Firing
  <1>4. CASE trigger = "interval" /\ Next
    <2>1. ASSUME NEW p \in Pod,
                 \/ TickUnlisted(p) \/ TickListFails(p) \/ TickInterval(p)
                 \/ ClaimWon(p) \/ ClaimLost(p) \/ ClaimFails(p)
                 \/ CreateRun(p) \/ CreateFails(p) \/ Restart(p)
          PROVE  Firing'
      BY <1>4, <2>1, TickUnlistedFires, FailureFires, TickIntervalFires, ClaimWonFires,
         ClaimLostFires, CreateRunFires, RestartFires
    <2>2. \A p \in Pod : ~TickCron(p)
      BY <1>4 DEF TickCron
    <2>3. QED
      BY <1>4, <2>1, <2>2, AdvanceFires, ToggleFires DEF Next
  <1>5. QED
    BY <1>1, <1>3, <1>4

\* An enabled interval workflow fires again within the interval, two periods and
\* three delays, whatever claims are lost, statements fail and pods die.
THEOREM KeepsFiring ==
  ASSUME Parameters
  PROVE  Spec => []IntervalKeepsFiring
  <1>1. Init => Firing
    BY InitFiring
  <1>2. Firing /\ [Next]_vars => Firing'
    BY NextFiring
  <1>3. ASSUME Firing, trigger = "interval", enabled
        PROVE  now =< steady + Interval + 2 * Period + 3 * Drift
    <2>1. PICK p \in Pod : FiresNext(pod[p])
      BY <1>3 DEF Firing
    <2>2. /\ now \in Nat /\ steady \in Nat /\ steady =< now
          /\ Period \in Nat /\ Drift \in Nat /\ Interval \in Nat /\ Interval > 0
          /\ \A f \in fires : f \in Nat /\ f =< steady
          /\ pod[p].step \in {"sleep", "claim", "create"} /\ pod[p].at \in Nat
          /\ pod[p].last \in Nat \cup {None} /\ OnTime(pod[p])
      BY <1>3, PodFacts
    <2>3. CASE pod[p].step = "sleep"
      BY <1>3, <2>1, <2>2, <2>3 DEF FiresNext, Overdue, OnTime
    <2>4. CASE pod[p].step # "sleep"
      BY <1>3, <2>1, <2>2, <2>4 DEF FiresNext, OnTime
    <2>5. QED
      BY <2>3, <2>4
  <1>4. Firing => IntervalKeepsFiring
    BY <1>3 DEF IntervalKeepsFiring
  <1>5. QED
    BY <1>1, <1>2, <1>4, PTL DEF Spec

=============================================================================
