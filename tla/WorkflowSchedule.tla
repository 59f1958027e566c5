-------------------------- MODULE WorkflowSchedule --------------------------
(***************************************************************************)
(* The schedule loop of the workflow engine (buzz-workflow/src/lib.rs,     *)
(* run), for one workflow with a cron or an interval trigger, on several   *)
(* pods that share the table scheduled_workflow_fires.                     *)
(*                                                                         *)
(* Each pod sleeps Period, takes the time, decides whether the workflow is *)
(* due and for which instant, claims that instant in the table, and        *)
(* creates a run.  The decision, the claim and the insert are separate     *)
(* statements, so pods interleave between them and a pod can die between   *)
(* them.  last_fired is memory of the pod; the claims are durable.         *)
(*                                                                         *)
(* Time is the clock every pod reads.  A pod that wakes from its sleep, or *)
(* works on a tick, is late by at most Drift.                              *)
(***************************************************************************)
EXTENDS Naturals, Bags, FiniteSetsExt

CONSTANTS
    Pod,        \* the relay processes that run the engine
    Period,     \* the sleep of the loop and the cron window (60 s)
    Drift,      \* how late a wake-up or a statement may be
    Every,      \* the cron expression is due at the positive multiples of it
    Interval,   \* the interval of an interval trigger
    None,       \* no entry in last_fired, no instant
    MaxTime,    \* bound: the clock stops here
    MaxFaults   \* bound: restarts, failed statements and edits of the workflow

VARIABLES
    trigger,    \* "cron" or "interval", never changed here
    enabled,    \* the row is listed by list_all_enabled_workflows
    now,        \* the clock
    pod,        \* per pod: its step, its clock readings and its last_fired
    fires,      \* scheduled_workflow_fires: the claimed instants
    runs,       \* workflow_runs: the bag of the instants they were created for
    steady,     \* history: the last claim, or the last fault if it is later
    faults

vars == <<trigger, enabled, now, pod, fires, runs, steady, faults>>

(***************************************************************************)
(* A pod as it starts: the map is empty and the loop sleeps first.         *)
(***************************************************************************)
Fresh(t) == [step |-> "sleep", at |-> t, due |-> None, last |-> None]

Init ==
    /\ trigger \in {"cron", "interval"}
    /\ enabled = TRUE
    /\ now = 0
    /\ pod = [p \in Pod |-> Fresh(0)]
    /\ fires = {} /\ runs = EmptyBag
    /\ steady = 0 /\ faults = 0

(***************************************************************************)
(* The instant a tick fires for.  A cron instant must lie in the window    *)
(* that ends now and is open at its start; an interval instant is the      *)
(* start of the bucket the clock is in.                                    *)
(***************************************************************************)
InWindow(t, c) == t < c + Period /\ c =< t

CronFireInstant(t) ==
    LET due == {c \in 1 .. t : c % Every = 0 /\ InWindow(t, c)}
    IN  IF due = {} THEN None ELSE Min(due)

IntervalFireInstant(t) == (t \div Interval) * Interval

IntervalShouldFire(last, t) ==
    /\ last # None
    /\ (IF last =< t THEN t - last ELSE last - t) >= Interval

(***************************************************************************)
(* The anchor is the pod's own entry; without one, the greatest claimed    *)
(* instant; and nothing at all when that read fails.                       *)
(***************************************************************************)
Anchors(p) ==
    IF pod[p].last # None THEN {pod[p].last}
    ELSE {IF fires = {} THEN None ELSE Max(fires)}
         \cup (IF faults < MaxFaults /\ fires # {} THEN {None} ELSE {})

ReadFailed(p, last) == last = None /\ pod[p].last = None /\ fires # {}

SeededNever(p, last, t) == pod[p].last

(***************************************************************************)
(* A suppressed tick seeds the entry only when there was no anchor.        *)
(***************************************************************************)
Seeded(p, last, t) == IF last = None THEN t ELSE pod[p].last

Fault == faults < MaxFaults /\ faults' = faults + 1 /\ steady' = now

Calm == UNCHANGED <<faults, steady>>

Sleeps(p, last) ==
    pod' = [pod EXCEPT ![p] =
              [step |-> "sleep", at |-> now, due |-> None, last |-> last]]

Claims(p, instant) ==
    pod' = [pod EXCEPT ![p].step = "claim", ![p].at = now, ![p].due = instant]

Awake(p) == pod[p].step = "sleep" /\ now >= pod[p].at + Period

(***************************************************************************)
(* A tick on which the workflow is not listed prunes its entry.            *)
(***************************************************************************)
TickUnlisted(p) ==
    /\ Awake(p) /\ ~enabled
    /\ Sleeps(p, None) /\ Calm
    /\ UNCHANGED <<trigger, enabled, now, fires, runs>>

\* list_all_enabled_workflows fails: the tick is skipped, nothing is pruned.
TickListFails(p) ==
    /\ Awake(p)
    /\ Sleeps(p, pod[p].last) /\ Fault
    /\ UNCHANGED <<trigger, enabled, now, fires, runs>>

TickCron(p) ==
    /\ Awake(p) /\ enabled /\ trigger = "cron"
    /\ IF CronFireInstant(now) = None
         THEN Sleeps(p, pod[p].last)
         ELSE Claims(p, CronFireInstant(now))
    /\ Calm
    /\ UNCHANGED <<trigger, enabled, now, fires, runs>>

TickInterval(p) ==
    /\ Awake(p) /\ enabled /\ trigger = "interval"
    /\ \E last \in Anchors(p) :
         /\ IF IntervalShouldFire(last, now)
              THEN Claims(p, IntervalFireInstant(now))
              ELSE Sleeps(p, Seeded(p, last, now))
         /\ IF ReadFailed(p, last) THEN Fault ELSE Calm
    /\ UNCHANGED <<trigger, enabled, now, fires, runs>>

(***************************************************************************)
(* The claim: INSERT ... ON CONFLICT DO NOTHING.  Only an interval trigger *)
(* keeps an entry, and a lost claim advances it as a won one does.         *)
(***************************************************************************)
FreeAlways(instant) == TRUE

Entry(p) == IF trigger = "interval" THEN pod[p].at ELSE pod[p].last

Free(instant) == instant \notin fires

ClaimWon(p) ==
    /\ pod[p].step = "claim" /\ Free(pod[p].due)
    /\ fires' = fires \cup {pod[p].due}
    /\ pod' = [pod EXCEPT ![p].step = "create"]
    /\ steady' = now
    /\ UNCHANGED <<trigger, enabled, now, runs, faults>>

ClaimLost(p) ==
    /\ pod[p].step = "claim" /\ ~Free(pod[p].due)
    /\ Sleeps(p, Entry(p)) /\ Calm
    /\ UNCHANGED <<trigger, enabled, now, fires, runs>>

ClaimFails(p) ==
    /\ pod[p].step = "claim"
    /\ Sleeps(p, pod[p].last) /\ Fault
    /\ UNCHANGED <<trigger, enabled, now, fires, runs>>

(***************************************************************************)
(* The insert of the run.  When it fails the claim stays, so that the      *)
(* instant is not fired again, and the entry is left alone.                *)
(***************************************************************************)
CreateRun(p) ==
    /\ pod[p].step = "create"
    /\ runs' = runs (+) SetToBag({pod[p].due})
    /\ Sleeps(p, Entry(p)) /\ Calm
    /\ UNCHANGED <<trigger, enabled, now, fires>>

CreateFails(p) ==
    /\ pod[p].step = "create"
    /\ Sleeps(p, pod[p].last) /\ Fault
    /\ UNCHANGED <<trigger, enabled, now, fires, runs>>

(***************************************************************************)
(* The world: the clock, a pod that dies and is started again, and the     *)
(* owner who disables the workflow or enables it.                          *)
(***************************************************************************)
InTime(p) ==
    now < pod[p].at + Drift + IF pod[p].step = "sleep" THEN Period ELSE 0

Advance ==
    /\ now < MaxTime /\ \A p \in Pod : InTime(p)
    /\ now' = now + 1
    /\ UNCHANGED <<trigger, enabled, pod, fires, runs, steady, faults>>

Restart(p) ==
    /\ pod' = [pod EXCEPT ![p] = Fresh(now)] /\ Fault
    /\ UNCHANGED <<trigger, enabled, now, fires, runs>>

Toggle ==
    /\ enabled' = ~enabled /\ Fault
    /\ UNCHANGED <<trigger, now, pod, fires, runs>>

Next ==
    \/ Advance \/ Toggle
    \/ \E p \in Pod :
         \/ TickUnlisted(p) \/ TickListFails(p) \/ TickCron(p) \/ TickInterval(p)
         \/ ClaimWon(p) \/ ClaimLost(p) \/ ClaimFails(p)
         \/ CreateRun(p) \/ CreateFails(p) \/ Restart(p)

Spec == Init /\ [][Next]_vars

(***************************************************************************)
(* Two pods never create a run for the same instant, whatever the order of *)
(* their ticks and claims and whoever dies in between: the claim row is    *)
(* the at-most-once boundary of the schedule loop.                         *)
(***************************************************************************)
OneRunPerInstant ==
    \A c \in BagToSet(runs) : runs[c] = 1

(***************************************************************************)
(* An enabled interval workflow keeps firing: without a fault, the clock   *)
(* never gets further from the last claim (or from the start) than a first *)
(* tick that seeds the anchor, the interval, and the tick that follows it. *)
(***************************************************************************)
IntervalKeepsFiring ==
    trigger = "interval" /\ enabled =>
        now =< steady + Interval + 2 * Period + 3 * Drift

(***************************************************************************)
(* What the comment on cron_fire_instant says: a tick that comes late does *)
(* not miss a cron instant.  An instant after the pods have settled, and   *)
(* longer ago than a late tick, has been claimed.                          *)
(***************************************************************************)
LateTickMissesNothing ==
    trigger = "cron" /\ faults = 0 =>
        \A c \in 1 .. now :
            c % Every = 0 /\ c > Period + Drift /\ c + Period + 2 * Drift < now
                => c \in fires

=============================================================================
