--------------------------- MODULE ServicesProofs ---------------------------
(***************************************************************************)
(* The components' theorems as theorems of Services, the specification     *)
(* that is model-checked.  A behaviour of Services is a behaviour of each  *)
(* component, so what is proved of the component's specification carries   *)
(* over.  The components without a proof module of their own are proved    *)
(* about here.                                                             *)
(***************************************************************************)
EXTENDS Services, FiniteSetTheorems, SequenceTheorems, TLAPS

PoolProofs == INSTANCE PoolLifecycleProofs WITH MaxFaults <- MaxPoolFaults, faults <- poolFaults

PublishProofs == INSTANCE GitPublishProofs WITH MaxErrors <- MaxPushErrors, errors <- pushErrors

ScheduleProofs == INSTANCE WorkflowScheduleProofs

MatchProofs == INSTANCE PushMatchProofs WITH
                 Event <- MatchEvent, MaxErrors <- MaxMatchErrors, lease <- leases, errors <- matchErrors

-----------------------------------------------------------------------------
(* The pool's lifecycle.                                                   *)

\* The component in Services is the one the proof module is about.
LEMMA PoolIsProved ==
  /\ Init => PoolProofs!Init
  /\ [Next]_vars => [PoolProofs!Next]_(PoolProofs!vars)
  <1>1. Pool!Init <=> PoolProofs!Init
    BY Zenon DEF Pool!Init, PoolProofs!Init
  <1>2. Pool!Next <=> PoolProofs!Next
    BY Zenon DEF Pool!MaxWakes, PoolProofs!MaxWakes, Pool!Live, PoolProofs!Live, Pool!Move,
           PoolProofs!Move, Pool!At, PoolProofs!At, Pool!OfWake, PoolProofs!OfWake, Pool!Unused,
           PoolProofs!Unused, Pool!Fault, PoolProofs!Fault, Pool!WakeDue, PoolProofs!WakeDue,
           Pool!CompleteWake, PoolProofs!CompleteWake, Pool!DispatchPending,
           PoolProofs!DispatchPending, Pool!WorkChanges, PoolProofs!WorkChanges, Pool!StartWake,
           PoolProofs!StartWake, Pool!RetryDue, PoolProofs!RetryDue, Pool!HandleWake,
           PoolProofs!HandleWake, Pool!HandleWakePanic, PoolProofs!HandleWakePanic,
           Pool!Advance, PoolProofs!Advance, Pool!WakeSpawns, PoolProofs!WakeSpawns,
           Pool!WakeSpawnFails, PoolProofs!WakeSpawnFails, Pool!WakeInits, PoolProofs!WakeInits,
           Pool!WakeInitFails, PoolProofs!WakeInitFails, Pool!WakeStops, PoolProofs!WakeStops,
           Pool!WakeBuilt, PoolProofs!WakeBuilt, Pool!WakeSends, PoolProofs!WakeSends,
           Pool!WakePanics, PoolProofs!WakePanics, Pool!WakeStep, PoolProofs!WakeStep,
           Pool!WakeFault, PoolProofs!WakeFault, Pool!Dispatch, PoolProofs!Dispatch,
           Pool!TaskEnds, PoolProofs!TaskEnds, Pool!TaskPanics, PoolProofs!TaskPanics,
           Pool!There, PoolProofs!There, Pool!AgentReturns, PoolProofs!AgentReturns,
           Pool!GivesUp, PoolProofs!GivesUp, Pool!ExitOrDispatch, PoolProofs!ExitOrDispatch,
           Pool!AgentCrashed, PoolProofs!AgentCrashed, Pool!HandlePanic, PoolProofs!HandlePanic,
           Pool!OldOf, PoolProofs!OldOf, Pool!NewOf, PoolProofs!NewOf, Pool!RespawnReaps,
           PoolProofs!RespawnReaps, Pool!RespawnSpawns, PoolProofs!RespawnSpawns,
           Pool!RespawnDone, PoolProofs!RespawnDone, Pool!Collect, PoolProofs!Collect,
           Pool!Empty, PoolProofs!Empty, Pool!Refill, PoolProofs!Refill, Pool!Signal,
           PoolProofs!Signal, Pool!LoopEnds, PoolProofs!LoopEnds, Pool!Goes, PoolProofs!Goes,
           Pool!WakesDrained, PoolProofs!WakesDrained, Pool!WakesAborted,
           PoolProofs!WakesAborted, Pool!WakeChanDrained, PoolProofs!WakeChanDrained,
           Pool!ResultTaken, PoolProofs!ResultTaken, Pool!CutShort, PoolProofs!CutShort,
           Pool!ResultReaped, PoolProofs!ResultReaped, Pool!TurnsDrained,
           PoolProofs!TurnsDrained, Pool!GraceOver, PoolProofs!GraceOver,
           Pool!LateResultsReaped, PoolProofs!LateResultsReaped, Pool!IdleReaped,
           PoolProofs!IdleReaped, Pool!RespawnsAborted, PoolProofs!RespawnsAborted,
           Pool!RespawnedReaped, PoolProofs!RespawnedReaped, Pool!Returns, PoolProofs!Returns,
           Pool!MainShutdown, PoolProofs!MainShutdown, Pool!Timeouts, PoolProofs!Timeouts,
           Pool!Stopped, PoolProofs!Stopped, Pool!Next, PoolProofs!Next, Pool!vars,
           PoolProofs!vars
  <1>3. UNCHANGED poolVars => UNCHANGED PoolProofs!vars
    BY DEF poolVars, PoolProofs!vars
  <1>4. [Next]_vars => Pool!Next \/ UNCHANGED poolVars
    BY DEF Next, vars
  <1>5. QED
    BY <1>1, <1>2, <1>3, <1>4 DEF Init

\* What is proved of the component holds of it in Services.
LEMMA PoolSafe == Spec => []PoolProofs!OneWake /\ PoolProofs!DroppedOnlyWhenCutOff
  BY PoolIsProved, PoolProofs!Safety, PTL DEF Spec, PoolProofs!Spec

\* pool_lifecycle.rs: at most one wake is under way, and no result of a wake is stale.
THEOREM WakesAreSingle == Spec => []OneWake
  <1>1. PoolProofs!OneWake <=> Pool!OneWake
    BY Zenon DEF PoolProofs!OneWake, Pool!OneWake, PoolProofs!Cardinality, Pool!Cardinality
  <1>2. QED
    BY <1>1, PoolSafe, PTL DEF OneWake

\* The shutdown of lib.rs: no process is left to its destructor that sits idle in a slot
\* or, once the main loop has ended, in a channel; of the agents that have come back the
\* end of the grace period costs at most the one it interrupts the reaping of.
THEOREM IdleProcessesAreReaped == Spec => DroppedOnlyWhenCutOff
  <1>1. PoolProofs!DroppedOnlyWhenCutOff => Pool!DroppedOnlyWhenCutOff
    <2>1. [PoolProofs!CutOff /\ PoolProofs!OneReap]_(PoolProofs!vars) =>
            [Pool!CutOff /\ Pool!OneReap]_(Pool!vars)
      BY Zenon DEF PoolProofs!CutOff, PoolProofs!OneReap, PoolProofs!Lost, PoolProofs!vars,
         Pool!CutOff, Pool!OneReap, Pool!Lost, Pool!vars
    <2>2. QED
      BY <2>1, PTL DEF PoolProofs!DroppedOnlyWhenCutOff, Pool!DroppedOnlyWhenCutOff
  <1>2. QED
    BY <1>1, PoolSafe, PTL DEF DroppedOnlyWhenCutOff

-----------------------------------------------------------------------------
(* Pushes to a git repository.                                             *)

\* The component in Services is the one the proof module is about.
LEMMA PublishIsProved ==
  /\ Init => PublishProofs!Init
  /\ [Next]_vars => [PublishProofs!Next]_(PublishProofs!vars)
  /\ PublishProofs!PublishedIsReadable => PublishedIsReadable
  /\ PublishProofs!AckedIsKept => AckedIsKept
  /\ PublishProofs!HeadIsPublished => HeadIsPublished
  <1>1. Publish!Init <=> PublishProofs!Init
    BY Zenon DEF Publish!Init, PublishProofs!Init, Publish!Fresh, PublishProofs!Fresh, Publish!NoRefs,
           PublishProofs!NoRefs, Publish!Idle, PublishProofs!Idle
  <1>2. Publish!Next <=> PublishProofs!Next
    BY Zenon DEF Publish!NoRefs, PublishProofs!NoRefs, Publish!Idle, PublishProofs!Idle, Publish!Fresh,
           PublishProofs!Fresh, Publish!Error, PublishProofs!Error, Publish!ParentOf,
           PublishProofs!ParentOf, Publish!Published, PublishProofs!Published, Publish!Closure,
           PublishProofs!Closure, Publish!Readable, PublishProofs!Readable,
           Publish!PublishedHead, PublishProofs!PublishedHead, Publish!Composed,
           PublishProofs!Composed, Publish!LoadPointer, PublishProofs!LoadPointer,
           Publish!Materialize, PublishProofs!Materialize, Publish!ReceivePack,
           PublishProofs!ReceivePack, Publish!Delta, PublishProofs!Delta, Publish!Compacted,
           PublishProofs!Compacted, Publish!PacksBefore, PublishProofs!PacksBefore,
           Publish!MayCompact, PublishProofs!MayCompact, Publish!Uploads, PublishProofs!Uploads,
           Publish!PutCompacted, PublishProofs!PutCompacted, Publish!PutDelta,
           PublishProofs!PutDelta, Publish!PutManifest, PublishProofs!PutManifest,
           Publish!Unmoved, PublishProofs!Unmoved, Publish!Swing, PublishProofs!Swing,
           Publish!CasPointer, PublishProofs!CasPointer, Publish!CasPointerErrs,
           PublishProofs!CasPointerErrs, Publish!Finish, PublishProofs!Finish, Publish!Abort,
           PublishProofs!Abort, Publish!Next, PublishProofs!Next, Publish!Cardinality,
           PublishProofs!Cardinality
  <1>3. UNCHANGED publishVars => UNCHANGED PublishProofs!vars
    BY DEF publishVars, PublishProofs!vars
  <1>4. [Next]_vars => Publish!Next \/ UNCHANGED publishVars
    BY DEF Next, vars
  <1>5. /\ Publish!PublishedIsReadable <=> PublishProofs!PublishedIsReadable
        /\ Publish!AckedIsKept <=> PublishProofs!AckedIsKept
        /\ Publish!HeadIsPublished <=> PublishProofs!HeadIsPublished
    BY Zenon DEF Publish!PublishedIsReadable, PublishProofs!PublishedIsReadable, Publish!AckedIsKept,
           PublishProofs!AckedIsKept, Publish!HeadIsPublished, PublishProofs!HeadIsPublished,
           Publish!Readable, PublishProofs!Readable, Publish!Closure, PublishProofs!Closure,
           Publish!Published, PublishProofs!Published, Publish!Range, PublishProofs!Range
  <1>6. QED
    BY <1>1, <1>2, <1>3, <1>4, <1>5 DEF Init, PublishedIsReadable, AckedIsKept, HeadIsPublished

\* What GitPublishProofs proves of the component, for the composed services.
LEMMA PublishSafe ==
  ASSUME PublishProofs!NoneIsNoManifest
  PROVE  Spec => [](PublishedIsReadable /\ AckedIsKept /\ HeadIsPublished)
  <1>1. PublishProofs!Spec => [](PublishProofs!PublishedIsReadable
                                 /\ PublishProofs!AckedIsKept /\ PublishProofs!HeadIsPublished)
    BY PublishProofs!Safety
  <1>2. QED
    BY <1>1, PublishIsProved, PTL DEF Spec, PublishProofs!Spec

\* cas_publish and finalize_push: whatever the pointer has named can be cloned, for
\* every history of commits, every number of pushes and every limit on packs.
THEOREM PublishedManifestsAreReadable ==
  ASSUME PublishProofs!NoneIsNoManifest
  PROVE  Spec => []PublishedIsReadable
  BY PublishSafe, PTL

\* put_pointer and finalize_push: acknowledged and announced pushes are manifests of
\* the one chain the pointer went through, whichever pushes race, fail or are cut off.
THEOREM AcknowledgedPushesAreKept ==
  ASSUME PublishProofs!NoneIsNoManifest
  PROVE  Spec => []AckedIsKept
  BY PublishSafe, PTL

\* resolve_published_head: a published repository with a branch has a head to check out.
THEOREM PublishedHeadsExist ==
  ASSUME PublishProofs!NoneIsNoManifest
  PROVE  Spec => []HeadIsPublished
  BY PublishSafe, PTL

-----------------------------------------------------------------------------
(* The workflow scheduler.                                                 *)

\* The component in Services is the one the proof module is about.
LEMMA ScheduleIsProved ==
  /\ Init => ScheduleProofs!Init
  /\ [Next]_vars => [ScheduleProofs!Next]_(ScheduleProofs!vars)
  /\ ScheduleProofs!OneRunPerInstant => OneRunPerInstant
  /\ ScheduleProofs!IntervalKeepsFiring => IntervalKeepsFiring
  <1>1. Schedule!Init <=> ScheduleProofs!Init
    BY Zenon DEF Schedule!Init, ScheduleProofs!Init, Schedule!Fresh, ScheduleProofs!Fresh, Schedule!EmptyBag,
           ScheduleProofs!EmptyBag, Schedule!SetToBag, ScheduleProofs!SetToBag
  <1>2. Schedule!Next <=> ScheduleProofs!Next
    BY Zenon DEF Schedule!Fresh, ScheduleProofs!Fresh, Schedule!InWindow, ScheduleProofs!InWindow,
           Schedule!CronFireInstant, ScheduleProofs!CronFireInstant,
           Schedule!IntervalFireInstant, ScheduleProofs!IntervalFireInstant,
           Schedule!IntervalShouldFire, ScheduleProofs!IntervalShouldFire, Schedule!Anchors,
           ScheduleProofs!Anchors, Schedule!ReadFailed, ScheduleProofs!ReadFailed,
           Schedule!Seeded, ScheduleProofs!Seeded, Schedule!Fault, ScheduleProofs!Fault,
           Schedule!Calm, ScheduleProofs!Calm, Schedule!Sleeps, ScheduleProofs!Sleeps,
           Schedule!Claims, ScheduleProofs!Claims, Schedule!Awake, ScheduleProofs!Awake,
           Schedule!TickUnlisted, ScheduleProofs!TickUnlisted, Schedule!TickListFails,
           ScheduleProofs!TickListFails, Schedule!TickCron, ScheduleProofs!TickCron,
           Schedule!TickInterval, ScheduleProofs!TickInterval, Schedule!Entry,
           ScheduleProofs!Entry, Schedule!Free, ScheduleProofs!Free, Schedule!ClaimWon,
           ScheduleProofs!ClaimWon, Schedule!ClaimLost, ScheduleProofs!ClaimLost,
           Schedule!ClaimFails, ScheduleProofs!ClaimFails, Schedule!CreateRun,
           ScheduleProofs!CreateRun, Schedule!CreateFails, ScheduleProofs!CreateFails,
           Schedule!InTime, ScheduleProofs!InTime, Schedule!Advance, ScheduleProofs!Advance,
           Schedule!Restart, ScheduleProofs!Restart, Schedule!Toggle, ScheduleProofs!Toggle,
           Schedule!Next, ScheduleProofs!Next, Schedule!Min, ScheduleProofs!Min, Schedule!Max,
           ScheduleProofs!Max, Schedule!SetToBag, ScheduleProofs!SetToBag, Schedule!(+),
           ScheduleProofs!(+)
  <1>3. UNCHANGED scheduleVars => UNCHANGED ScheduleProofs!vars
    BY DEF scheduleVars, ScheduleProofs!vars
  <1>4. [Next]_vars => Schedule!Next \/ UNCHANGED scheduleVars
    BY DEF Next, vars
  <1>5. /\ Schedule!OneRunPerInstant <=> ScheduleProofs!OneRunPerInstant
        /\ Schedule!IntervalKeepsFiring <=> ScheduleProofs!IntervalKeepsFiring
    BY Zenon DEF Schedule!OneRunPerInstant, ScheduleProofs!OneRunPerInstant, Schedule!IntervalKeepsFiring,
           ScheduleProofs!IntervalKeepsFiring, Schedule!BagToSet, ScheduleProofs!BagToSet
  <1>6. QED
    BY <1>1, <1>2, <1>3, <1>4, <1>5 DEF Init, OneRunPerInstant, IntervalKeepsFiring

\* buzz-workflow run: no two runs for one scheduled instant, for any number of pods.
THEOREM InstantsRunOnce == Spec => []OneRunPerInstant
  <1>1. ScheduleProofs!Spec => []ScheduleProofs!OneRunPerInstant
    BY ScheduleProofs!OnceOnly
  <1>2. QED
    BY <1>1, ScheduleIsProved, PTL DEF Spec, ScheduleProofs!Spec

\* interval_prefilter_should_fire and the claim: the gap between two claims of an
\* enabled interval workflow is bounded, for any period, interval and lateness.
THEOREM IntervalsKeepFiring == Spec => []IntervalKeepsFiring
  <1>1. ScheduleProofs!Parameters
    BY ScheduleAssumption DEF ScheduleProofs!Parameters
  <1>2. ScheduleProofs!Spec => []ScheduleProofs!IntervalKeepsFiring
    BY <1>1, ScheduleProofs!KeepsFiring
  <1>3. QED
    BY <1>2, ScheduleIsProved, PTL DEF Spec, ScheduleProofs!Spec
-----------------------------------------------------------------------------
(* Announcing a git repository.                                            *)

\* A handler that has succeeded, or has only the initial event left to emit, has seen
\* or made the pointer of its owner.
Seen ==
  /\ pointers \in [Owner -> {"absent", "empty", "pushed"}]
  /\ DOMAIN an = Announce /\ \A a \in Announce : DOMAIN an[a] = {"pc", "fresh"}
  /\ \A a \in Announce : an[a].pc \in {"ok", "emit"} => pointers[By[a]] # "absent"

\* Pointers are never removed.
Kept == \A o \in Owner : pointers[o] # "absent" => pointers'[o] # "absent"

\* A handler moves to its next step and the others stay where they are.
LEMMA GoesToFacts ==
  ASSUME Seen, NEW a \in Announce, NEW pc, Announcing!GoesTo(a, pc)
  PROVE  /\ DOMAIN an' = Announce /\ \A b \in Announce \ {a} : an'[b] = an[b]
         /\ DOMAIN an'[a] = {"pc", "fresh"} /\ an'[a].pc = pc
  BY DEF Seen, Announcing!GoesTo

\* One handler moves; what the others have seen stays.
LEMMA OneHandler ==
  ASSUME Seen, Kept, NEW a \in Announce, NEW pc, Announcing!GoesTo(a, pc),
         pointers' \in [Owner -> {"absent", "empty", "pushed"}],
         pc \in {"ok", "emit"} => pointers'[By[a]] # "absent"
  PROVE  Seen'
  <1>1. /\ DOMAIN an' = Announce /\ \A b \in Announce \ {a} : an'[b] = an[b]
        /\ DOMAIN an'[a] = {"pc", "fresh"} /\ an'[a].pc = pc
    BY GoesToFacts
  <1>2. \A b \in Announce : By[b] \in Owner
    BY SignerAssumption
  <1>3. QED
    BY <1>1, <1>2 DEF Seen, Kept

\* Every step of a handler keeps what the handlers have seen, and no pushed
\* repository is emptied.
LEMMA AnnounceStep ==
  ASSUME Seen, Announcing!Next
  PROVE  Seen' /\ \A o \in Owner : pointers[o] = "pushed" => pointers'[o] = "pushed"
  <1>0. pointers \in [Owner -> {"absent", "empty", "pushed"}] /\ \A a \in Announce : By[a] \in Owner
    BY SignerAssumption DEF Seen
  <1>1. ASSUME NEW a \in Announce, UNCHANGED pointers,
               NEW pc, pc \notin {"ok", "emit"}, Announcing!GoesTo(a, pc)
        PROVE  Seen' /\ \A o \in Owner : pointers[o] = "pushed" => pointers'[o] = "pushed"
    BY <1>0, <1>1, OneHandler DEF Kept
  <1>2. ASSUME NEW a \in Announce,
               \/ Announcing!Peek(a) \/ Announcing!OverQuota(a)
               \/ Announcing!Classify(a) \/ Announcing!Release(a) \/ Announcing!Aborts(a)
        PROVE  \E pc : pc \notin {"ok", "emit"} /\ Announcing!GoesTo(a, pc) /\ UNCHANGED pointers
    <2>1. CASE Announcing!Peek(a)
      <3>1. CASE name = None
        <4>1. name # By[a]
          BY <3>1, SignerAssumption
        <4>2. QED
          BY <2>1, <3>1, <4>1 DEF Announcing!Peek
      <3>2. CASE name # None /\ name = By[a]
        BY <2>1, <3>2 DEF Announcing!Peek, Announcing!Held
      <3>3. CASE name # None /\ name # By[a]
        BY <2>1, <3>3 DEF Announcing!Peek
      <3>4. QED
        BY <3>1, <3>2, <3>3
    <2>2. CASE Announcing!OverQuota(a) \/ Announcing!Release(a) \/ Announcing!Aborts(a)
      BY <2>2 DEF Announcing!OverQuota, Announcing!Release, Announcing!Aborts
    <2>3. CASE Announcing!Classify(a)
      BY <2>3 DEF Announcing!Classify, Announcing!Held
    <2>4. QED
      BY <1>2, <2>1, <2>2, <2>3
  <1>3. ASSUME NEW a \in Announce, Announcing!Reserve(a)
        PROVE  Seen' /\ \A o \in Owner : pointers[o] = "pushed" => pointers'[o] = "pushed"
    <2>1. CASE name = None
      <3>1. /\ UNCHANGED pointers
            /\ an' = [an EXCEPT ![a] = [pc |-> "seed", fresh |-> TRUE]]
        BY <1>3, <2>1 DEF Announcing!Reserve
      <3>2. QED
        BY <3>1 DEF Seen
    <2>2. CASE name # None
      BY <1>1, <1>3, <2>2 DEF Announcing!Reserve
    <2>3. QED
      BY <2>1, <2>2
  <1>4. ASSUME NEW a \in Announce, Announcing!Ensure(a) \/ Announcing!Seed(a) \/ Announcing!Reread(a)
        PROVE  Seen' /\ \A o \in Owner : pointers[o] = "pushed" => pointers'[o] = "pushed"
    <2>1. /\ pointers' = pointers \/ /\ pointers[By[a]] = "absent"
                                     /\ pointers' = [pointers EXCEPT ![By[a]] = "empty"]
          /\ \E pc : /\ Announcing!GoesTo(a, pc)
                     /\ pc \in {"ok", "emit"} => pointers'[By[a]] # "absent"
      BY <1>0, <1>4 DEF Announcing!Ensure, Announcing!Seed, Announcing!Seeded, Announcing!Reread,
           Announcing!Succeeds, Announcing!Fails
    <2>2. /\ pointers' \in [Owner -> {"absent", "empty", "pushed"}] /\ Kept
          /\ \A o \in Owner : pointers[o] = "pushed" => pointers'[o] = "pushed"
      BY <1>0, <2>1 DEF Kept
    <2>3. QED
      BY <2>1, <2>2, OneHandler
  <1>5. ASSUME NEW a \in Announce, Announcing!StoreErrs(a)
        PROVE  Seen' /\ \A o \in Owner : pointers[o] = "pushed" => pointers'[o] = "pushed"
    <2>1. pointers' = pointers \/ /\ pointers[By[a]] = "absent"
                                  /\ pointers' = [pointers EXCEPT ![By[a]] = "empty"]
      BY <1>5 DEF Announcing!StoreErrs, Announcing!Seeded
    <2>2. \E pc : Announcing!GoesTo(a, pc) /\ pc \notin {"ok", "emit"}
      BY <1>5 DEF Announcing!StoreErrs, Announcing!Fails
    <2>3. /\ pointers' \in [Owner -> {"absent", "empty", "pushed"}] /\ Kept
          /\ \A o \in Owner : pointers[o] = "pushed" => pointers'[o] = "pushed"
      BY <1>0, <2>1 DEF Kept
    <2>4. QED
      BY <2>2, <2>3, OneHandler
  <1>6. ASSUME NEW a \in Announce, Announcing!EmitInitial(a)
        PROVE  Seen' /\ \A o \in Owner : pointers[o] = "pushed" => pointers'[o] = "pushed"
    <2>1. UNCHANGED pointers /\ Kept /\ pointers'[By[a]] # "absent"
      BY <1>6 DEF Announcing!EmitInitial, Seen, Kept
    <2>2. QED
      BY <1>0, <1>6, <2>1, OneHandler DEF Announcing!EmitInitial
  <1>7. ASSUME NEW o \in Owner, Announcing!Push(o)
        PROVE  Seen' /\ \A x \in Owner : pointers[x] = "pushed" => pointers'[x] = "pushed"
    <2>1. an' = an /\ pointers' = [pointers EXCEPT ![o] = "pushed"]
      BY <1>7 DEF Announcing!Push
    <2>2. QED
      BY <1>0, <2>1 DEF Seen
  <1>8. QED
    BY <1>1, <1>2, <1>3, <1>4, <1>5, <1>6, <1>7 DEF Announcing!Next

\* The invariant of the announcement handlers is inductive in the composition.
LEMMA AnnounceInductive ==
  /\ Init => Seen
  /\ Seen /\ [Next]_vars => /\ Seen'
                            /\ \A o \in Owner : pointers[o] = "pushed" => pointers'[o] = "pushed"
  <1>1. Init => Seen
    BY DEF Init, Announcing!Init, Seen
  <1>2. [Next]_vars => Announcing!Next \/ UNCHANGED announceVars
    BY DEF Next, vars
  <1>3. Seen /\ UNCHANGED announceVars =>
          Seen' /\ \A o \in Owner : pointers[o] = "pushed" => pointers'[o] = "pushed"
    BY DEF Seen, announceVars
  <1>4. QED
    BY <1>1, <1>2, <1>3, AnnounceStep

\* handle_git_repo_announcement: an announcement answered with success has a pointer,
\* for any number of owners and handlers and however they fail and give the name back.
THEOREM AnnouncedRepositoriesExist == Spec => []AnnouncedIsCloneable
  <1>1. Seen => AnnouncedIsCloneable
    BY DEF Seen, AnnouncedIsCloneable, Announcing!AnnouncedIsCloneable
  <1>2. QED
    BY <1>1, AnnounceInductive, PTL DEF Spec

\* ensure_manifest_pointer and seed_manifest_pointer: no announcement, retried or
\* racing with a push, puts a repository back to its empty state.
THEOREM AnnouncementsKeepPushes == Spec => AnnounceKeepsPushes
  <1>1. Seen /\ [Next]_vars =>
          [\A o \in Owner : pointers[o] = "pushed" => pointers'[o] = "pushed"]_(Announcing!vars)
    BY AnnounceInductive
  <1>2. QED
    BY <1>1, AnnounceInductive, PTL DEF Spec, AnnounceKeepsPushes, Announcing!AnnounceKeepsPushes
-----------------------------------------------------------------------------
(* From an event to its wake jobs.                                         *)

\* The component in Services is the one the proof module is about.
LEMMA MatchWins == \A i, gen : Match!Wins(i, gen) <=> MatchProofs!Wins(i, gen)
  BY Zenon DEF Match!Wins, MatchProofs!Wins, Match!MapThenSumSet, MatchProofs!MapThenSumSet,
     Match!MapThenFoldSet, MatchProofs!MapThenFoldSet

\* The matching component of Services is the one PushMatchProofs is about.
LEMMA MatchIsProved ==
  /\ Init => MatchProofs!Init
  /\ [Next]_vars => [MatchProofs!Next]_(MatchProofs!vars)
  <1>1. Match!Init <=> MatchProofs!Init
    BY Zenon DEF Match!Init, MatchProofs!Init, Match!NoLease, MatchProofs!NoLease, Match!NoAct,
           MatchProofs!NoAct, Match!NoJob, MatchProofs!NoJob, Match!Idle, MatchProofs!Idle
  <1>2. Match!Next <=> MatchProofs!Next
    BY MatchWins, Zenon DEF Match!NoLease, MatchProofs!NoLease, Match!NoAct, MatchProofs!NoAct, Match!NoJob,
           MatchProofs!NoJob, Match!Idle, MatchProofs!Idle, Match!Error, MatchProofs!Error,
           Match!Eligible, MatchProofs!Eligible, Match!Stored, MatchProofs!Stored, Match!JobsOf,
           MatchProofs!JobsOf, Match!GateShared, MatchProofs!GateShared, Match!GateExclusive,
           MatchProofs!GateExclusive, Match!InsertEvent, MatchProofs!InsertEvent,
           Match!CommitEvent, MatchProofs!CommitEvent, Match!DeleteEvent,
           MatchProofs!DeleteEvent, Match!EventAges, MatchProofs!EventAges, Match!ActivateBegins, MatchProofs!ActivateBegins,
           Match!ActivateCommits, MatchProofs!ActivateCommits, Match!Revoke, MatchProofs!Revoke,
           Match!LeaseExpires, MatchProofs!LeaseExpires, Match!DisableEndpoint,
           MatchProofs!DisableEndpoint, Match!Ripens, MatchProofs!Ripens, Match!Claimable,
           MatchProofs!Claimable, Match!ClaimBatch, MatchProofs!ClaimBatch, Match!Mine,
           MatchProofs!Mine, Match!Fenced, MatchProofs!Fenced, Match!Released,
           MatchProofs!Released, Match!LoadContext, MatchProofs!LoadContext, Match!LoadFails,
           MatchProofs!LoadFails, Match!DoneAfter, MatchProofs!DoneAfter, Match!Flush,
           MatchProofs!Flush, Match!Complete, MatchProofs!Complete, Match!Retry,
           MatchProofs!Retry, Match!Crash, MatchProofs!Crash, Match!Exhausted,
           MatchProofs!Exhausted, Match!Reap, MatchProofs!Reap, Match!MatcherStep,
           MatchProofs!MatcherStep, Match!LeaseStep, MatchProofs!LeaseStep, Match!Next,
           MatchProofs!Next
  <1>3. UNCHANGED matchVars => UNCHANGED MatchProofs!vars
    BY DEF matchVars, MatchProofs!vars
  <1>4. [Next]_vars => Match!Next \/ UNCHANGED matchVars
    BY DEF Next, vars
  <1>5. QED
    BY <1>1, <1>2, <1>3, <1>4 DEF Init

\* What PushMatchProofs proves of the component, for the composed services.
LEMMA MatchSafe ==
  Spec => MatchProofs!GateMissesNothing /\ MatchProofs!MatchedIsDurable /\ MatchProofs!ClaimIsExclusive
  <1>1. MatchProofs!Parameters
    BY ClaimAssumption DEF MatchProofs!Parameters
  <1>2. MatchProofs!Spec =>
          MatchProofs!GateMissesNothing /\ MatchProofs!MatchedIsDurable /\ MatchProofs!ClaimIsExclusive
    BY <1>1, MatchProofs!Safety
  <1>3. QED
    BY <1>2, MatchIsProved, PTL DEF Spec, MatchProofs!Spec

\* The trigger of 0023_push_match_gate.sql: an event that commits while some lease is
\* in effect has a match job, in every interleaving with activations.
THEOREM NoEventSlipsThrough == Spec => GateMissesNothing
  <1>1. MatchProofs!GateMissesNothing => Match!GateMissesNothing
    <2>1. [MatchProofs!GateHolds]_(MatchProofs!vars) =>
             [\A e \in MatchEvent :
                ~Match!Stored(e) /\ Match!Stored(e)' /\ (\E i \in Inst : Match!Eligible(i))
                  => job'[e].st # "none"]_(Match!vars)
      BY Zenon DEF MatchProofs!GateHolds, MatchProofs!Stored, MatchProofs!Eligible, MatchProofs!vars,
         Match!Stored, Match!Eligible, Match!vars
    <2>2. QED
      BY <2>1, PTL DEF MatchProofs!GateMissesNothing, Match!GateMissesNothing, MatchProofs!GateHolds
  <1>2. QED
    BY <1>1, MatchSafe, PTL DEF GateMissesNothing

\* complete_match_batch: a matcher deletes a job with tries left only when every lease it
\* loaded that is still in effect unchanged has its wake in the outbox.
THEOREM DeletedJobsHaveWakes == Spec => MatchedIsDurable
  <1>1. MatchProofs!MatchedIsDurable => Match!MatchedIsDurable
    <2>1. [MatchProofs!DeletesSafely]_(MatchProofs!vars) =>
             [\A m \in Matcher, e \in MatchEvent : Match!Deletes(m, e) =>
                \A i \in Inst : Match!Eligible(i) /\ <<i, leases[i].gen>> \in mt[m].ctx
                                  => outbox[<<i, e>>] # 0]_(Match!vars)
      BY Zenon DEF MatchProofs!DeletesSafely, MatchProofs!Deletes, MatchProofs!Eligible,
         MatchProofs!vars, Match!Deletes, Match!Eligible, Match!vars
    <2>2. QED
      BY <2>1, PTL DEF MatchProofs!MatchedIsDurable, Match!MatchedIsDurable, MatchProofs!DeletesSafely
  <1>2. QED
    BY <1>1, MatchSafe, PTL DEF MatchedIsDurable

\* The fencing tokens of push_match_queue: while a matcher's claim on a job has not
\* lapsed, no other matcher changes the job.
THEOREM MatchClaimsAreExclusive == Spec => ClaimIsExclusive
  <1>1. MatchProofs!ClaimIsExclusive => Match!ClaimIsExclusive
    <2>1. [MatchProofs!ClaimHolds]_(MatchProofs!vars) =>
             [\A m \in Matcher, e \in MatchEvent :
                job[e].st = "matching" /\ job[e].claim = m /\ ~job[e].ripe /\ job'[e] # job[e]
                  /\ ~job'[e].ripe
                => mt'[m] # mt[m]]_(Match!vars)
      BY Zenon DEF MatchProofs!ClaimHolds, MatchProofs!vars, Match!vars
    <2>2. QED
      BY <2>1, PTL DEF MatchProofs!ClaimIsExclusive, Match!ClaimIsExclusive, MatchProofs!ClaimHolds
  <1>2. QED
    BY <1>1, MatchSafe, PTL DEF ClaimIsExclusive

-----------------------------------------------------------------------------
(* Delivering wakes.                                                       *)

\* What the two properties need to know of a state: a worker that is not idle has a wake
\* left to deliver, and only a wake that is being sent is claimed by a worker.
Delivering ==
  /\ DOMAIN row = WakeEvent
  /\ \A e \in WakeEvent : DOMAIN row[e] = {"st", "gen", "claim", "ripe", "tries"}
  /\ \A e \in WakeEvent : row[e].claim \in Worker => row[e].st = "sending"
  /\ DOMAIN lease = {"gen", "st"}
  /\ DOMAIN wk = Worker
  /\ \A w \in Worker : DOMAIN wk[w] = {"pc", "todo", "gen", "tries"}
  /\ \A w \in Worker : wk[w].pc # "idle" => wk[w].todo \in Seq(WakeEvent) /\ wk[w].todo # <<>>

\* What the two properties say of a step.
LateWorkerStep ==
  \A e \in WakeEvent :
       /\ row[e].st \in {"delivered", "failed"} => row'[e] = row[e]
       /\ row[e].st = "sending" /\ row[e].claim \in Worker /\ ~row[e].ripe
            => row'[e] \in {row[e], [row[e] EXCEPT !.ripe = TRUE]} \/ wk'[row[e].claim] # wk[row[e].claim]
StaleAnswerStep ==
  lease'.st = "disabled" /\ lease.st # "disabled"
       => \E w \in Worker : wk[w].pc = "send" /\ wk'[w] # wk[w] /\ wk[w].gen = lease.gen
Harmless == Delivering' /\ LateWorkerStep /\ StaleAnswerStep

\* Nothing is delivered or claimed at the start.
LEMMA OutboxInit == Init => Delivering
  BY ClaimAssumption DEF Init, Outbox!Init, Outbox!NoRow, Outbox!Idle, Delivering

\* Going on to the next wake of a batch changes the worker, and leaves it one to deliver.
LEMMA OutboxDone ==
  ASSUME Delivering, NEW w \in Worker, wk[w].pc # "idle", Outbox!Done(w)
  PROVE  /\ DOMAIN wk' = Worker /\ \A v \in Worker \ {w} : wk'[v] = wk[v]
         /\ DOMAIN wk'[w] = {"pc", "todo", "gen", "tries"}
         /\ wk'[w].pc # "idle" => wk'[w].todo \in Seq(WakeEvent) /\ wk'[w].todo # <<>>
         /\ wk'[w] # wk[w]
  <1> DEFINE t == wk[w].todo
  <1>1. t \in Seq(WakeEvent) /\ t # <<>>
    BY DEF Delivering
  <1>2. /\ Len(t) \in Nat \ {0}
        /\ Tail(t) \in Seq(WakeEvent) /\ Len(Tail(t)) = Len(t) - 1
    BY <1>1, HeadTailProperties, EmptySeq, LenProperties
  <1>3. Tail(t) # t /\ (Len(t) # 1 => Tail(t) # <<>>)
    <2>1. Len(Tail(t)) # Len(t) /\ (Len(t) # 1 => Len(Tail(t)) # 0)
      BY <1>2
    <2>2. Len(<<>>) = 0
      OBVIOUS
    <2> HIDE DEF t
    <2>3. QED
      BY <2>1, <2>2, Zenon
  <1> HIDE DEF t
  <1>4. /\ DOMAIN wk' = Worker /\ \A v \in Worker \ {w} : wk'[v] = wk[v]
        /\ wk'[w] = IF Len(t) = 1 THEN Outbox!Idle
                    ELSE [Outbox!Idle EXCEPT !.pc = "check", !.todo = Tail(t)]
    BY DEF Delivering, Outbox!Done, t
  <1>5. CASE Len(t) = 1
    BY <1>4, <1>5 DEF Outbox!Idle
  <1>6. CASE Len(t) # 1
    <2>1. wk'[w].todo # t
      BY <1>3, <1>4, <1>6 DEF Outbox!Idle
    <2>2. wk'[w] # wk[w]
      BY <2>1 DEF t
    <2>3. QED
      BY <1>2, <1>3, <1>4, <1>6, <2>2 DEF Outbox!Idle
  <1>7. QED
    BY <1>5, <1>6

\* A statement fenced by the worker's claim settles a wake only while the claim stands.
LEMMA OutboxSettle ==
  ASSUME Delivering, NEW w \in Worker, NEW e \in WakeEvent, NEW st, Outbox!Settle(w, e, st)
  PROVE  /\ DOMAIN row' = WakeEvent
         /\ \A f \in WakeEvent : DOMAIN row'[f] = {"st", "gen", "claim", "ripe", "tries"}
         /\ \A f \in WakeEvent : row'[f].claim \in Worker => row'[f].st = "sending"
         /\ \A f \in WakeEvent : row'[f] = row[f] \/ (row[f].st = "sending" /\ row[f].claim = w)
  BY ClaimAssumption DEF Delivering, Outbox!Settle, Outbox!Holds

\* A step in which a worker goes on, with or without settling its wake.
LEMMA OutboxGoesOn ==
  ASSUME Delivering, NEW w \in Worker, wk[w].pc # "idle", Outbox!Done(w),
         \/ UNCHANGED row
         \/ \E st : Outbox!Settle(w, Outbox!Cur(w), st),
         \/ UNCHANGED lease
         \/ wk[w].pc = "send" /\ lease' = Outbox!Disabled(wk[w].gen)
  PROVE  Harmless
  <1>1. Outbox!Cur(w) \in WakeEvent
    BY DEF Delivering, Outbox!Cur
  <1>2. /\ DOMAIN wk' = Worker /\ \A v \in Worker \ {w} : wk'[v] = wk[v]
        /\ DOMAIN wk'[w] = {"pc", "todo", "gen", "tries"}
        /\ wk'[w].pc # "idle" => wk'[w].todo \in Seq(WakeEvent) /\ wk'[w].todo # <<>>
        /\ wk'[w] # wk[w]
    BY OutboxDone
  <1>3. /\ DOMAIN row' = WakeEvent
        /\ \A f \in WakeEvent : DOMAIN row'[f] = {"st", "gen", "claim", "ripe", "tries"}
        /\ \A f \in WakeEvent : row'[f].claim \in Worker => row'[f].st = "sending"
        /\ \A f \in WakeEvent : row'[f] = row[f] \/ (row[f].st = "sending" /\ row[f].claim = w)
    <2>1. CASE UNCHANGED row
      BY <2>1 DEF Delivering
    <2>2. CASE \E st : Outbox!Settle(w, Outbox!Cur(w), st)
      BY <1>1, <2>2, OutboxSettle
    <2>3. QED
      BY <2>1, <2>2
  <1>4. DOMAIN lease' = {"gen", "st"}
        /\ (lease'.st = "disabled" /\ lease.st # "disabled" => wk[w].pc = "send" /\ wk[w].gen = lease.gen)
    BY DEF Delivering, Outbox!Disabled
  <1>5. Delivering'
    BY <1>2, <1>3, <1>4 DEF Delivering
  <1>6. LateWorkerStep
    BY <1>2, <1>3 DEF LateWorkerStep
  <1>7. StaleAnswerStep
    BY <1>2, <1>4 DEF StaleAnswerStep
  <1>8. QED
    BY <1>5, <1>6, <1>7 DEF Harmless

\* A batch of wakes that is not empty is put in an order that is not empty.
LEMMA OutboxOrder ==
  ASSUME NEW batch \in SUBSET WakeEvent, batch # {}, NEW order \in Outbox!SetToSeqs(batch)
  PROVE  order \in Seq(WakeEvent) /\ order # <<>>
  <1>1. IsFiniteSet(batch) /\ Cardinality(batch) \in Nat \ {0}
    BY ClaimAssumption, FS_Subset, FS_EmptySet, FS_CardinalityType
  <1>2. Outbox!Cardinality(batch) = Cardinality(batch)
    BY Zenon DEF Outbox!Cardinality, Cardinality
  <1>3. order \in [1..Cardinality(batch) -> batch]
    BY <1>2 DEF Outbox!SetToSeqs
  <1>4. QED
    BY <1>1, <1>3

\* Claiming a batch takes only wakes that nobody's live claim protects.
LEMMA OutboxClaim ==
  ASSUME Delivering, NEW w \in Worker, Outbox!ClaimWakes(w)
  PROVE  Harmless
  <1> DEFINE batch == {e \in WakeEvent : Outbox!Claimable(e)}
  <1>1. PICK order \in Outbox!SetToSeqs(batch) :
          wk' = [wk EXCEPT ![w] = [Outbox!Idle EXCEPT !.pc = "check", !.todo = order]]
    BY DEF Outbox!ClaimWakes
  <1>2. batch # {} /\ batch \in SUBSET WakeEvent
    BY DEF Outbox!ClaimWakes
  <1>3. order \in Seq(WakeEvent) /\ order # <<>>
    BY <1>1, <1>2, OutboxOrder
  <1>4. \A e \in WakeEvent : /\ DOMAIN row'[e] = {"st", "gen", "claim", "ripe", "tries"}
                             /\ row'[e].claim \in Worker => row'[e].st = "sending"
                             /\ row'[e] # row[e] => row[e].st \in {"pending", "sending"} /\ row[e].ripe
    <2> SUFFICES ASSUME NEW e \in WakeEvent
               PROVE  /\ DOMAIN row'[e] = {"st", "gen", "claim", "ripe", "tries"}
                      /\ row'[e].claim \in Worker => row'[e].st = "sending"
                      /\ row'[e] # row[e] => row[e].st \in {"pending", "sending"} /\ row[e].ripe
      OBVIOUS
    <2>1. row' = [x \in WakeEvent |-> IF x \in batch
                    THEN [row[x] EXCEPT !.st = "sending", !.claim = w, !.ripe = FALSE,
                                        !.tries = IF @ < MaxAttempts THEN @ + 1 ELSE @]
                    ELSE row[x]]
      BY ZenonT(60) DEF Outbox!ClaimWakes
    <2> HIDE DEF batch
    <2>2. CASE e \in batch
      <3>1. row'[e] = [row[e] EXCEPT !.st = "sending", !.claim = w, !.ripe = FALSE,
                                     !.tries = IF @ < MaxAttempts THEN @ + 1 ELSE @]
        BY <2>1, <2>2
      <3>2. row[e].st \in {"pending", "sending"} /\ row[e].ripe
        BY <2>2 DEF batch, Outbox!Claimable
      <3>3. DOMAIN row[e] = {"st", "gen", "claim", "ripe", "tries"}
        BY DEF Delivering
      <3>4. QED
        BY <3>1, <3>2, <3>3
    <2>3. CASE e \notin batch
      <3>1. row'[e] = row[e]
        BY <2>1, <2>3
      <3>2. QED
        BY <3>1 DEF Delivering
    <2>4. QED
      BY <2>2, <2>3
  <1>5. DOMAIN row' = WakeEvent /\ UNCHANGED lease
    BY DEF Outbox!ClaimWakes
  <1>6. /\ DOMAIN wk' = Worker /\ \A v \in Worker : DOMAIN wk'[v] = {"pc", "todo", "gen", "tries"}
        /\ \A v \in Worker : wk'[v].pc # "idle" => wk'[v].todo \in Seq(WakeEvent) /\ wk'[v].todo # <<>>
    BY <1>1, <1>3 DEF Delivering, Outbox!Idle
  <1>7. Delivering'
    BY <1>4, <1>5, <1>6 DEF Delivering
  <1>8. LateWorkerStep /\ StaleAnswerStep
    BY <1>4, <1>5 DEF LateWorkerStep, StaleAnswerStep
  <1>9. QED
    BY <1>7, <1>8 DEF Harmless

\* The answers of the gateway.
LEMMA OutboxSend ==
  ASSUME Delivering, NEW w \in Worker, NEW a \in Outbox!Answers, Outbox!Send(w, a)
  PROVE  Harmless
  <1>1. wk[w].pc = "send" /\ Outbox!Done(w)
    BY DEF Outbox!Send
  <1>2. /\ \E st : Outbox!Settle(w, Outbox!Cur(w), st)
        /\ UNCHANGED lease \/ lease' = Outbox!Disabled(wk[w].gen)
    <2>1. CASE a = "accepted"
      BY <2>1, Zenon DEF Outbox!Send
    <2>2. CASE a = "gone"
      BY <2>2, Zenon DEF Outbox!Send
    <2>3. CASE a = "later"
      BY <2>3, Zenon DEF Outbox!Send, Outbox!RetryOrFail, Outbox!Reschedule
    <2>4. CASE a = "notfound"
      BY <2>4, Zenon DEF Outbox!Send
    <2>5. CASE a = "other"
      BY <2>5, Zenon DEF Outbox!Send
    <2>6. QED
      BY <2>1, <2>2, <2>3, <2>4, <2>5 DEF Outbox!Answers
  <1>3. QED
    BY <1>1, <1>2, OutboxGoesOn

\* Every step of the delivery keeps what the properties need, and is harmless.
LEMMA OutboxStep ==
  ASSUME Delivering, Outbox!Next
  PROVE  Harmless
  <1>1. ASSUME NEW e \in WakeEvent,
               Outbox!Enqueue(e) \/ Outbox!DeleteEvent(e) \/ Outbox!WakeExpires(e) \/ Outbox!Ripens(e)
                 \/ Outbox!Stalls(e)
        PROVE  Harmless
    <2>1. /\ DOMAIN row' = WakeEvent
          /\ \A f \in WakeEvent : DOMAIN row'[f] = {"st", "gen", "claim", "ripe", "tries"}
          /\ \A f \in WakeEvent : row'[f].claim \in Worker => row'[f].st = "sending"
          /\ \A f \in WakeEvent \ {e} : row'[f] = row[f]
          /\ \/ row'[e] = row[e] \/ row[e].st = "none"
             \/ /\ row[e].st \in {"pending", "sending"}
                /\ row'[e] = [row[e] EXCEPT !.ripe = TRUE]
          /\ UNCHANGED <<lease, wk>>
      <3>1. CASE Outbox!Enqueue(e)
        BY <3>1, ClaimAssumption DEF Delivering, Outbox!Enqueue, Outbox!NoRow
      <3>2. CASE Outbox!DeleteEvent(e) \/ Outbox!WakeExpires(e)
        BY <3>2 DEF Delivering, Outbox!DeleteEvent, Outbox!WakeExpires
      <3>3. CASE Outbox!Ripens(e) \/ Outbox!Stalls(e)
        <4>1. /\ row' = [row EXCEPT ![e] = [row[e] EXCEPT !.ripe = TRUE]] /\ UNCHANGED <<lease, wk>>
              /\ row[e].st \in {"pending", "sending"} \/ row[e].claim \in Worker
          BY <3>3 DEF Outbox!Ripens, Outbox!Stalls
        <4>2. QED
          BY <4>1 DEF Delivering
      <3>4. QED
        BY <1>1, <3>1, <3>2, <3>3
    <2>2. QED
      BY <2>1 DEF Delivering, LateWorkerStep, StaleAnswerStep, Harmless
  <1>2. ASSUME \/ \E st \in {"on", "off"} : Outbox!ReplaceLease(st)
               \/ Outbox!LeaseExpires \/ Outbox!MemberLeaves
        PROVE  Harmless
    <2>1. UNCHANGED <<row, wk>> /\ DOMAIN lease' = {"gen", "st"}
          /\ (lease'.st # "disabled" \/ lease' = lease)
      BY <1>2 DEF Delivering, Outbox!ReplaceLease, Outbox!LeaseExpires, Outbox!MemberLeaves
    <2>2. QED
      BY <2>1 DEF Delivering, LateWorkerStep, StaleAnswerStep, Harmless
  <1>3. ASSUME NEW w \in Worker, Outbox!Check(w) \/ Outbox!CheckMember(w)
        PROVE  Harmless
    <2>1. wk[w].pc # "idle" /\ UNCHANGED lease
      BY <1>3 DEF Outbox!Check, Outbox!CheckMember
    <2>2. CASE Outbox!Settle(w, Outbox!Cur(w), "failed") /\ Outbox!Done(w)
      BY <2>1, <2>2, OutboxGoesOn
    <2>3. CASE ~(Outbox!Settle(w, Outbox!Cur(w), "failed") /\ Outbox!Done(w))
      <3>1. /\ UNCHANGED <<row, lease>> /\ DOMAIN wk' = Worker
            /\ \A v \in Worker : DOMAIN wk'[v] = DOMAIN wk[v] /\ wk'[v].todo = wk[v].todo
            /\ \A v \in Worker : wk'[v].pc # "idle" => wk[v].pc # "idle"
        BY <1>3, <2>1, <2>3 DEF Delivering, Outbox!Check, Outbox!CheckMember, Outbox!GoesTo
      <3>2. QED
        BY <3>1 DEF Delivering, LateWorkerStep, StaleAnswerStep, Harmless
    <2>4. QED
      BY <2>2, <2>3
  <1>4. ASSUME NEW w \in Worker, Outbox!CheckMemberErrs(w) \/ Outbox!NotSent(w) \/ Outbox!StatementErrs(w)
        PROVE  Harmless
    <2>1. /\ wk[w].pc # "idle" /\ Outbox!Done(w)
          /\ UNCHANGED row \/ Outbox!Settle(w, Outbox!Cur(w), "pending")
          /\ \/ UNCHANGED lease
             \/ wk[w].pc = "send" /\ lease' = Outbox!Disabled(wk[w].gen)
      BY <1>4 DEF Outbox!CheckMemberErrs, Outbox!NotSent, Outbox!StatementErrs, Outbox!Reschedule
    <2>2. QED
      BY <2>1, OutboxGoesOn
  <1>5. ASSUME NEW w \in Worker, Outbox!Crash(w)
        PROVE  Harmless
    <2>1. /\ wk[w].pc # "idle" /\ wk' = [wk EXCEPT ![w] = Outbox!Idle] /\ UNCHANGED lease
          /\ row' = [e \in WakeEvent |-> IF row[e].claim = w THEN [row[e] EXCEPT !.claim = Crashed]
                                         ELSE row[e]]
      BY <1>5 DEF Outbox!Crash
    <2>2. wk'[w] # wk[w]
      BY <2>1 DEF Delivering, Outbox!Idle
    <2>3. Delivering'
      BY <2>1, ClaimAssumption DEF Delivering, Outbox!Idle
    <2>4. LateWorkerStep /\ StaleAnswerStep
      BY <2>1, <2>2 DEF Delivering, LateWorkerStep, StaleAnswerStep
    <2>5. QED
      BY <2>3, <2>4 DEF Harmless
  <1>6. QED
    BY <1>1, <1>2, <1>3, <1>4, <1>5, OutboxClaim, OutboxSend DEF Outbox!Next, Outbox!WorkerStep

\* From the start on, in every behaviour.
LEMMA OutboxSafe == Spec => [][Harmless]_outboxVars
  <1>1. Init => Delivering
    BY OutboxInit
  <1>2. Delivering /\ [Next]_vars => Delivering' /\ [Harmless]_outboxVars
    <2>1. [Next]_vars => Outbox!Next \/ UNCHANGED outboxVars
      BY DEF Next, vars
    <2>2. Delivering /\ UNCHANGED outboxVars => Delivering'
      BY DEF Delivering, outboxVars
    <2>3. QED
      BY <2>1, <2>2, OutboxStep DEF Harmless
  <1>3. QED
    BY <1>1, <1>2, PTL DEF Spec

\* push.rs claims: a settled wake is never changed, and a wake under a live claim only by
\* its claimant, whatever crashed, stalled or late workers do.
THEOREM LateWorkersAreHarmless == Spec => LateWorkerHarmless
  <1>1. [Harmless]_outboxVars => [LateWorkerStep]_(Outbox!vars)
    BY Zenon DEF Harmless, outboxVars, Outbox!vars
  <1>2. QED
    BY <1>1, OutboxSafe, PTL DEF LateWorkerHarmless, Outbox!LateWorkerHarmless, LateWorkerStep

\* disable_endpoint_generation: only an answer to a request of the current generation
\* takes a lease out of effect.
THEOREM StaleAnswersAreIgnored == Spec => StaleAnswerIgnored
  <1>1. [Harmless]_outboxVars => [StaleAnswerStep]_(Outbox!vars)
    BY Zenon DEF Harmless, outboxVars, Outbox!vars
  <1>2. QED
    BY <1>1, OutboxSafe, PTL DEF StaleAnswerIgnored, Outbox!StaleAnswerIgnored, StaleAnswerStep

=============================================================================
