CONSTANTS
  None = None
  Nobody = Nobody
  Crashed = Crashed
  Slots = 2
  Procs = {1, 2, 3, 4, 5, 6}
  MaxPoolFaults = 2
  Inst = {"i1"}
  MatchEvent = {"e1"}
  Matcher = {"m1", "m2"}
  MaxGen = 2
  MaxTries = 2
  MaxMatchErrors = 1
  WakeEvent = {"e1"}
  Worker = {"w1", "w2"}
  MaxAttempts = 2
  MaxSendErrors = 2
  Commit = {"c1", "c2"}
  Reach <- History
  Branch = {"main", "dev"}
  Main = "main"
  Pusher = {"p1", "p2"}
  MaxPacks = 2
  Threshold = 2
  MaxUpdates = 1
  MaxPushes = 3
  MaxPushErrors = 1
  Owner = {"alice", "bob"}
  Announce = {"a1", "a2", "a3"}
  By <- Signers
  MaxAnnounceErrors = 2
  Pod = {"d1", "d2"}
  Period = 1
  Drift = 1
  Every = 4
  Interval = 3
  MaxTime = 13
  MaxFaults = 2
SPECIFICATION Spec
INVARIANTS
  OneWake
  PublishedIsReadable
  AckedIsKept
  HeadIsPublished
  AnnouncedIsCloneable
  OneRunPerInstant
  IntervalKeepsFiring
PROPERTIES
  DroppedOnlyWhenCutOff
  WorkWakesPool
  ShutdownEnds
  GateMissesNothing
  MatchedIsDurable
  ClaimIsExclusive
  EveryJobLeaves
  LateWorkerHarmless
  StaleAnswerIgnored
  EveryWakeSettles
  AnnounceKeepsPushes
CHECK_DEADLOCK FALSE
