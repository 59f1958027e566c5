\* Turns may outlive their in-flight deadline: what holds regardless.
CONSTANTS
  c1 = c1
  c2 = c2
  MaxEvents = 3
  Channel <- MCChannel
  Event <- MCEvent
  CreatedAt <- NewestFirst
  Dedup = "queue"
  MaxPending = 2
  MaxBatch = 2
  MaxRetries = 2
  MayOverrun = TRUE
SPECIFICATION Spec
SYMMETRY Symmetry
INVARIANTS
  TypeOK
  InFlightHasDeadline
  InFlightHasBatch
  QueueBounded
  BackoffCounted
  ReasonMatchesBatch
  OnePlace
  WithheldIsWatched
