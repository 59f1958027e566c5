\* Turns end before their in-flight deadline, as the queue expects of them.
CONSTANTS
  c1 = c1
  c2 = c2
  MaxEvents = 4
  Channel <- MCChannel
  Event <- MCEvent
  CreatedAt <- NewestFirst
  Dedup = "queue"
  MaxPending = 2
  MaxBatch = 2
  MaxRetries = 2
  MayOverrun = FALSE
SPECIFICATION Spec
SYMMETRY Symmetry
INVARIANTS
  OneTurnPerChannel
  SteeredIsNotDispatched
PROPERTY
  BackoffRespected
