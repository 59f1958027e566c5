\* A cancelled turn and an exhausted pool.
CONSTANTS
  c1 = c1
  c2 = c2
  MaxEvents = 3
  Slots = 1
  Channel <- MCChannel
  Event <- MCEvent
  Slot <- MCSlot
  CreatedAt <- NewestFirst
  Dedup = "queue"
  Handling = "interrupt"
  InitialMessage = FALSE
  Timers = TRUE
  MaxPending = 3
  MaxBatch = 2
  MaxRetries = 1
  CrashThreshold = 2
  MaxFaults = 1
  MaxControls = 0
SPECIFICATION Spec
SYMMETRY Symmetry
PROPERTIES
  CancelledSurvives
