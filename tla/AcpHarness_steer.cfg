\* Steer mode, one agent: every queue call of the main loop is one of EventQueue.
CONSTANTS
  c1 = c1
  c2 = c2
  MaxEvents = 3
  Slots = 1
  Channel <- MCChannel
  Event <- MCEvent
  Slot <- MCSlot
  CreatedAt <- NewestFirst
  Dedup = "queue"
  Handling = "steer"
  InitialMessage = FALSE
  Timers = TRUE
  MaxPending = 2
  MaxBatch = 2
  MaxRetries = 1
  CrashThreshold = 2
  MaxFaults = 1
  MaxControls = 1
SPECIFICATION Spec
SYMMETRY Symmetry
INVARIANTS
  RemovedSessionsGone
  SteerHasReader
PROPERTIES
  RefinesQueue
