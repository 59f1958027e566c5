\* Two agents, initial messages, tasks that outlive their in-flight deadline; no symmetry.
CONSTANTS
  c1 = c1
  c2 = c2
  MaxEvents = 2
  Slots = 2
  Channel <- MCChannel
  Event <- MCEvent
  Slot <- MCSlot
  CreatedAt <- NewestFirst
  Dedup = "queue"
  Handling = "steer"
  InitialMessage = TRUE
  Timers = TRUE
  MaxPending = 2
  MaxBatch = 2
  MaxRetries = 1
  CrashThreshold = 2
  MaxFaults = 1
  MaxControls = 0
SPECIFICATION Spec
PROPERTIES
  RefinesQueue
  OneTaskUnlessOverrun
