\* Liveness: one agent, steering, no symmetry.
CONSTANTS
  c1 = c1
  c2 = c2
  MaxEvents = 2
  Slots = 1
  Channel <- MCChannel
  Event <- MCEvent
  Slot <- MCSlot
  CreatedAt <- NewestFirst
  Dedup = "queue"
  Handling = "steer"
  InitialMessage = FALSE
  Timers = TRUE
  MaxPending = 2
  MaxBatch = 2
  MaxRetries = 1
  CrashThreshold = 2
  MaxFaults = 2
  MaxControls = 0
SPECIFICATION FairSpec
PROPERTIES
  EveryEventSettles
  EveryChannelFrees
  EverySlotRefills
