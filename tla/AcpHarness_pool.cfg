\* Owner-interrupt mode, two agents, crashes up to the breaker.
CONSTANTS
  c1 = c1
  c2 = c2
  MaxEvents = 2
  Slots = 2
  Channel <- MCChannel
  Event <- MCEvent
  Slot <- MCSlot
  CreatedAt <- NewestFirst
  Dedup = "queue"
  Handling = "owner_interrupt"
  InitialMessage = FALSE
  Timers = TRUE
  MaxPending = 2
  MaxBatch = 2
  MaxRetries = 1
  CrashThreshold = 2
  MaxFaults = 3
  MaxControls = 0
SPECIFICATION Spec
SYMMETRY Symmetry
INVARIANTS
  SlotExclusive
  OpenCircuitIsEmpty
  ExitMeansDead
