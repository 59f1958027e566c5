\* One event, a crashing agent, retries.
CONSTANTS
  c1 = c1
  c2 = c2
  MaxEvents = 1
  Slots = 1
  Channel <- MCChannel
  Event <- MCEvent
  Slot <- MCSlot
  CreatedAt <- NewestFirst
  Dedup = "queue"
  Handling = "queue"
  InitialMessage = FALSE
  Timers = TRUE
  MaxPending = 2
  MaxBatch = 2
  MaxRetries = 1
  CrashThreshold = 5
  MaxFaults = 3
  MaxControls = 0
SPECIFICATION HistorySpec
INVARIANTS
  RetryBudget
