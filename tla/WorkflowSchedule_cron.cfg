\* One pod, a cron expression that is due every period, ticks up to a sixth late.
CONSTANTS
  Pod = {d1}
  Period = 6
  Drift = 1
  Every = 6
  Interval = 12
  None = None
  MaxTime = 36
  MaxFaults = 0
SPECIFICATION Spec
INVARIANT LateTickMissesNothing
CHECK_DEADLOCK FALSE
