\* The claim on a wake lapses while its worker is slow, as late in a batch.
SPECIFICATION Spec
CONSTANTS
  Event = {e1, e2}
  Worker = {w1, w2}
  Nobody = nobody
  Crashed = crashed
  MaxGen = 2
  MaxAttempts = 2
  MaxErrors = 1

PROPERTIES LapsedClaimRecovered
CHECK_DEADLOCK FALSE
