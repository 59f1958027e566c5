\* A lease is renewed while a matcher works with the leases it has loaded.
SPECIFICATION Spec
CONSTANTS
  Inst = {i1}
  Event = {e1}
  Matcher = {m1, m2}
  Nobody = nobody
  Crashed = crashed
  MaxGen = 2
  MaxTries = 3
  MaxErrors = 0
PROPERTY BackfillReaches
CHECK_DEADLOCK FALSE
