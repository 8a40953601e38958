SPECIFICATION FairSpec
CONSTANTS
  Items = {i1, i2}
  Workers = {w1, w2}
  None = None
  MaxRetries = 2
  Faults = {}
  CrashPoints <- CrashBeforeResult
  MaxFaults = 1
CHECK_DEADLOCK FALSE
INVARIANT FinalRunIsExact
PROPERTIES LifecycleFairSpec
