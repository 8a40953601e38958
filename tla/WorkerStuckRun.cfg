SPECIFICATION FairSpec
CONSTANTS
  Items = {i1, i2}
  Workers = {w1, w2}
  None = None
  MaxRetries = 1
  Faults = {"task_failure"}
  CrashPoints = {"acking"}
  MaxFaults = 1
CHECK_DEADLOCK FALSE
PROPERTY RunEventuallyFinished
