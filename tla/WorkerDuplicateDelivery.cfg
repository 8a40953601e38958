SPECIFICATION Spec
CONSTANTS
  Items = {i1, i2}
  Workers = {w1, w2}
  None = None
  MaxRetries = 1
  Faults = {"connection_loss"}
  CrashPoints = {}
  MaxFaults = 1
CHECK_DEADLOCK FALSE
INVARIANT EvidenceMatchesStatus
