SPECIFICATION Spec
CONSTANTS
  Items = {i1, i2}
  Workers = {w1, w2}
  None = None
  MaxRetries = 2
  Faults = {"api_crash", "task_failure", "callback_error"}
  CrashPoints <- CrashBeforeRetry
  MaxFaults = 2
CHECK_DEADLOCK FALSE
SYMMETRY BothSymmetry
INVARIANTS TypeOK UniqueDelivery EvidenceMatchesStatus CountersNeverAhead
PROPERTIES LifecycleSpec
