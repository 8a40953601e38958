SPECIFICATION Spec
CONSTANTS
  Items = {i1, i2}
  Workers = {w1, w2}
  None = None
  MaxRetries = 1
  Faults = {"partial_submit", "connection_loss", "task_failure"}
  CrashPoints <- Steps
  MaxFaults = 2
CHECK_DEADLOCK FALSE
SYMMETRY BothSymmetry
INVARIANTS CountersBounded FinishedRunIsSettled NoLostItem
PROPERTIES SettledStaysSettled
