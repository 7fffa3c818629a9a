CONSTANTS
  Clients = {c1, c2}
  Capacity = 1
  MaxRuns = 2
  MaxCalls = 1
SPECIFICATION Safety
INVARIANT RunningHasJob
CHECK_DEADLOCK FALSE
