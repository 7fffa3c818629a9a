CONSTANTS
  Clients = {c1, c2}
  Capacity = 1
  MaxRuns = 3
  MaxCalls = 0
SPECIFICATION Safety
SYMMETRY ClientSymmetry
INVARIANTS NoLiveRunLost
PROPERTIES EvictionOrder OverflowJustified
CHECK_DEADLOCK FALSE
