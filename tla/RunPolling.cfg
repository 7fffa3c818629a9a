CONSTANTS
  r1 = r1
  r2 = r2
  Runs = {r1, r2}
  None = None
  AllRuns = AllRuns
  MaxFlight = 2
  MaxFaults = 1
SPECIFICATION PageSpec
INVARIANTS ViewIsOfSelection
PROPERTIES RunSettles ListSettles
CHECK_DEADLOCK FALSE
