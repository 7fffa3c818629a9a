CONSTANTS
  r1 = r1
  r2 = r2
  Runs = {r1, r2}
  None = None
  AllRuns = AllRuns
  MaxFlight = 3
  MaxFaults = 0
SPECIFICATION PageSpec
INVARIANTS ListPolledWhileJudging
CHECK_DEADLOCK FALSE
