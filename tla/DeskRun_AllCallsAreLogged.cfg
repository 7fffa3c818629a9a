SPECIFICATION Spec
CONSTANTS
  Hosts <- MCHosts
  MaxRuns = 2
  MaxDecisions = 2
  MaxDays = 2
INVARIANT AllCallsAreLogged
CHECK_DEADLOCK FALSE
