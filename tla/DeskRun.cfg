SPECIFICATION Spec
CONSTANTS
  Hosts <- MCHosts
  MaxRuns = 2
  MaxDecisions = 2
  MaxDays = 2
INVARIANTS DecisionsJoin LogsAreCurrent ReportsCountTheirCalls
CHECK_DEADLOCK FALSE
