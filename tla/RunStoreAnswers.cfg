CONSTANTS
  Clients = {c1, c2}
  Capacity = 1
  MaxRuns = 2
  MaxCalls = 1
SPECIFICATION Spec
INVARIANTS FinalAnswers ResultMatchesStatus IInv
PROPERTIES FinishedIsFinal ImplementsLifecycle JobsFinish StartsAnswered
CHECK_DEADLOCK FALSE
