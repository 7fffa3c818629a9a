CONSTANTS
  p1 = p1
  p2 = p2
  p3 = p3
  d1 = d1
  d2 = d2
  classify = classify
  check = check
  Untagged = Untagged
  Pipelines = {p1, p2, p3}
  DecisionOf <- ThreeWays
  StageNames = {"a"}
  Kinds = {classify, check}
  AsksOf <- MCAsksOf
  MaxBatches = 2
  MaxStages = 2
  MaxSlots = 2
  MaxTokens = 1
SPECIFICATION Spec
INVARIANTS StagesSeeEarlier LedgerPartitions HandedIsAudited HandedOnce
CHECK_DEADLOCK FALSE
