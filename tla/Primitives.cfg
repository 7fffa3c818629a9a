SPECIFICATION Spec
CONSTANTS
  Unit = 300
  Single <- MCSingle
  Grain = 1
  SumTolerance = 3
  ScoreTolerance = 15
  Judgments <- MCJudgments
  Answers <- MCAnswers
  Threshold = 150
  MinConfidence = 75
  BandLow = 120
  BandHigh = 180
  MaxDrivers = 3
  MaxSummary = 40
INVARIANTS RefusedOnlyAtTheEdge LabelNearTop NearThresholdIsReviewed RankFollowsRatings ScoreFaithful SummaryIsFull
CHECK_DEADLOCK FALSE
