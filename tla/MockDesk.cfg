SPECIFICATION Spec
CONSTANTS
  Unit = 1000
  Single <- MCSingle
  Grain = 0
  SumTolerance = 10
  ScoreTolerance = 50
  Threshold = 500
  MaxSummary = 300
  FxWorlds <- MCFxWorlds
  BatteryWorlds <- MCBatteryWorlds
  Sessions <- MCSessions
INVARIANTS AnswersStand GateHeedsChecks EventDecidesReplay ChosenKeepsReserve SummaryTellsEscalations
CHECK_DEADLOCK FALSE
