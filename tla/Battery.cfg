SPECIFICATION Spec
CONSTANTS
  Hours = 4
  Capacity = 8
  Power = 2
  EffNum = 9
  EffDen = 10
  Wear = 1
  MinNode = 0
  MaxNode = 7
  StartNode = 4
  Reserve = 3
  CapacityPrice = 5
  Low <- MCLow
  High <- MCHigh
  Weight <- MCWeight
  Worlds <- MCWorlds
  Windows <- MCWindows
  Sizes = {1, 2, 3}
  Lookback = 3
INVARIANTS TypeOK PlanIsBest SmallerIsAsFeasible ReserveHeavyHolds RuleForesees
CHECK_DEADLOCK FALSE
