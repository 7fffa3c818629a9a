SPECIFICATION Spec
CONSTANTS
  Pairs <- MCPairs
  Base <- MCBase
  Quote <- MCQuote
  Starting <- MCStarting
  Signals <- MCSignals
  LastBar = 3
  MaxHold = 2
  Moves <- MCWideMoves
  StopMove <- MCStopMove
  TargetMove = 1
  Sizes = {2}
  MaxDecisions = 3
INVARIANTS JudgedBook  AuditJoins FillsFair
CHECK_DEADLOCK FALSE
