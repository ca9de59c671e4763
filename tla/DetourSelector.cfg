CONSTANTS
  StopCount = 4
  Tolerance = 3
  Unit = 10
  Seconds <- MCSeconds
  NoPath = NoPath
  NoState = NoState
SPECIFICATION MCSpec
INVARIANTS
  SelectionIsFeasible
  FailureIsReal
  SelectionIsBest
CHECK_DEADLOCK FALSE
