SPECIFICATION Spec
CONSTANTS
  Sizes <- MCSizes
  Day = 2
  FullLookback = 3
  Retention = 2
  ColdAfter = 1
  ColdInterval = 2
  BaseDelay = 1
  MaxDelay = 2
  Lookback <- MCLookback
  PageSize = 3
  Horizon = 4
  MaxFills = 3
  MaxFailures = 1
INVARIANTS TypeOK NothingSkipped RowsAreWhole AsOfIsCovered
CHECK_DEADLOCK FALSE
