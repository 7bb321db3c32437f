SPECIFICATION FairSpec
CONSTANTS
  Prices = {1}
  Qtys = {0, 1}
  Handlers = {h1}
  ChanCap = 1
  GapLimit = 2
  StaleAge = 0
  MaxAge = 1
  MaxSeq = 3
  MaxReconnect = 2
INVARIANTS HealthyIsCurrent DisconnectIsFinal
PROPERTIES DeadFeedIsNoticed
CHECK_DEADLOCK FALSE
