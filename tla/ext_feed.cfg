SPECIFICATION Spec
CONSTANTS
  Prices = {1}
  Qtys = {0, 1}
  Handlers = {h1, h2}
  ChanCap = 1
  GapLimit = 2
  StaleAge = 0
  MaxAge = 0
  MaxSeq = 3
  MaxReconnect = 1
INVARIANTS TypeOK Integrity
PROPERTIES ReplicaSpec
CHECK_DEADLOCK FALSE
