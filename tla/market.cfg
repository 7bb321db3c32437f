SPECIFICATION Spec
CONSTANTS
  Sockets = {1, 2}
  Markets <- MCMarkets
  Received = {1, 2, 3}
  MaxRows = 3
  InitialBackoff = 1
  MaxBackoff = 4
  MaxRetries = 4
  Browsers = {b1}
  SubBuffer = 1
  SendBuffer = 1
  MaxSequence = 3
  Venues = {1, 2, 3, 4}
  Apis <- MCApis
  Listings <- MCListings
  Rates = {1, 2}
  Marks = {1}
  Requests = {1}
  Asked <- MCAsked
  MaxCycles = 2
  Universes <- MCUniverses
  MaxCoins = 2
  StreamBackoff = 4
  Frames <- MCFrames
  QueueCap = 2
  BatchSize = 2
  Boards <- MCBoards
  Limit = 2
  Manual <- MCManual
  MaxRuns = 1
  Callers = {1, 2, 3}
  Concurrency = 2
  Floor = 1
  PacerBackoff = 4
  Second = 1
  Timeout = 3
  Books <- MCBooks
  Window <- MCWindow
  PageSize = 3
  MinSlice = 1
  MaxCalls = 4
  Offered = {"single", "plain", "unpaced", "window"}
  MaxNow = 5
INVARIANTS MarketHolds  UpstreamHolds
CHECK_DEADLOCK FALSE
