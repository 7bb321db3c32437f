SPECIFICATION MCSpec
CONSTANTS
  Admins <- MCAdmins
  Others <- MCOthers
  StrategyIds = {1, 2, 3}
  Titles = {"m", "n"}
  TypeCodes = {"spread"}
  Opportunities <- MCOpportunities
  MaxStrategyRequests = 3
  Traders = {1, 2}
  Intruders = {3}
  PolicyIds = {1, 2, 3}
  Labels = {"l", "m"}
  Notionals = {1, 50000, 50001}
  MaxRiskRequests = 3
  Operators = {1, 2}
  Guests = {3}
  ExecutionIds = {1, 2, 3}
  Prefix <- MCPrefix
  Intents <- MCIntents
  MaxExecutionRequests = 3
  Auditors = {1}
  Visitors = {2}
  Workers = {1, 2}
  RunIds = {1, 2}
  Recorded <- MCRecorded
  Reported <- MCReported
  MaxRuns = 2
  Venues = {1, 2}
  Updaters = {u1, u2}
  Subscribers = {1}
  Quotes <- MCQuotes
  Books <- MCBooks
  Fundings <- MCFundings
  SubscriberBuffer = 1
  MaxUpdates = 2
  FeeModels <- MCFees
  MaxScans = 1
SYMMETRY Symmetric
INVARIANTS EngineMatchesRows  RecordsAreTrue OpportunitiesPay
CHECK_DEADLOCK FALSE
