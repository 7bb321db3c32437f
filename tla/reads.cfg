SPECIFICATION ReadsSpec
CONSTANTS
  Callers = {r1, r2}
  Wallets <- MCWallets
  Requests <- MCRequests
  Dexes = {}
  Ttl = 1
  MaxUniverses = 1
  MaxNow = 3
  MaxFetches = 4
SYMMETRY Symmetry
INVARIANTS OnDemandHolds PagesHold
CHECK_DEADLOCK FALSE
