SPECIFICATION FairSpec
CONSTANTS
  Wallets = {w1, w2}
  Clients = {c1}
  Watchers = {i1, i2}
  Oids = {}
  None = None
  GateSize = 1
  UpstreamMayFail = FALSE
  MaxDrops = 0
PROPERTY EventuallyLive
CHECK_DEADLOCK FALSE
