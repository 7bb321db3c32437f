SPECIFICATION FairSpec
CONSTANTS
  Addrs = {a1, a2, a3}
  Conns = {c1, c2}
  MaxSubs = 2
  MaxDrops = 1
  MaxSends = 1
INVARIANTS Capacity NoIdleConnections SingleUnlessUnsubscribed CarriedUnlessRaced
PROPERTY ReconnectCompletes
CHECK_DEADLOCK FALSE
