SPECIFICATION Spec
CONSTANTS
  Wallets = {w1}
  Clients = {c1, c2}
  Watchers = {i1, i2}
  Oids = {o1}
  None = None
  GateSize = 1
  UpstreamMayFail = TRUE
  MaxDrops = 1
SYMMETRY Symmetry
INVARIANTS Counted  CreatedOnceWhenLive
CHECK_DEADLOCK FALSE
