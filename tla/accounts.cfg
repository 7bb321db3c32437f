SPECIFICATION Spec
CONSTANTS
  Clients = {c1, c2}
  Emails = {"e"}
  Passwords = {"p", "q", "s"}
  Short = {"s"}
  AdminEmail = "e"
  AdminPassword = "p"
  UserIds = {1, 2}
  TokenIds = {1, 2}
  MaxRequests = 3
  Addresses = {"a", "b", "x"}
  UnsupportedChain = {"x"}
  NonceIds = {1, 2}
  WalletIds = {1, 2}
  Tabs <- MCTabs
  Names = {"n", "m"}
  GroupIds = {1, 2, 3}
  Venues = {"hl", "x"}
  Registered <- MCRegistered
  Bodies <- MCBodies
  Caps = {0, 2}
  DefaultCap = 1
  Aliases = {"al"}
  NoAlias = ""
  MaxGroupRequests = 3
  Accounts = {u1, u2}
  Chats = {k1, k2}
  NoChat = "none"
  CodeIds = {1, 2}
  MaxUpdates = 2
  MaxRestarts = 1
  Requests = {1, 2, 3, 4}
  Limit = 1
  Window = 3
  Delay = 1
  MaxTime = 5
  Locales = {"en", "vi"}
  Sizes = {0, 1, 2}
  Prices = {2}
  NoPx = NoPx
  Readers = {1, 2}
  Writers = {1, 2}
  MaxWrites = 2
  CapMin = 1
  CapMax = 3
  CapDefault = 2
  CapRequests = {{0}, {1}}
  DexRequests = {{"abc"}, {"?"}}
  KnownDexes = {"xyz", "abc"}
SYMMETRY Symmetric
INVARIANTS OneAccountPerEmail OldSessionsEnd KeepsAWallet UsedOnce
  CapHolds TwiceTheLimit  ServedIsCurrent
CHECK_DEADLOCK FALSE
