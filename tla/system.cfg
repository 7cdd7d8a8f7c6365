SPECIFICATION MixedSpec
CONSTANTS
  Accounts = {a1}
  Workers = {w1, w2}
  Proxies = {p1}
  Malformed = {}
  NoClient = NoClient
  Requests = {r1, r2}
  NoAccount = NoAccount
  Priority <- MCPriority
  MaxOpen = 3
  Unreadable = {}
  Calls = {c1}
  NoTarget = NoTarget
  Keep = Keep
SYMMETRY Symmetry
INVARIANTS
  ConnAccounting
  CleanLogMeansOk
PROPERTY KeepsLedger
