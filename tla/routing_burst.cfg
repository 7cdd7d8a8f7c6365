SPECIFICATION BurstSpec
CONSTANTS
  a1 = a1
  a2 = a2
  Accounts <- MCAccounts
  Workers = {w1}
  Proxies = {direct}
  Malformed = {}
  NoClient = NoClient
  Requests = {r1, r2, r3}
  NoAccount = NoAccount
  Priority <- MCPriority
  MaxOpen = 6
SYMMETRY Symmetry
INVARIANTS
  Balanced
