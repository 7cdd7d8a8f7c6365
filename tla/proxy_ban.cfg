SPECIFICATION CalmSpec
CONSTANTS
  a1 = a1
  a2 = a2
  Accounts <- MCAccounts
  Workers = {w1}
  Proxies = {direct}
  Malformed = {}
  NoClient = NoClient
  Requests = {r1}
  NoAccount = NoAccount
  Priority <- MCPriority
  MaxOpen = 3
  Unreadable = {}
INVARIANT BanIsDetected
