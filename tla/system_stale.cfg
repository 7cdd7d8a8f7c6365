SPECIFICATION SystemSpec
CONSTANTS
  Accounts = {a1}
  Workers = {w1}
  Proxies = {p1}
  Malformed = {}
  NoClient = NoClient
  Requests = {r1}
  NoAccount = NoAccount
  Priority <- MCPriority
  MaxOpen = 3
  Unreadable = {}
  Calls = {c1}
  NoTarget = NoTarget
  Keep = Keep
PROPERTY OnlyUnbanRestores
