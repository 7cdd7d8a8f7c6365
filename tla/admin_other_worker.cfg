SPECIFICATION AdminSpec
CONSTANTS
  Accounts = {a1}
  Workers = {w1, w2}
  Proxies = {p1, p2}
  Malformed = {}
  NoClient = NoClient
  Calls = {c1}
  NoTarget = NoTarget
  Keep = Keep
INVARIANT WorkersAgree
