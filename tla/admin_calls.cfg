SPECIFICATION AdminSpec
CONSTANTS
  Accounts = {a1}
  Workers = {w1, w2}
  Proxies = {p1, p2}
  Malformed = {p2}
  NoClient = NoClient
  Calls = {c1, c2, c3}
  NoTarget = NoTarget
  Keep = Keep
SYMMETRY Symmetry
INVARIANTS
  AdminTypeOK
  RefusalsAreNoticed
PROPERTIES
  ClientsKept
  DeletedStays
