SPECIFICATION UserSpec
CONSTANTS
  Users = {u1, u2}
  k1 = k1
  k2 = k2
  k3 = k3
  k4 = k4
  p1 = p1
  p2 = p2
  p3 = p3
  p4 = p4
  Keys <- MCKeys
  NoKey = NoKey
  Prefix <- MCPrefix
  Calls = {c1, c2}
  NoUser = NoUser
  Keep = Keep
  Workers = {w1, w2}
INVARIANTS
  UserTypeOK
  EveryKeyWorks
PROPERTIES
  FirstAdminOnly
  BootsEnd
