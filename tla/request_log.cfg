SPECIFICATION LogSpec
CONSTANTS
  sync = sync
  stream = stream
  u = u
  in = in
  out = out
  Requests = {sync, stream}
  Streams = {stream}
  Users = {u}
  User <- MCUser
  Accounts = {a1, a2}
  NoAccount = NoAccount
  Fields = {in, out}
  Null = Null
  Counts = {0, 1, 2}
  Lines <- MCLines
  Windows = {0, 1}
  MaxLines = 2
  MaxDay = 1
INVARIANTS
  LogTypeOK
  UsageIsLastWord
  TokensMeanWhole
  BreakdownCovers
  RowsNameAccounts
PROPERTIES
  HistoryKept
SYMMETRY MCSymmetry
