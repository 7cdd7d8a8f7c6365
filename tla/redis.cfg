SPECIFICATION Spec
CONSTANTS
  Accounts = {a1, a2}
  Callers = {c1, c2, c3}
  NoAccount = NoAccount
  NoKey = NoKey
  RetryAfters <- MCRetryAfters
  Deadlines <- MCDeadlines
  TicksPerSecond = 2
  MaxTime = 5
INVARIANTS
  TypeOK
  ExactCount
  NeverOvercounts
  NegativeIsTransient
  IdleMeansZero
PROPERTIES
  ImplementsAccountState
