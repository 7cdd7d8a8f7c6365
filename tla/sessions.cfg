SPECIFICATION MCDbSpec
CONSTANTS
  Requests = {1, 2, 3}
  Capacity = 2
INVARIANTS
  DbTypeOK
  StreamsHoldNothing
  SyncAnswersSurvive
PROPERTIES
  EveryRequestEndsClean
