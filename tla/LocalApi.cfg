\* The local API: any text up to five units, or three clients with requests at every limit, over a queue of one.
SPECIFICATION MCSpec
CONSTANTS
  MaxChunk = 4
  ClauseMin = 3
  LineMin = 2
  MaxToken = 3
  HeaderMax = 3
  BodyMax = 3
  HeadRead = 2
  BodyRead = 1
  MaxText = 4
  Capacity = 1
  MaxLen = 5
  MaxClients = 3
CHECK_DEADLOCK FALSE
INVARIANTS
  AnswerFitsRequest
  AcceptedOnce
  StopHolds
  SpokenWhole
