SPECIFICATION MCSpec
CONSTANTS
  Backend = "kqueue"
  MaxArrived = 3
  Capacity = 2
  MaxSize = 3
  Ends <- QuietEnds
  MaxRequests = 3
  Handle = Handle
  None = None
INVARIANTS
  QuietNoneOutlives
  ResponsesWhole
PROPERTIES
  AnsweredWhileOpen
  ConnectionEnds
CHECK_DEADLOCK FALSE
