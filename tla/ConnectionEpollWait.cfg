SPECIFICATION ConnectionSpec
CONSTANTS
  Backend = "epoll"
  MaxArrived = 3
  Capacity = 2
  MaxSize = 3
  Ends = {"eof"}
  MaxRequests = 3
  Handle = Handle
  None = None
INVARIANT
  NoneOutlives
CHECK_DEADLOCK FALSE
