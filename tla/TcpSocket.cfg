SPECIFICATION FairSpec
CONSTANTS
  Backend = "epoll"
  MaxArrived = 2
  Capacity = 2
  MaxSize = 3
  Ends <- AllEnds
INVARIANTS
  TypeOK
  SendExact
  WaitsRegistered
PROPERTIES
  ReaderResumed
