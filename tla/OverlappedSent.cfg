SPECIFICATION Spec
CONSTANTS
  MaxArrived = 3
  BufferSize = 2
  MaxSize = 3
  MaxWire = 7
INVARIANT
  SentIsRequested
CHECK_DEADLOCK FALSE
