SPECIFICATION FairSpec
CONSTANTS
  p1 = p1
  p2 = p2
  p3 = p3
  Peers = {p1, p2, p3}
  Descriptors <- Numbers
  Invalid = Invalid
  Free = Free
  Unused = Unused
  Listener = Listener
  Client = Client
  Param = Param
  Server = Server
  Local = Local
  None = None
INVARIANTS
  OwnedOnce
PROPERTIES
  EachHandled
  FailureEnds
CHECK_DEADLOCK FALSE
