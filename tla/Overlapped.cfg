SPECIFICATION MCSpec
CONSTANTS
  MaxArrived = 3
  BufferSize = 2
  MaxSize = 3
  MaxWire = 6
  Senders = {a, b}
  None = None
  MaxLength = 2
  MaxInbox = 2
  MaxOut = 2
  DatagramSize = 1
INVARIANTS
  StreamCounted
  DatagramWhole
  DatagramOnce
