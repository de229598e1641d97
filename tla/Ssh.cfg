SPECIFICATION FairSpec
CONSTANTS
  MaxIncoming = 2
  Capacity = 2
  Sizes = {1, 3}
INVARIANTS
  ConnectTruthful
  WaitsForBlocked
  WriteCounted
PROPERTIES
  GoesOn
CHECK_DEADLOCK FALSE
