SPECIFICATION FairSpec
CONSTANTS
  MaxYields = 3
  None = None
INVARIANTS
  TypeOK
  Assertions
  ValueStable
  OnlySuspendedResumed
PROPERTIES
  Released
  ImplementsStream
