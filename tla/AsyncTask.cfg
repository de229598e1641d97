SPECIFICATION FairSpec
CONSTANTS
  Depth = 4
  Nil = Nil
INVARIANTS
  TypeOK
  ResumedByOneSide
  ChildAtRest
  AwaiterNotForgotten
PROPERTIES
  ImplementsCallStack
