SPECIFICATION FairSpec
CONSTANTS
  Roots <- AllRoots
  RootMax = 3
  ChildMax = 1
  MaxDirs = 2
  MsgCap = 2
INVARIANTS
  TypeOK
  ClosedOnce
  RootComplete
  ChildIsOwnIfAgreed
  MarkClean
PROPERTIES
  PrefetchResolves
  CommandEnds
CHECK_DEADLOCK FALSE
