SPECIFICATION Spec
CONSTANTS
  Roots <- SmallRoots
  RootMax = 3
  ChildMax = 1
  MaxDirs = 2
  MsgCap = 2
INVARIANTS
  ChildIsOwn
CHECK_DEADLOCK FALSE
