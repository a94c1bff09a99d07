SPECIFICATION Spec
CONSTANTS
  i1 = i1
  h1 = h1
  h2 = h2
  u1 = u1
  u2 = u2
  None = None
  Ids <- OneId
  Handshakes <- TwoHandshakes
  Users <- TwoUsers
  InactiveMax = 2
  Limit = 2
  Kinds <- AllShapes
  MaxCmds = 2
  MaxScans = 3
SYMMETRY Symmetry
INVARIANTS
  TypeOK
  OneHolder
  NoStrayCommand
  ErrLockPaired
  OwnSession
PROPERTIES
  CollectedIdle
CHECK_DEADLOCK FALSE
