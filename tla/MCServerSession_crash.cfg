SPECIFICATION Spec
CONSTANTS
  i1 = i1
  h1 = h1
  h2 = h2
  u1 = u1
  u2 = u2
  None = None
  Ids <- OneId
  Handshakes <- TwoHandshakes
  Users <- OneUser
  InactiveMax = 2
  Limit = 2
  Kinds <- OnlyPlain
  MaxCmds = 2
  MaxScans = 0
SYMMETRY Symmetry
INVARIANTS
  NoCrash
CHECK_DEADLOCK FALSE
