SPECIFICATION FairSpec
CONSTANTS
  i1 = i1
  h1 = h1
  h2 = h2
  u1 = u1
  u2 = u2
  None = None
  Ids <- OneId
  Handshakes <- TwoHandshakes
  Users <- OneUser
  InactiveMax = 1
  Limit = 1
  Kinds <- Lasting
  MaxCmds = 2
  MaxScans = 1
PROPERTIES
  Released
  HandshakeEnds
CHECK_DEADLOCK FALSE
