SPECIFICATION Spec
CONSTANTS
  p1 = p1
  p2 = p2
  k1 = k1
  Callers <- TwoCallers
  Closers <- OneCloser
  NMarks = 2
  MaxConns = 2
  MaxLosses = 1
  MaxCalls = 2
  Kinds <- OnlyCommands
  PingOn = TRUE
  StreamErrs <- NoErrors
SYMMETRY Symmetry
INVARIANTS
  TypeOK
  ActiveReqsCount
  ClosingDrained
  NoClosedNotice
  ErrLockHeld
  OneReader
  NoForgottenWaiter
PROPERTIES
  ExitOnce
CHECK_DEADLOCK FALSE
