SPECIFICATION Spec
CONSTANTS
  p1 = p1
  p2 = p2
  k1 = k1
  Callers <- TwoCallers
  Closers <- NoCloser
  NMarks = 2
  MaxConns = 2
  MaxLosses = 1
  MaxCalls = 3
  Kinds <- OnlyCommands
  PingOn = TRUE
  StreamErrs <- NoErrors
SYMMETRY Symmetry
INVARIANTS
  OwnResponse
CHECK_DEADLOCK FALSE
