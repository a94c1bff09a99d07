SPECIFICATION FairSpec
CONSTANTS
  p1 = p1
  p2 = p2
  k1 = k1
  Callers <- TwoCallers
  Closers <- OneCloser
  NMarks = 2
  MaxConns = 2
  MaxLosses = 1
  MaxCalls = 2
  Kinds <- OnlyCommands
  PingOn = FALSE
  StreamErrs <- NoErrors
PROPERTIES
  CallsFinish
  CloseEnds
  FirstWaitEnds
  FirstRecoveryEnds
CHECK_DEADLOCK FALSE
