\* Every kind of transfer, from less than one message to three, with short
\* writes, failures and the loss of the connection at every point.
SPECIFICATION FairSpec
CONSTANTS
  Kinds <- AllKinds
  Sizes <- MCSizes
  Offset = 1
  Top = 8
  Payload = 2
  Data = 3
  CopyMax = 2
INVARIANTS TypeOK PrefixOnly ReadExact
PROPERTIES Implements TransferEnds
\* A finished operation is the end of a behaviour.
CHECK_DEADLOCK FALSE
