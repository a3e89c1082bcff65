CONSTANTS
  a = a
  b = b
  Nodes = {a, b}
  Peer <- MCPeer
  Commanders = {a}
  Lengths = {0, 3}
  CountMod = 8
  FifoDepth = 1
  BeatBytes = 1
  LengthMod = 16
  Lookalike = {1}
  CdcDepth = 1
  TxReset = TRUE
  MaxDowns = 1
SPECIFICATION FairSpec
INVARIANTS TypeOK CleanUntilLoss LossShortens Realigns
PROPERTIES AnsweredOrLost
CHECK_DEADLOCK FALSE
