CONSTANTS
  a = a
  b = b
  Nodes = {a, b}
  Peer <- MCPeer
  Commanders = {a, b}
  Lengths = {1}
  CountMod = 8
  FifoDepth = 1
  BeatBytes = 1
  LengthMod = 16
  Lookalike = {1}
  CdcDepth = 1
  TxReset = FALSE
  MaxDowns = 1
SPECIFICATION Spec
SYMMETRY Swap
INVARIANTS StopsEmpty NoStrayReport
CHECK_DEADLOCK FALSE
