CONSTANTS
  a = a
  b = b
  Nodes = {a, b}
  Peer <- MCPeer
  Commanders = {a, b}
  Lengths = {0, 4}
  CountMod = 8
  FifoDepth = 1
  BeatBytes = 1
  LengthMod = 16
  Lookalike = {}
SPECIFICATION FairSpec
INVARIANTS NodeTypeOK WellAligned StopsQuietOrWedged
PROPERTIES EachTesterEchoed AnsweredOrWedged
CHECK_DEADLOCK FALSE
