\* Every length that the 3-bit counters of this instance can hold.
CONSTANTS
  MaxLen = 7
  Lengths <- MCLengths
  CountMod <- MCCountMod
  BeatBytes = 2
  LengthMod = 8
SPECIFICATION FairSpec
INVARIANTS IInv StopIsQuiet StatusTrue
PROPERTIES EchoTestSpec Answered
