\* A board with short counters and synchronizers of two stages; the lock may
\* be lost once, EOS and the VIO reset move freely.
CONSTANTS
    EosLen = 2
    CounterTop = 3
    RstPbCycle = 1
    PmaInitCycle = 2
    SyncLen = 2
    MaxLosses = 1
SPECIFICATION FairSpec
INVARIANTS IInv MmcmAfterClock DoneWithdrawn
PROPERTIES FullWidths ReleasedInReset Initialized
