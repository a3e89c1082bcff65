\* Loads, aborts and unknown commands over a line that loses any number of bytes
\* and has two other faults.
CONSTANTS
    Programs <- MCPrograms
    MaxAddr = 4
    MaxFailures = 2
    Misread <- MCMisread
    PayloadTop = 20
    MaxFaults = 2
    Magic <- MCMagic
    Keys <- MCKeys
SPECIFICATION FairSpec
INVARIANTS RecognizesMagic InStepInv ImageIntact
PROPERTIES LoadingEnds
CHECK_DEADLOCK FALSE
