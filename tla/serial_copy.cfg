\* The same hosts over a line that only loses bytes: what a LOAD frame copies.
CONSTANTS
    Programs <- MCPrograms
    MaxAddr = 4
    MaxFailures = 2
    Misread <- MCMisread
    PayloadTop = 20
    MaxFaults = 0
    Magic <- MCMagic
    Keys <- MCKeys
SPECIFICATION Spec
PROPERTIES CopiesPayload
CHECK_DEADLOCK FALSE
