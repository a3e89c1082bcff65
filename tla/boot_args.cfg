\* Two regions of memory, two builds, every list of up to two elements.
CONSTANTS
    Builds <- MCBuilds
    FileMedia = {"sdcard", "net"}
    Names <- MCNames
    Kind <- MCKind
    Values = {0, 1}
    MainRam = 0
    RomAddress = 9
    Lists <- MCLists
SPECIFICATION BootSpec
INVARIANTS BootTakesArgs
CHECK_DEADLOCK FALSE
