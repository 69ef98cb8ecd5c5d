SPECIFICATION FairSpec
CONSTANTS
    Seconds = 2
    Size = 2
    Unreliable = {"GPRMC", "GPZDA"}
    Garbled = {0}
    LockThreshold = 0
    NULL = NULL
INVARIANTS
    TypeOK
    PlacesKept
    PairedIfClean
PROPERTY SyncsAgain
