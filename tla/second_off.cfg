SPECIFICATION Spec
CONSTANTS
    Seconds = 3
    Size = 3
    Unreliable = {"GPRMC", "GPZDA"}
    Garbled = {0}
    LockThreshold = 0
    NULL = NULL
PROPERTY CountsOnlySmall
