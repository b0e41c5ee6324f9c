CONSTANTS
    Image <- OfImage
    Locals <- Disks
    Userdatas <- Clouds
    Modes <- AllModes
    MaxFails = 1
    MaxCuts = 1
    MaxAgain = 1
SPECIFICATION Spec
INVARIANTS
    FailuresConfined
    CommandsLast
    EtcIsFresh
    K3SInTime
CHECK_DEADLOCK FALSE
