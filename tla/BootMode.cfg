CONSTANTS
    None = None
    CmdlineModes <- AllCmdlines
    FallbackModes <- AllFallbacks
    WaitSeconds = 3
SPECIFICATION Spec
PROPERTIES
    BootsItsDisk
    BootEnds
