CONSTANTS
    MaxCuts = 3
    Inits = {"absolute", "relative"}
SPECIFICATION Spec
INVARIANT
    BootsOnlyInstalled
