CONSTANTS
    Configured <- MCConfigured
    Randoms <- MCRandoms
    Supplied <- MCSupplied
    MaxFails = 1
    MaxCuts = 2
SPECIFICATION Spec
INVARIANTS
    NamedAsConfigured
    NameKept
CHECK_DEADLOCK FALSE
