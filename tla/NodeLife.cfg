CONSTANTS
    MaxCuts = 3
    Inits = {"absolute", "relative"}
SPECIFICATION Spec
INVARIANTS
    ResetForgets
    RunsAlone
PROPERTIES
    DeletesOnlyWhenInstalled
    CompleteRuns
