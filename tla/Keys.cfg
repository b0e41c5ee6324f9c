CONSTANTS
    Config <- KeyAndServer
    Bodies <- NoneOrOne
    UserLines = {"own"}
    Procs = {"boot", "ccapply", "operator"}
    Tries = 2
    MaxCuts = 1
    MaxFaults = 1
SPECIFICATION Spec
INVARIANTS
    KeysAuthorized
    FileInOrder
PROPERTIES
    OnlyRacesLose
    Repaired
