CONSTANTS
    Modes <- LiveModes
    Configs <- SomeConfigs
    Disks <- OneOrTwo
    MaxWifi = 2
SPECIFICATION Spec
INVARIANTS
    AnswersComplete
    NothingLeft
    FileSafe
    InstallsAsAgreed
