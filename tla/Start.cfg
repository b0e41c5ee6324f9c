CONSTANTS
    MaxCuts = 2
    MaxFails = 2
    Magic <- ShortMark
    Bytes <- MarkBytes
    MaxFile = 7
    Buffer = 3
    Entries <- MovedEntries
    In <- DirOf
SPECIFICATION StartSpec
INVARIANTS
    EntersComplete
    LostOnlyIfLate
    NoLeak
    RootFound
    MovedWhole
PROPERTIES
    StartEnds
CHECK_DEADLOCK FALSE
