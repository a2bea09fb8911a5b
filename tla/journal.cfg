SPECIFICATION Spec

CONSTANTS
    a1 = a1
    a2 = a2
    Attempts = {a1, a2}
    Followed = a1
    MaxEvents = 1
    Buffer = 1
    Stride = 2
    JournalLimit = 3
    ControlReserve = 2
    TotalLimit = 4
    TotalReserve = 2
    Modes <- WritesOrSaves
    Legacy <- NewOrLegacy
    MaxBorn = 4

INVARIANTS
    JournalTypeOK
    ReplayComplete
    StreamIsHistory
    FilesFitState

PROPERTIES
    LogSpec
