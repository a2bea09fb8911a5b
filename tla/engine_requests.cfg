SPECIFICATION Spec

CONSTANTS
    a1 = a1
    a2 = a2
    Attempts = {a1, a2}
    Task <- OneTask
    Epoch <- Successive
    RequestIDs = {r1}
    Perms = {}
    Exports = {}
    Limited = {}
    Users = {a1, a2}
    ResourceCapacity = 1
    Expiring = {a1, a2}
    MaxRetained = 1
    Faults = {}
    Crashes = TRUE
    NoPerm = NoPerm

INVARIANTS
    TypeOK
    AckedIsRemembered
    HoldingsAreOwed

PROPERTIES
    OneTurnPerOperation
    CancelFences
    DurableTerminalIsFinal
