SPECIFICATION FairSpec

CONSTANTS
    a1 = a1
    a2 = a2
    Attempts = {a1, a2}
    Task <- TwoTasks
    Epoch <- FirstEpoch
    RequestIDs = {r1}
    Perms = {}
    Exports = {a1}
    Limited = {a2}
    Users = {}
    ResourceCapacity = 1
    Expiring = {}
    MaxRetained = 2
    Faults = {}
    Crashes = FALSE
    NoPerm = NoPerm

INVARIANTS
    OneChild

PROPERTIES
    CancelIsFinal
    StopsComplete
