SPECIFICATION Spec

CONSTANTS
    a1 = a1
    a2 = a2
    Attempts = {a1}
    Task <- OneTask
    Epoch <- FirstEpoch
    RequestIDs = {r1}
    Perms = {p1, p2}
    Exports = {}
    Limited = {a1}
    Users = {}
    ResourceCapacity = 1
    Expiring = {}
    MaxRetained = 2
    Faults = {"append", "save", "resave", "landed"}
    Crashes = TRUE
    NoPerm = NoPerm

INVARIANTS
    EngineInv
    PermissionIsLive
    ClockStopsWhileParked
