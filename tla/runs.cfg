SPECIFICATION FairSpec

CONSTANTS
    p1 = p1
    p2 = p2
    NoOne = NoOne
    Former = Former
    Replicas = {p1, p2}
    Serving = {p2}
    Turns = {1}
    MaxClaims = 2
    MaxAttempts = 2
    MaxRecovery = 1
    Leasing = {p2}
    KeepsName = FALSE
    SlowStarts = FALSE
    LateWakes = FALSE

INVARIANTS
    RunTypeOK
    KillsAreBounded

PROPERTIES
    StartedOnce
    QueuedRunSettles
