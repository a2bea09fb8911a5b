SPECIFICATION Spec

CONSTANTS
    p1 = p1
    p2 = p2
    NoOne = NoOne
    Former = Former
    Replicas = {p1, p2}
    Serving = {p2}
    Turns = {1, 2}
    MaxClaims = 2
    MaxAttempts = 2
    MaxRecovery = 1
    Leasing = {}
    KeepsName = FALSE
    SlowStarts = FALSE
    LateWakes = FALSE

PROPERTIES
    ResumeIsMeasuredAfresh
