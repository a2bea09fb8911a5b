SPECIFICATION Spec
CONSTANTS
    MaxEvents = 4
    MaxOutage = 1
    MaxRecovery = 1
    MaxCrashes = 2
    MaxDrops = 1
INVARIANT
    NeverChargedTwice
