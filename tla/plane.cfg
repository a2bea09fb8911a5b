SPECIFICATION FairSpec
CONSTANTS
    Harnesses <- Both
    Limited <- WithLimits
    Binaries = {0, 1}
    Toolchains = {0, 1}
    Settings <- ThreeSettings
    Seed <- Strict
    Default = 0
    Platforms = {TRUE, FALSE}
    Faults = {"cache", "ensure", "exit", "crash", "stop", "reclaim"}
    MaxChanges = 1
    MaxFaults = 2

INVARIANTS
    PlaneTypeOK
    AdvertisedIsOurs

PROPERTIES
    WorkingRunnerIsLeftAlone
    Converges
