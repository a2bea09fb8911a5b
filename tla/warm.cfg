SPECIFICATION FairSpec

CONSTANTS
    a1 = a1
    a2 = a2
    a3 = a3
    e1 = e1
    e2 = e2
    Attempts = {a1, a2, a3}
    EnvIDs = {e1, e2}
    EnvOf <- TwoEnvironments
    None = None
    MaxHookRuns = 2
    Faults = {"append", "save", "launch", "fingerprint", "reset", "prepare", "hook"}
    Crashes = TRUE
    MaxFaults = 1

INVARIANTS
    WarmTypeOK
    SomebodyAnswers
    ExclusiveCheckout
    HarnessFindsStack

PROPERTIES
    ReuseIsAsReleased
    IdleEnds
