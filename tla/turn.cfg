SPECIFICATION FairSpec
CONSTANTS
    MaxEvents = 4
    MaxOutage = 1
    MaxRecovery = 1
    MaxCrashes = 2
    MaxDrops = 1

INVARIANTS
    TurnTypeOK
    HistoryIsWhole
    ChargedAsRecorded
    AnswerFitsQuestion

PROPERTIES
    RunSettles
