SPECIFICATION FairSpec
CONSTANTS
    MinConcurrency = 1
    MaxConcurrency = 2
    DesiredConcurrency = 1
    Settable <- JustOne
    ScaleUpPercent = 5
    ScaleDownPercent = 5
    DesiredPercent = 90
    MaxTasksPerMinute = 1
    Infinity = Infinity
    Seconds = 1
    MaxWork = 2
    MaxPauses = 1
    Faults <- AllFaults
    SnapshotHistory = 4
    EventLoopInterval = 1
    MaxBlocked = 1
    MaxUsedMemory = 1
    MaxClientErrors = 1
INVARIANTS
    NeverOverMax
    FinishedMeansDone
    PausedNearlyIdle
PROPERTIES
    RunSettles
