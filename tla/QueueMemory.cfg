SPECIFICATION Spec
CONSTANTS
    r1 = r1
    r2 = r2
    r3 = r3
    w1 = w1
    w2 = w2
    None = None
    Requests <- ThreeRequests
    Workers <- TwoWorkers
    Preloaded <- NoRequests
    Eventual = FALSE
    OtherClients = FALSE
    TimelyHolders = TRUE
    QueryHeadMinLength = 3
    QueryHeadBuffer = 3
    HeadMaxLimit = 5
    MaxConsistencyQueries = 0
    RecentlyHandledSize = 9
    Faults <- QueryFaults
    MaxFailures = 1
    MaxResets = 0
SYMMETRY Symmetry
INVARIANTS
    MutualExclusion
    HeadIsFresh
    NeverReturnsHandled
    FinishTrueWhileShort
