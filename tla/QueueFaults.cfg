SPECIFICATION Spec
CONSTANTS
    r1 = r1
    r2 = r2
    r3 = r3
    w1 = w1
    w2 = w2
    None = None
    Requests <- OneRequest
    Workers <- TwoWorkers
    Preloaded <- OneRequest
    Eventual = TRUE
    OtherClients = TRUE
    TimelyHolders = TRUE
    QueryHeadMinLength = 1
    QueryHeadBuffer = 3
    HeadMaxLimit = 3
    MaxConsistencyQueries = 0
    RecentlyHandledSize = 1
    Faults <- AllFaults
    MaxFailures = 1
    MaxResets = 1
SYMMETRY Symmetry
INVARIANTS
    TypeOK
    NoPendingForgotten
PROPERTIES
    ImplementsLease
