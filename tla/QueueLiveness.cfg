SPECIFICATION FairSpec
CONSTANTS
    r1 = r1
    r2 = r2
    r3 = r3
    w1 = w1
    w2 = w2
    None = None
    Requests <- OneRequest
    Workers <- TwoWorkers
    Preloaded <- NoRequests
    Eventual = FALSE
    OtherClients = FALSE
    TimelyHolders = TRUE
    QueryHeadMinLength = 1
    QueryHeadBuffer = 3
    HeadMaxLimit = 2
    MaxConsistencyQueries = 0
    RecentlyHandledSize = 1
    Faults <- HolderFaults
    MaxFailures = 1
    MaxResets = 1
PROPERTIES
    EventuallyFinished
