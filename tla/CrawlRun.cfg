SPECIFICATION CrawlerSpec
CHECK_DEADLOCK FALSE
CONSTANTS
    r1 = r1
    r2 = r2
    w1 = w1
    w2 = w2
    p1 = p1
    None = None
    NoKey = NoKey
    Requests <- TwoRequests
    Lists <- BothListed
    Linked <- JustR2
    Savers <- OneSaver
    Tasks <- TwoTasks
    MaxRequestRetries = 1
    Limits <- NoneOrOne
    InternalRetries = 1
    QueueOptions <- Either
    CountsHandled = TRUE
    Faults <- AllFaults
    MaxFailures = 1
CONSTRAINT LongListGoesWell
SYMMETRY TaskSymmetry
INVARIANTS
    NothingSkipped
    NothingLost
    ProcessedUnlessLate
    AttemptsBounded
    LimitKept
    StatsMatch
    FinishedMeansDone
