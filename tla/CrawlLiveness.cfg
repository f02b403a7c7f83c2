SPECIFICATION FairCrawlerSpec
CHECK_DEADLOCK FALSE
CONSTANTS
    r1 = r1
    r2 = r2
    w1 = w1
    w2 = w2
    p1 = p1
    None = None
    NoKey = NoKey
    Requests <- OneRequest
    Lists <- JustR1
    Linked <- OneRequest
    Savers <- Nobody
    Tasks <- TwoTasks
    MaxRequestRetries = 1
    Limits <- NoLimit
    InternalRetries = 1
    QueueOptions <- Either
    CountsHandled = TRUE
    Faults <- AllFaults
    MaxFailures = 1
PROPERTIES
    CrawlEnds
