\* A scrape of three pages, one of them clicked on.
SPECIFICATION ScraperSpec
CONSTANTS
    u1 = u1
    u2 = u2
    u3 = u3
    image = image
    userHandler = userHandler
    onIntercepted = onIntercepted
    NoDomain = NoDomain
    Unset = Unset
    Urls <- ThreeUrls
    Origin <- Sites
    StartUrls <- OnlyStart
    Links <- LinkGraph
    Clickable <- OnlyStart
    PatternChoices <- ChosenPatterns
    Handlers <- TwoHandlers
    OnIntercepted = onIntercepted
    PageRequests <- TwoPageRequests
    Navigations <- OneNavigation
    t1 = t1
    t2 = t2
    Tasks <- TwoTasks
    Lates = {l1}
    MaxRequestRetries = 1
    MaxResults = 2
    MaxCrawlingDepth = 1
    ResultSizes = {0, 2}
    PageRecords = 2
    MaxLost = 1
    MaxCalls = 2
    MaxRestarts = 1
SYMMETRY TaskSymmetry
CONSTRAINT Followed
CHECK_DEADLOCK FALSE
INVARIANTS
    InterceptionKept
    ResultsBounded
    OutputComplete
    DepthLimited
