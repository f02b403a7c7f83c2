SPECIFICATION Spec
CHECK_DEADLOCK FALSE
CONSTANTS
    b1 = b1
    b2 = b2
    c1 = c1
    c2 = c2
    None = None
    Browsers = {b1, b2}
    Calls = {c1, c2}
    MaxOpenPagesPerBrowser = 1
    RetireBrowserAfterPageCount = 2
    Faults <- AllFaults
INVARIANTS
    CapacityKept
    NoLeak
PROPERTIES
    PagesSpared
    LimiterFreed
CONSTRAINT
    Followed
