SPECIFICATION Spec
CHECK_DEADLOCK FALSE
CONSTANTS
    s1 = s1
    s2 = s2
    t1 = t1
    t2 = t2
    user = user
    None = None
    Sessions = {s1, s2}
    Tasks = {t1, t2}
    User = user
    Callers = {t1, t2, user}
    Names = {"name"}
    ProxyUrls <- MCProxyUrls
    MaxPoolSize = 1
    MaxErrorScore = 2
    BadScore = 2
    ErrorScoreDecrement = 1
    MaxUsageCount = 3
    UsageBound = 6
    MaxAdded = 1
    MaxRestarts = 1
    MaxExpired = 1
    MaxLate = 1
SYMMETRY Symmetry
INVARIANTS
    PoolSizeBounded
    MapAgrees
    
    ProxiesBalanced
CONSTRAINT
    Followed
