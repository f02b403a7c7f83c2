\* Two callers of one dataset, or of one key-value store.
SPECIFICATION Spec
CONSTANTS
    Objects = {o1, o2}
    Keys = {1, 2, 3}
    Extensions = {"json", "txt"}
    PageLimit = 1
    MaxWrites = 2
    MaxInFlight = 3
    MaxRestarts = 1
    MaxDrops = 1
SYMMETRY CallerSymmetry
CONSTRAINT Followed
CHECK_DEADLOCK FALSE
INVARIANTS
    SplitOnlyByOverlap
    RestartKeeps
    EachKeyVisited
PROPERTIES
    ItemsKept
