\* A crawler on the platform and off it, two jobs, and one restart.
SPECIFICATION FairSpec
CONSTANTS
    Undef = Undef
    MaxJobs = 2
    MaxSaves = 2
    MaxRuns = 2
    MaxRestarts = 1
    MaxFaults = 1
CHECK_DEADLOCK FALSE
INVARIANTS
    NothingAcknowledgedLost
    ReturnedMeansSaved
PROPERTIES
    SavedEventually
