\* Two workers that reclaim in isolation and finish every job within 24 hours.
SPECIFICATION FairSpec
CONSTANTS
    w1 = w1
    w2 = w2
    Nobody = Nobody
    Workers = {w1, w2}
    MaxRuns = 2
    Batch = 1
    LongJobs = FALSE
    OverlappingReclaim = FALSE
    MaxCrashes = 2
INVARIANTS
    ExclusiveExecution
PROPERTIES
    FinishedForever
    ReclaimOnlyAbandoned
    ImplementsJobQueue
    EventuallyFinished
