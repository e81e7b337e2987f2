\* Two workers reclaim the same abandoned run at the same time.
SPECIFICATION Spec
CONSTANTS
    w1 = w1
    w2 = w2
    Nobody = Nobody
    Workers = {w1, w2}
    MaxRuns = 2
    Batch = 1
    LongJobs = FALSE
    OverlappingReclaim = TRUE
    MaxCrashes = 1
INVARIANTS
    ExclusiveExecution
