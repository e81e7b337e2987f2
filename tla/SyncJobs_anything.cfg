\* Two workers, jobs of any length, reclaims that overlap.
SPECIFICATION Spec
CONSTANTS
    w1 = w1
    w2 = w2
    Nobody = Nobody
    Workers = {w1, w2}
    MaxRuns = 2
    Batch = 1
    LongJobs = TRUE
    OverlappingReclaim = TRUE
    MaxCrashes = 1
SYMMETRY WorkerSymmetry
INVARIANTS
    FreshRunExclusive
