\* Two runs share one cursor, a catalogue that grows, failures anywhere.
SPECIFICATION Spec
CONSTANTS
    w1 = w1
    w2 = w2
    Workers = {w1, w2}
    FirstPages = 3
    MaxPages = 4
    PageLimit = 0
    EmptyPages = FALSE
SYMMETRY WorkerSymmetry
INVARIANTS
    CheckpointSound
    CompleteSound
    SuccessSound
