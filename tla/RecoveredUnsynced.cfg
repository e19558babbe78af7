SPECIFICATION Spec
CONSTANTS
    Threads = {t1, t2}
    Ops = {a, b, c}
    NoOp = NoOp
    NoThread = NoThread
    BatchSize = 2
    CheckpointEvery = 2
    MaxRequests = 4
    MaxCrashes = 3
    WriteBack = FALSE
    RenameFallback = FALSE
SYMMETRY Symmetry
INVARIANTS
    NeverRefused
