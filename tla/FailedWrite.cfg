SPECIFICATION Spec
CONSTANTS
    Threads = {t1}
    Ops = {a, b}
    NoOp = NoOp
    NoThread = NoThread
    BatchSize = 2
    CheckpointEvery = 2
    MaxRequests = 3
    MaxCrashes = 1
    WriteBack = TRUE
    RenameFallback = FALSE
INVARIANTS
    FailedWritesStayOut
