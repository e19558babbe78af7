SPECIFICATION FairSpec
CONSTANTS
    Threads = {t1, t2}
    Ops = {a, b}
    NoOp = NoOp
    NoThread = NoThread
    BatchSize = 2
    CheckpointEvery = 2
    MaxRequests = 3
    MaxCrashes = 1
    WriteBack = TRUE
    RenameFallback = TRUE
PROPERTIES
    EveryRequestEnds
