SPECIFICATION Spec
CONSTANTS
    Threads = {t1, t2}
    Ops = {a, b, c}
    NoOp = NoOp
    NoThread = NoThread
    BatchSize = 2
    CheckpointEvery = 2
    MaxRequests = 4
    MaxCrashes = 2
    WriteBack = TRUE
    RenameFallback = FALSE
SYMMETRY Symmetry
INVARIANTS
    TypeOK
    VisibleIsDurable
    NeverRefused
    AppliedOnce
    GuardedEditIsCurrent
PROPERTIES
    SnapshotNeverRegresses
    ImplementsCommittedLog
