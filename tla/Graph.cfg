SPECIFICATION Spec
CONSTANTS
    d1 = d1
    d2 = d2
    b1 = b1
    b2 = b2
    p = p
    q = q
    m1 = m1
    m2 = m2
    F = F
    Null = Null
    MinInt = MinInt
    NoProfile = NoProfile
    Clients = {c1}
    Requests <- GraphRequests
    Pieces <- BodyPieces
    Similarity <- PieceSimilarity
    Profiles = {P1, P2}
    Threshold = 60
    SemanticNeighbors = 1
    MaxChunks = 3
    MaxEdges = 6
    MaxText = 10
    MaxGenerations = 1
    MaxRevision = 5
    MaxOverlap = 1
    MaxEdits = 1
INVARIANTS
    ReplayAgrees
    ReferencesHold
    AppendIsGeneral
    CheckedDocumentFits
    CacheIsSound
PROPERTIES
    ActsOnWhatItRead
    IngestRepairs
CHECK_DEADLOCK FALSE
