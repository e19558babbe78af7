SPECIFICATION Spec
CONSTANTS
    d1 = d1
    d2 = d2
    b1 = b1
    b2 = b2
    p = p
    q = q
    m1 = m1
    m2 = m2
    F = F
    Null = Null
    MinInt = MinInt
    NoProfile = NoProfile
    Clients = {c1}
    Requests <- LowestInteger
    Pieces <- BodyPieces
    Similarity <- PieceSimilarity
    Profiles = {P1, P2}
    Threshold = 60
    SemanticNeighbors = 1
    MaxChunks = 3
    MaxEdges = 6
    MaxText = 10
    MaxGenerations = 2
    MaxRevision = 2
    MaxOverlap = 1
    MaxEdits = 0
INVARIANT
    ReplayAgrees
CHECK_DEADLOCK FALSE
