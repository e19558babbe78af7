SPECIFICATION Spec
CONSTANTS
    id = id
    u = u
    s = s
    v = v
    One = One
    Two = Two
    Three = Three
    Four = Four
    Five = Five
    A = A
    Columns = {id, u}
    Unique = {id, u}
    Nullable = {u}
    Vectors = {}
    Domain <- KeysDomain
    Null = Null
    Zero = Zero
    NegZero = NegZero
    NaN = NaN
    NoRows = NoRows
    IndexNames = {i}
    MaxTableRows = 3
    SlabRows = 2
    BlockRows = 2
    LoadRows = 2
    MaxBatch = 2
SYMMETRY KeysSymmetry
INVARIANTS
    ConstraintsHold
    CachesMatchRows
    FastUpsertIsGeneral
