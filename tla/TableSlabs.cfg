SPECIFICATION Spec
CONSTANTS
    id = id
    u = u
    s = s
    v = v
    One = One
    Two = Two
    Three = Three
    Four = Four
    Five = Five
    A = A
    Columns = {id, v}
    Unique = {id}
    Nullable = {v}
    Vectors = {v}
    Domain <- SlabsDomain
    Null = Null
    Zero = Zero
    NegZero = NegZero
    NaN = NaN
    NoRows = NoRows
    IndexNames = {}
    MaxTableRows = 5
    SlabRows = 2
    BlockRows = 2
    LoadRows = 3
    MaxBatch = 2
SYMMETRY SlabsSymmetry
INVARIANTS
    CachesMatchRows
