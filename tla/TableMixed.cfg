SPECIFICATION Spec
CONSTANTS
    id = id
    u = u
    s = s
    v = v
    One = One
    Two = Two
    Three = Three
    Four = Four
    Five = Five
    A = A
    Columns = {id, s, v}
    Unique = {id}
    Nullable = {s}
    Vectors = {v}
    Domain <- MixedDomain
    Null = Null
    Zero = Zero
    NegZero = NegZero
    NaN = NaN
    NoRows = NoRows
    IndexNames = {i}
    MaxTableRows = 3
    SlabRows = 2
    BlockRows = 2
    LoadRows = 2
    MaxBatch = 2
SYMMETRY MixedSymmetry
INVARIANTS
    GenerationNamesContent
    IndexedIsScan
