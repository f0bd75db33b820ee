CONSTANTS
    PoolSize = 36
    MinPool = 3
    Requests <- SmallRequests
SPECIFICATION Spec
INVARIANTS
    TypeOK
    Tiling
    EnoughRoom
    SortedRing
    Coalesced
PROPERTIES
    LastResort
    Returns
    HeapSpec
