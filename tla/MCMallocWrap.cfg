CONSTANTS
    PoolSize = 36
    MinPool = 3
    Requests <- HugeRequests
SPECIFICATION Spec
INVARIANTS
    EnoughRoom
