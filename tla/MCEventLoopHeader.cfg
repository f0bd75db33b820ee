CONSTANTS
    Null = Null
    BUF_LEN = 2
    Requests <- Asked
    Incoming <- AnyFrame
    Ids <- SmIds
    Modules <- Files
    Text <- Public
    Garbage = 256
    Sizes <- PieceSizes
    MaxWork = 3
    MaxPieces = 2
SPECIFICATION Spec
INVARIANTS
    EveryFrameHasHeader
