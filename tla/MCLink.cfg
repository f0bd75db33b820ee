CONSTANTS
    Null = Null
    INIT_FRAME_LEN = 1
    MaxDoubled = 2
    GrowStep = 1
    EncodedLens <- TwoLens
    OomSites <- OtherSites
    MaxFrames = 3
    MaxLosses = 1
SPECIFICATION Spec
INVARIANTS
    TypeOK
    Ownership
    InOrder
    FramesAsSent
PROPERTIES
    Recovers
