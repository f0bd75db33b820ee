CONSTANTS
    Null = Null
    INIT_FRAME_LEN = 1
    MaxDoubled = 2
    GrowStep = 1
    EncodedLens <- TwoLens
    OomSites <- ReallocSite
    MaxFrames = 1
    MaxLosses = 0
SPECIFICATION Spec
INVARIANTS
    PartialFrameHasBuffer
