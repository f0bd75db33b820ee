CONSTANTS
    MaxCode = 3
    Messages <- AllMessages
    Received <- AnyInput
SPECIFICATION Spec
INVARIANTS
    TypeOK
    RoundTrip
    EncodingFramed
    DecodeInBounds
PROPERTIES
    Terminates
CHECK_DEADLOCK FALSE
