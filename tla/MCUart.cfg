CONSTANTS
    RxBufferSize = 3
    MaxBytes = 6
SPECIFICATION Spec
INVARIANTS
    TypeOK
    AvailableIsPromise
PROPERTIES
    FifoSpec
    ReadReturns
CHECK_DEADLOCK FALSE
