CONSTANTS
    TxSize = 2
    PRINTF_BUF_LEN = 3
    Callbacks <- PrintfCallbacks
    NoCallback = NoCallback
    Rows = 1
    Columns = 2
    MaxInputs = 3
SPECIFICATION Spec
INVARIANTS
    TypeOK
    KeyEventsWhole
    TextDelivered
    TextWhole
    Alternate
PROPERTIES
    CatchesUp
