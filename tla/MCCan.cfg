SPECIFICATION MCSpec
CONSTANTS
    RX_SIZE = 3
    TX_SIZE = 3
    MAX_FILTERS = 2
    Frames <- MCFrames
    Filters <- MCFilters
    Modes <- MCModes
    None = none
INVARIANTS TypeOK SentOnceInOrder NoFrameStranded
PROPERTIES RxImplementsFifo TxDrains
