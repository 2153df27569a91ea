SPECIFICATION ScanSpec
CONSTANTS
    BLOCK_SIZE = 8
    BLOCKS_PER_BYTE = 1
    ADDRESSABLE_BLOCKS = 8
    BOOT_INFO <- MCBootInfo
    RUN_SIZES <- MCSizes
INVARIANT LoopInv
PROPERTIES FailureIsReal ScanImplementsPmm CallsReturn
