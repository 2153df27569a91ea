SPECIFICATION Spec
CONSTANTS
    BLOCK_SIZE = 8
    BLOCKS_PER_BYTE = 2
    ADDRESSABLE_BLOCKS = 16
    BOOT_INFO <- MCOnlyOrdinary
    RUN_SIZES <- MCSizes
INVARIANT BlocksLeftToAllocate
