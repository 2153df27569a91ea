SPECIFICATION Spec
CONSTANTS
    BLOCKS = {1, 2, 3, 4, 5, 6, 7}
    ENTRIES = 2
    KERNEL_SLOT = 1
    BOOT_PAGES <- MCBootPages
    PAGES <- MCPages
    MAPPINGS <- MCMappings
    MAX_PAGES = 1
    KernelFrame = 100
    None = 0
INVARIANTS TypeOK TlbAgrees TablesInUse Isolated
CHECK_DEADLOCK FALSE
