\* Files as the project's linker script makes them, all threads, any access.
CONSTANTS
    AddrBits = 8
    KERNEL_PAGE_SIZE = 4
    VIRTUAL_MEMORY_SIZE = 128
    MAX_THREADS = 5
    Files <- MCFiles
    Increments <- MCIncrements
    MaxPages = 1
SPECIFICATION Spec
INVARIANTS
    TypeOK
    StacksApart
    OneReason
    GuardsUnmapped
    ImageLoaded
