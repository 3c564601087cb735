SPECIFICATION Spec
CONSTANTS
    MAX_PROCESS = 2
    NumFrames = 2
    NumSlots = 2
    CodePages = {0}
    DataPages = {1}
    StackPages = {4}
    HEAP_START = 2
    HEAP_MAX = 3
    Image <- MCImage
    Uses <- MCMixed
    Written = {1}
    Workload = {}
INVARIANTS
    TypeOK
    OwnerHasPage
    EvictionFindsVictim
    SwapAccounted
    OwnsFrame
    FramesAccounted
PROPERTIES
    IsolatedMemory
