SPECIFICATION Spec
CONSTANTS
    MAX_PROCESS = 1
    NumFrames = 1
    NumSlots = 2
    CodePages = {0}
    DataPages = {1}
    StackPages = {4}
    HEAP_START = 2
    HEAP_MAX = 3
    Image <- MCImage
    Uses <- MCAll
    Written = {1}
    Workload = {"copy"}
INVARIANTS
    CopiesAreExact
