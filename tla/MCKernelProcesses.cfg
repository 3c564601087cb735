SPECIFICATION Spec
CONSTANTS
    MAX_PROCESS = 2
    MAX_THREADS = 1
    QUANTUM = 2
    Codes = {5}
    Calls <- ProcessCalls
    MaxActive = 4
    MaxMutex = 0
INVARIANTS
    BlockedHasWaker
    WakesOnlyBlocked
    NoOrphanThread
    NoKernelPanic
PROPERTIES
    TerminatedIsFinal
