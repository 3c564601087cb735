SPECIFICATION Spec
CONSTANTS
    MAX_PROCESS = 1
    MAX_THREADS = 3
    QUANTUM = 2
    Codes = {5}
    Calls <- ThreadCalls
    MaxActive = 3
    MaxMutex = 1
INVARIANTS
    BlockedHasWaker
    WakesOnlyBlocked
    TidsUnique
PROPERTIES
    TerminatedIsFinal
    MutexHandover
    ContextIntegrity
