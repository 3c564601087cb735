SPECIFICATION Spec
CONSTANTS
    MAX_PROCESS = 2
    MAX_THREADS = 2
    QUANTUM = 2
    Codes = {5}
    Calls <- GroupCalls
    MaxActive = 3
    MaxMutex = 0
INVARIANTS
    TypeOK
    RunsInOwnSpace
    StallMeansDeadlock
    WaitsForOne
PROPERTIES
    NoStarvation
