SPECIFICATION Spec
CONSTANTS
    MAX_THREADS = 4
    Policy = "PSJF"
    Mutexes <- NoMutexes
    NoMutex = NoMutex
    Values = {v1}
    NumWorkers = 2
    Work <- WorkersOne
    Spinners <- NoSpinner
    SetPrios <- NoPrios
    ChecksLock = TRUE
    LibraryTicks = FALSE
    MaxQuantums = 5
    MainQuantums <- ZeroQuantums
    MaxFinished = 2
INVARIANTS NoLostThread
CHECK_DEADLOCK FALSE
