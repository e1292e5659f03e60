SPECIFICATION FairSpec
CONSTANTS
    MAX_THREADS = 5
    Policy = "MLFQ"
    Mutexes <- NoMutexes
    NoMutex = NoMutex
    Values = {v1}
    NumWorkers = 3
    Work <- SpinnerOnly
    Spinners <- OneSpinner
    SetPrios <- OnlyMedium
    ChecksLock = TRUE
    LibraryTicks = FALSE
    MaxQuantums = 0
    MainQuantums <- ZeroQuantums
    MaxFinished = 2
PROPERTIES NoStarvation
