SPECIFICATION Spec
CONSTANTS
    MAX_THREADS = 4
    Policy = "MLFQ"
    Mutexes = {m1}
    NoMutex = NoMutex
    Values = {}
    NumWorkers = 2
    Work <- WorkersOne
    Spinners <- NoSpinner
    SetPrios <- NoPrios
    ChecksLock = FALSE
    LibraryTicks = FALSE
    MaxQuantums = 0
    MainQuantums <- ZeroQuantums
    MaxFinished = 2
INVARIANTS MutualExclusion
