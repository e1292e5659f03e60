\* MLFQ. Main asks for three workers; the table has room for two.
SPECIFICATION FairSpec
CONSTANTS
    MAX_THREADS = 4
    Policy = "MLFQ"
    Mutexes <- NoMutexes
    NoMutex = NoMutex
    Values = {v1}
    NumWorkers = 3
    Work <- TwoCallers
    Spinners <- NoSpinner
    SetPrios <- LowAndHigh
    ChecksLock = TRUE
    LibraryTicks = FALSE
    MaxQuantums = 0
    MainQuantums <- ZeroQuantums
    MaxFinished = 2
INVARIANTS TypeOK NoLostThread NoDuplicate JoinReturnsResult FinishedCounted NoFault
PROPERTIES FinishedIsFinal Completes
