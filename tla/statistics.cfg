SPECIFICATION Spec
CONSTANTS
    Threads = {t1, t2}
    MaxTime = 4
    Locks = FALSE
    Garbage = {0, 1}
    MaxSwitches = 3
INVARIANTS TurnaroundIsMean
CHECK_DEADLOCK FALSE
