SPECIFICATION Spec
CONSTANTS
    Threads = {t1, t2}
    Nodes = {n1, n2, n3, n4, n5}
    NULL = NULL
    MaxQuantums = 2
SYMMETRY AnyNode
INVARIANTS TypeOK NoUseAfterFree NoLeak TailIsLast
PROPERTIES ImplementsRunQueue
CHECK_DEADLOCK FALSE
