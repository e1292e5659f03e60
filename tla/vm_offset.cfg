SPECIFICATION Spec
CONSTANTS
    PGSIZE = 2
    num_virtual_pages = 4
    num_physical_pages = 3
    PTE_PER_TABLE = 2
    TLB_ENTRIES = 2
    Bytes = {b1, b2}
    Junk = Junk
    Sizes <- OneAndThree
    Clients = "legal"
INVARIANTS ReadsReturnWrites
CHECK_DEADLOCK FALSE
