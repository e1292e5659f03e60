SPECIFICATION Spec
CONSTANTS
    PGSIZE = 1
    num_virtual_pages = 6
    num_physical_pages = 4
    TLB_ENTRIES = 2
    Bytes = {b1}
    Junk = Junk
    Sizes <- ZeroOneTwo
    Clients = "any"
    NUM_LEVELS = 4
    TableSize = 2
INVARIANTS TypeOK64 TreeSound NullOnlyBeforeMalloc
PROPERTIES ImplementsMyVm
