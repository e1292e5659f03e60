SPECIFICATION FragSpec
CONSTANTS
    PGSIZE = 3
    num_virtual_pages = 4
    num_physical_pages = 3
    PTE_PER_TABLE = 2
    TLB_ENTRIES = 2
    Bytes = {b1}
    Junk = Junk
    Sizes <- OneToThree
    Clients = "any"
    Holders = "legal"
INVARIANTS HeldMapped
