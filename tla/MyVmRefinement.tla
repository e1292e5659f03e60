--------------------------- MODULE MyVmRefinement ---------------------------
(***************************************************************************)
(* The invariants of my_vm.c and the statement that it implements          *)
(* VirtualMemory.                                                          *)
(***************************************************************************)
EXTENDS MyVm

(***************************************************************************)
(* The tables agree. Each part is about all of their entries but page 0    *)
(* and frame 0, which are never handed out.                                *)
(***************************************************************************)

\* A virtual page is marked used exactly while it has a frame.
VirtualBitmapAgrees ==
    \A v \in VPages \ {0} : virtual_bitmap[v] <=> page_table[v] # 0

\* A frame is marked used exactly while some page has it.
PhysicalBitmapAgrees ==
    \A p \in PPages \ {0} :
        physical_bitmap[p] <=> \E v \in VPages : page_table[v] = p

\* No two pages have the same frame.
FramesNotShared ==
    \A v, w \in VPages : page_table[v] = page_table[w] /\ page_table[v] # 0
                            => v = w

\* A mapped page has its second-level table, and page 0 is not mapped.
TablesExist ==
    /\ page_table[0] = 0
    /\ \A v \in VPages : page_table[v] # 0 => page_dir_index(v) \in tables

\* A valid TLB entry says what the page table says.
TlbCoherent ==
    \A i \in DOMAIN tlb : tlb[i].valid =>
        /\ TlbIndex(tlb[i].virtual_page) = i
        /\ tlb[i].physical_page = page_table[tlb[i].virtual_page]

\* The pages an n_malloc has yet to map are free.
PagesToMapAreFree ==
    call.op = "malloc" =>
        \A v \in call.page .. (call.page + call.left - 1) :
            v \in VPages \ {0} /\ page_table[v] = 0

\* The five structures of my_vm.c that say which page is where never
\* disagree, in the middle of a call either, whatever clients free, read or
\* write (lines 56-84, 138-219, 466-490, 505-532).
TablesAgree ==
    /\ VirtualBitmapAgrees
    /\ PhysicalBitmapAgrees
    /\ FramesNotShared
    /\ TablesExist
    /\ TlbCoherent
    /\ PagesToMapAreFree

Frames(a) == {page_table[v] : v \in Pages(a)}

\* Live allocations of legal clients are mapped whole and overlap nowhere,
\* neither in the address space nor in physical memory, through all failures
\* and reuse of pages (my_vm.c:271-274).
AllocationsDisjoint ==
    Clients # "any" =>
        /\ \A a \in live : 0 \notin Frames(a)
        /\ \A a, b \in live : a # b => /\ Pages(a) \cap Pages(b) = {}
                                      /\ Frames(a) \cap Frames(b) = {}

\* A client that frees what it was given, once, and accesses its allocations
\* from the start of a page on never gets to code whose behaviour is
\* undefined: it frees nothing while there is no page directory, and no copy
\* leaves physical memory, at the last frame neither (my_vm.c:508, 563-570).
AlignedNeverUndefined == Clients = "aligned" => fault = "none"

(***************************************************************************)
(* The refinement. A put takes effect when it begins: its bytes that are   *)
(* still to be copied are laid over what the frames hold.                  *)
(***************************************************************************)
LiveBytes ==
    UNION {(a.page * PGSIZE) .. (a.page * PGSIZE + a.bytes - 1) : a \in live}

InFrames(b) == memory[(page_table[b \div PGSIZE] * PGSIZE) + (b % PGSIZE)]

Pending == IF call.op = "put"
             THEN (call.page * PGSIZE + call.off)
                    .. (call.page * PGSIZE + call.off + Len(call.data) - 1)
             ELSE {}

contents ==
    [b \in LiveBytes |->
        IF b \in Pending
          THEN call.data[b - (call.page * PGSIZE + call.off) + 1]
          ELSE InFrames(b)]

Abstract == INSTANCE VirtualMemory WITH contents <- contents

\* my_vm.c implements the promise of VirtualMemory.
ImplementsVirtualMemory == Abstract!Spec

\* A get_data that succeeds returns, for every byte, what memory is meant to
\* hold there: this is the read of VirtualMemory as an invariant.
ReadsReturnWrites ==
    call.op = "get" /\ call.left = 0 =>
        \A i \in 1 .. Len(call.data) :
            LET b == call.first * PGSIZE + call.off + i - 1
            IN  b \in LiveBytes => call.data[i] = contents[b]
=============================================================================
