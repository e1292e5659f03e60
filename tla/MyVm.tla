-------------------------------- MODULE MyVm --------------------------------
(***************************************************************************)
(* The user-level virtual memory of Project3/code/my_vm.c: a two-level     *)
(* page table, a direct-mapped TLB, the bitmaps of used virtual and        *)
(* physical pages, and n_malloc, n_free, put_data and get_data over them.  *)
(*                                                                         *)
(* Each operation holds global_lock from its first to its last statement,  *)
(* so at most one call is in progress whatever threads there are: call is  *)
(* that call, its Begin action the part before the loop over the pages,    *)
(* and each iteration of the loop is an action. A thread that waits for    *)
(* the lock is one whose Begin action is disabled.                         *)
(*                                                                         *)
(* An address is a page number and an offset. The loops advance by whole   *)
(* pages (the last chunk is the only short one), so the offset of a call   *)
(* never changes.                                                          *)
(***************************************************************************)
EXTENDS Integers, Sequences, FiniteSets

CONSTANTS
    PGSIZE,             \* bytes of a page
    num_virtual_pages,
    num_physical_pages,
    PTE_PER_TABLE,      \* entries of a second-level table
    TLB_ENTRIES,
    Bytes,              \* values of a byte
    Junk,               \* what malloc left in physical memory
    Sizes,              \* sizes passed to the operations
    Clients             \* what clients do: "any", "legal" or "aligned"

ASSUME ConstantsAssumption ==
    /\ PGSIZE \in Nat \ {0}
    /\ num_virtual_pages \in Nat \ {0}
    /\ num_physical_pages \in Nat \ {0}
    /\ PTE_PER_TABLE \in Nat \ {0}
    /\ TLB_ENTRIES \in Nat \ {0}
    /\ Junk \notin Bytes
    /\ Sizes \subseteq Nat
    /\ Clients \in {"any", "legal", "aligned"}

VPages    == 0 .. (num_virtual_pages - 1)
PPages    == 0 .. (num_physical_pages - 1)
Offsets   == 0 .. (PGSIZE - 1)
PhysBytes == 0 .. (num_physical_pages * PGSIZE - 1)

VARIABLES
    inited,             \* vm.physical_memory # NULL
    physical_bitmap, virtual_bitmap,
    tables,             \* directory entries that have a second-level table
    page_table,         \* their entries: the frame of a page, 0 if none
    tlb,
    memory,             \* vm.physical_memory
    call,               \* the call that holds global_lock
    ret,                \* what the last call returned
    live,               \* allocations legal clients were given, not yet freed
    fault               \* "none", or the undefined behaviour reached

tableVars == <<inited, physical_bitmap, virtual_bitmap, tables, page_table>>
vars == <<tableVars, tlb, memory, call, ret, live, fault>>

Cell    == Bytes \cup {Junk}
TlbType == [valid : BOOLEAN, virtual_page : VPages, physical_page : PPages]
Alloc   == [page : VPages, bytes : Nat]

NoCall == [op |-> "none", page |-> 0, off |-> 0, left |-> 0, bytes |-> 0,
           first |-> 0, data |-> <<>>]
NoRet  == [op |-> "none", page |-> 0, off |-> 0, ok |-> TRUE, data |-> <<>>]

Ops      == {"none", "malloc", "free", "put", "get"}
CallType == [op : Ops, page : Nat, off : Offsets, left : Nat, bytes : Nat,
             first : VPages, data : Seq(Cell)]
RetType  == [op : Ops, page : VPages, off : Offsets, ok : BOOLEAN,
             data : Seq(Cell)]

TypeOK ==
    /\ inited \in BOOLEAN
    /\ physical_bitmap \in [PPages -> BOOLEAN]
    /\ virtual_bitmap \in [VPages -> BOOLEAN]
    /\ tables \subseteq Nat
    /\ page_table \in [VPages -> PPages]
    /\ tlb \in [0 .. (TLB_ENTRIES - 1) -> TlbType]
    /\ memory \in [PhysBytes -> Cell]
    /\ call \in CallType
    /\ IF call.op = "malloc" THEN call.page + call.left <= num_virtual_pages
                             ELSE call.page \in VPages
    /\ ret \in RetType
    /\ live \subseteq Alloc
    /\ fault \in {"none", "null_deref", "wild_memcpy"}

\* The call in progress, at another page; its offset never changes.
Moved(page, left, data) ==
    [op |-> call.op, page |-> page, off |-> call.off, left |-> left,
     bytes |-> call.bytes, first |-> call.first, data |-> data]

\* Nothing is set up before the first n_malloc; vm is zeroed.
Init ==
    /\ inited = FALSE
    /\ physical_bitmap = [p \in PPages |-> FALSE]
    /\ virtual_bitmap = [v \in VPages |-> FALSE]
    /\ tables = {}
    /\ page_table = [v \in VPages |-> 0]
    /\ tlb = [i \in 0 .. (TLB_ENTRIES - 1) |->
                [valid |-> FALSE, virtual_page |-> 0, physical_page |-> 0]]
    /\ memory = [b \in PhysBytes |-> Junk]
    /\ call = NoCall
    /\ ret = NoRet
    /\ live = {}
    /\ fault = "none"

-----------------------------------------------------------------------------
(***************************************************************************)
(* Addresses, TLB and page table                                           *)
(***************************************************************************)

set_bit_at_index(bitmap, i)   == [bitmap EXCEPT ![i] = TRUE]
clear_bit_at_index(bitmap, i) == [bitmap EXCEPT ![i] = FALSE]

PageCount(n) == (n + PGSIZE - 1) \div PGSIZE

page_dir_index(v) == v \div PTE_PER_TABLE

\* 32-bit addresses wrap. Mutant: they do not.
Wrap_Mutant(v) == v
Wrap(v) == v % num_virtual_pages

TlbIndex(v) == v % TLB_ENTRIES

\* Mutant: an entry is found by its index alone.
TlbHit_Mutant(v) == tlb[TlbIndex(v)].valid
TlbHit(v) == /\ tlb[TlbIndex(v)].valid
             /\ tlb[TlbIndex(v)].virtual_page = v

\* TLB_check returns the address of the frame; frame 0 reads as NULL.
TLB_check(v) == IF TlbHit(v) THEN tlb[TlbIndex(v)].physical_page ELSE 0

TLB_add(v, p) ==
    [tlb EXCEPT ![TlbIndex(v)] =
        [valid |-> TRUE, virtual_page |-> v, physical_page |-> p]]

\* Mutant: the entry stays.
TLB_remove_Mutant(cache, v) == cache
TLB_remove(cache, v) == [cache EXCEPT ![TlbIndex(v)].valid = FALSE]

\* translate: a TLB hit returns the start of the frame, a walk the byte at
\* the offset; the walk caches its entry even when that is empty. An address
\* is found unless it is NULL.
Cached(v)  == TLB_check(v) # 0
Walked(v)  == ~Cached(v) /\ page_dir_index(v) \in tables
translate(v, off) ==
    IF Cached(v) THEN TLB_check(v) * PGSIZE
    ELSE IF Walked(v) THEN page_table[v] * PGSIZE + off
    ELSE 0
TlbAfterTranslate(v) ==
    IF Walked(v) THEN TLB_add(v, page_table[v]) ELSE tlb

-----------------------------------------------------------------------------
(***************************************************************************)
(* Clients                                                                 *)
(***************************************************************************)

Idle == call.op = "none" /\ fault = "none"

InAllocation(page, off, size) ==
    \E a \in live :
        /\ page >= a.page
        /\ (page - a.page) * PGSIZE + off + size <= a.bytes

\* Which addresses clients read and write.
Access(page, off, size) ==
    \/ Clients = "any"
    \/ Clients = "legal" /\ InAllocation(page, off, size)
    \/ Clients = "aligned" /\ InAllocation(page, off, size) /\ off = 0

\* What they free: legal ones an allocation, with its size, once.
MayFree(page, off, size) ==
    \/ Clients = "any"
    \/ off = 0 /\ [page |-> page, bytes |-> size] \in live

\* Allocations mean something for clients that keep to them.
Tracked(allocs) == IF Clients = "any" THEN {} ELSE allocs

Pages(a) == a.page .. (a.page + PageCount(a.bytes) - 1)

-----------------------------------------------------------------------------
(***************************************************************************)
(* n_malloc                                                                *)
(***************************************************************************)

\* Mutant: what was set up is not remembered.
set_physical_mem_Mutant ==
    UNCHANGED <<inited, physical_bitmap>> /\ virtual_bitmap' =
        set_bit_at_index(virtual_bitmap, 0)
\* set_physical_mem, run by the first call
set_physical_mem ==
    /\ inited' = TRUE
    /\ physical_bitmap' = IF inited THEN physical_bitmap
                          ELSE set_bit_at_index(physical_bitmap, 0)
    /\ virtual_bitmap' = IF inited THEN virtual_bitmap
                         ELSE set_bit_at_index(virtual_bitmap, 0)

\* First pages of the runs of n free virtual pages; page 0 is never one.
FreeRuns(n) ==
    {v \in VPages \ {0} :
        /\ v + n <= num_virtual_pages
        /\ \A w \in v .. (v + n - 1) : ~virtual_bitmap[w]}

LeastOf(S) == CHOOSE x \in S : \A y \in S : x <= y

get_next_avail_virtual(n) ==
    IF FreeRuns(n) = {} THEN 0 ELSE LeastOf(FreeRuns(n))

\* Mutant: the bitmap is not looked at.
FreeFrames_Mutant == PPages \ {0}
FreeFrames == {p \in PPages \ {0} : ~physical_bitmap[p]}

get_next_avail_physical ==
    IF FreeFrames = {} THEN 0 ELSE LeastOf(FreeFrames)

MallocReturns(page) ==
    /\ call' = NoCall
    /\ ret' = [NoRet EXCEPT !.op = "malloc", !.page = page]

\* Up to the search for virtual pages.
MallocBegin(bytes) ==
    LET n == PageCount(bytes)
        v == get_next_avail_virtual(n)
    IN  /\ Idle
        /\ set_physical_mem
        /\ IF v = 0
             THEN MallocReturns(0)
             ELSE /\ call' = [NoCall EXCEPT !.op = "malloc", !.page = v,
                                !.left = n, !.bytes = bytes, !.first = v]
                  /\ UNCHANGED ret
        /\ UNCHANGED <<tables, page_table, tlb, memory, live, fault>>

\* A page that has a frame keeps it, and the call fails.
map_page(v, p) ==
    /\ tables' = tables \cup {page_dir_index(v)}
    /\ IF page_table[v] # 0
         THEN UNCHANGED <<page_table, tlb>>
         ELSE /\ page_table' = [page_table EXCEPT ![v] = p]
              /\ tlb' = IF Cached(v) THEN tlb ELSE TLB_add(v, p)

\* One page: a frame, map_page and the two bits. Pages already mapped stay
\* mapped when no frame is left for the next one.
MallocPage ==
    LET v == call.page
        p == get_next_avail_physical
    IN  /\ call.op = "malloc" /\ call.left > 0
        /\ IF p = 0
             THEN UNCHANGED <<tables, page_table, tlb>>
             ELSE map_page(v, p)
        /\ IF p = 0 \/ page_table[v] # 0
             THEN /\ MallocReturns(0)
                  /\ UNCHANGED <<physical_bitmap, virtual_bitmap>>
             ELSE /\ virtual_bitmap' = set_bit_at_index(virtual_bitmap, v)
                  /\ physical_bitmap' = set_bit_at_index(physical_bitmap, p)
                  /\ call' = Moved(v + 1, call.left - 1, call.data)
                  /\ UNCHANGED ret
        /\ UNCHANGED <<inited, memory, live, fault>>

MallocEnd ==
    /\ call.op = "malloc" /\ call.left = 0
    /\ MallocReturns(call.first)
    /\ live' = Tracked(live \cup {[page |-> call.first,
                                   bytes |-> call.bytes]})
    /\ UNCHANGED <<tableVars, tlb, memory, fault>>

-----------------------------------------------------------------------------
(***************************************************************************)
(* n_free                                                                  *)
(***************************************************************************)

\* An allocation stops being live when the call to free it begins. A NULL
\* address or a size of 0 is refused; before the first n_malloc the walk
\* dereferences the NULL page directory.
FreeBegin(page, off, size) ==
    /\ Idle /\ MayFree(page, off, size)
    /\ live' = live \ {[page |-> page, bytes |-> size]}
    /\ IF (page = 0 /\ off = 0) \/ size = 0
         THEN /\ ret' = [NoRet EXCEPT !.op = "free"]
              /\ UNCHANGED <<call, fault>>
         ELSE IF ~inited
         THEN fault' = "null_deref" /\ UNCHANGED <<call, ret>>
         ELSE /\ call' = [NoCall EXCEPT !.op = "free", !.page = page,
                            !.off = off, !.left = PageCount(size)]
              /\ UNCHANGED <<ret, fault>>
    /\ UNCHANGED <<tableVars, tlb, memory>>

\* One page. The frame to release is computed from the physical address, so
\* an unmapped page with an offset releases frame 0.
FreePage ==
    LET v == call.page
        pa == translate(v, call.off)
        cache == TlbAfterTranslate(v)
    IN  /\ call.op = "free" /\ call.left > 0
        /\ IF pa = 0
             THEN /\ call' = Moved(v, 0, call.data)
                  /\ tlb' = cache
                  /\ UNCHANGED <<page_table, virtual_bitmap, physical_bitmap>>
             ELSE /\ page_table' = [page_table EXCEPT ![v] = 0]
                  /\ virtual_bitmap' = clear_bit_at_index(virtual_bitmap, v)
                  /\ physical_bitmap' =
                       clear_bit_at_index(physical_bitmap, pa \div PGSIZE)
                  /\ tlb' = TLB_remove(cache, v)
                  /\ call' = Moved(Wrap(v + 1), call.left - 1, call.data)
        /\ UNCHANGED <<inited, tables, memory, ret, live, fault>>

FreeEnd ==
    /\ call.op = "free" /\ call.left = 0
    /\ call' = NoCall
    /\ ret' = [NoRet EXCEPT !.op = "free"]
    /\ UNCHANGED <<tableVars, tlb, memory, live, fault>>

-----------------------------------------------------------------------------
(***************************************************************************)
(* put_data and get_data                                                   *)
(***************************************************************************)

DataReturns(op, ok, data) ==
    /\ call' = NoCall
    /\ ret' = [op |-> op, page |-> call.first, off |-> call.off, ok |-> ok,
               data |-> data]

Refused(page, off, size) == (page = 0 /\ off = 0) \/ size = 0 \/ ~inited

\* put_data; the bytes to write are in call.data.
PutBegin(page, off, data) ==
    /\ Idle /\ Access(page, off, Len(data))
    /\ IF Refused(page, off, Len(data))
         THEN /\ ret' = [op |-> "put", page |-> page, off |-> off,
                         ok |-> FALSE, data |-> <<>>]
              /\ UNCHANGED call
         ELSE /\ call' = [NoCall EXCEPT !.op = "put", !.page = page,
                            !.off = off, !.first = page, !.data = data]
              /\ UNCHANGED ret
    /\ UNCHANGED <<tableVars, tlb, memory, live, fault>>

\* Mutant: the copy goes on into the next frame.
Chunk_Mutant(left) == left
\* Bytes copied at once, of those left.
Chunk(left) == IF left < PGSIZE THEN left ELSE PGSIZE

\* One chunk of at most a page. A copy that leaves physical memory is
\* undefined behaviour.
PutPage ==
    LET pa == translate(call.page, call.off)
        n  == Chunk(Len(call.data))
    IN  /\ call.op = "put" /\ call.data # <<>> /\ fault = "none"
        /\ tlb' = TlbAfterTranslate(call.page)
        /\ IF pa = 0
             THEN DataReturns("put", FALSE, <<>>) /\ UNCHANGED <<memory, fault>>
             ELSE IF pa + n > num_physical_pages * PGSIZE
             THEN fault' = "wild_memcpy" /\ UNCHANGED <<memory, call, ret>>
             ELSE /\ memory' = [b \in PhysBytes |->
                                  IF b \in pa .. (pa + n - 1)
                                    THEN call.data[b - pa + 1] ELSE memory[b]]
                  /\ call' = Moved(Wrap(call.page + 1), call.left,
                                   SubSeq(call.data, n + 1, Len(call.data)))
                  /\ UNCHANGED <<ret, fault>>
        /\ UNCHANGED <<tableVars, live>>

PutEnd ==
    /\ call.op = "put" /\ call.data = <<>>
    /\ DataReturns("put", TRUE, <<>>)
    /\ UNCHANGED <<tableVars, tlb, memory, live, fault>>

\* get_data; the bytes read so far are in call.data.
GetBegin(page, off, size) ==
    /\ Idle /\ Access(page, off, size)
    /\ IF Refused(page, off, size)
         THEN /\ ret' = [op |-> "get", page |-> page, off |-> off,
                         ok |-> FALSE, data |-> <<>>]
              /\ UNCHANGED call
         ELSE /\ call' = [NoCall EXCEPT !.op = "get", !.page = page,
                            !.off = off, !.first = page, !.left = size]
              /\ UNCHANGED ret
    /\ UNCHANGED <<tableVars, tlb, memory, live, fault>>

GetPage ==
    LET pa == translate(call.page, call.off)
        n  == Chunk(call.left)
    IN  /\ call.op = "get" /\ call.left > 0 /\ fault = "none"
        /\ tlb' = TlbAfterTranslate(call.page)
        /\ IF pa = 0
             THEN DataReturns("get", FALSE, call.data) /\ UNCHANGED fault
             ELSE IF pa + n > num_physical_pages * PGSIZE
             THEN fault' = "wild_memcpy" /\ UNCHANGED <<call, ret>>
             ELSE /\ call' = Moved(Wrap(call.page + 1), call.left - n,
                                   call.data \o
                                     [i \in 1..n |-> memory[pa + i - 1]])
                  /\ UNCHANGED <<ret, fault>>
        /\ UNCHANGED <<tableVars, memory, live>>

GetEnd ==
    /\ call.op = "get" /\ call.left = 0
    /\ DataReturns("get", TRUE, call.data)
    /\ UNCHANGED <<tableVars, tlb, memory, live, fault>>

-----------------------------------------------------------------------------
\* Undefined behaviour ends a behaviour of the model: a call that reached it
\* does not go on, and no other begins.
Next ==
    \/ \E n \in Sizes :
          \/ MallocBegin(n)
          \/ \E v \in VPages, o \in Offsets :
                FreeBegin(v, o, n) \/ GetBegin(v, o, n)
    \/ \E n \in Sizes : \E d \in [1..n -> Bytes] :
          \E v \in VPages, o \in Offsets : PutBegin(v, o, d)
    \/ MallocPage \/ MallocEnd
    \/ FreePage \/ FreeEnd
    \/ PutPage \/ PutEnd
    \/ GetPage \/ GetEnd

Spec == Init /\ [][Next]_vars

=============================================================================
