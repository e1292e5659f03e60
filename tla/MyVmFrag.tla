------------------------------ MODULE MyVmFrag ------------------------------
(***************************************************************************)
(* The virtual memory of Project3/code/my_vm_frag.c: my_vm.c with an entry *)
(* of page_metadata for each virtual page, by which n_malloc places small  *)
(* allocations behind each other in one page. Page table, TLB, bitmaps and *)
(* data access are those of MyVm; n_malloc and n_free are told here.       *)
(*                                                                         *)
(* An allocation may start anywhere in a page, so clients hold ranges of   *)
(* bytes. Addresses and the unsigned fields of page_metadata have 32 bits, *)
(* which are the bytes of the address space.                               *)
(***************************************************************************)
EXTENDS MyVmRefinement

CONSTANT Holders        \* what clients do: "legal" or "alone"

ASSUME HoldersAssumption ==
    /\ Holders \in {"legal", "alone"}
    /\ Clients = "any"  \* Holders says what clients do

VARIABLES
    page_metadata,
    held                \* ranges the clients were given and have not freed

fragVars == <<vars, page_metadata, held>>

Word == num_virtual_pages * PGSIZE

PageMetadata == [remaining_space : 0 .. (Word - 1),
                 next_free_offset : 0 .. (Word - 1)]
NoMetadata   == [remaining_space |-> 0, next_free_offset |-> 0]

FragTypeOK ==
    /\ TypeOK
    /\ page_metadata \in [VPages -> PageMetadata]
    /\ held \subseteq [page : VPages, off : Offsets, bytes : Nat]

\* page_metadata comes from a malloc of 8 MB, which the C library maps: its
\* pages are zero though the code does not clear them.
FragInit ==
    /\ Init
    /\ page_metadata = [v \in VPages |-> NoMetadata]
    /\ held = {}

-----------------------------------------------------------------------------
(***************************************************************************)
(* Clients read and write what they hold and free it, with its size, once. *)
(* "alone" ones also allocate at most a page at a time and free an         *)
(* allocation only while it is the only one in its page.                   *)
(***************************************************************************)
Extent(page, off, size) == [page |-> page, off |-> off, bytes |-> size]

BytesOf(r) == LET first == r.page * PGSIZE + r.off
              IN  first .. (first + r.bytes - 1)

Alone(r) == \A other \in held \ {r} : other.page # r.page

MayAllocate(size) == Holders = "alone" => size <= PGSIZE

MayRelease(r) == r \in held /\ (Holders = "alone" => Alone(r))

MayAccess(r) == \E h \in held : BytesOf(r) \subseteq BytesOf(h)

\* NULL is no allocation.
HeldAfter(page, off, size) ==
    IF page = 0 /\ off = 0 THEN held ELSE held \cup {Extent(page, off, size)}

-----------------------------------------------------------------------------
(***************************************************************************)
(* n_malloc                                                                *)
(***************************************************************************)

\* Pages that seem to have room. Mutant: one byte too little is enough.
Roomy_Mutant(size) ==
    {v \in VPages : /\ page_metadata[v].remaining_space > 0
                    /\ page_metadata[v].remaining_space + 1 >= size}
Roomy(size) == {v \in VPages : page_metadata[v].remaining_space >= size}

AfterPacking(m, size) ==
    [m EXCEPT !.remaining_space = @ - size,
              !.next_free_offset = (@ + size) % Word]

\* The first page with room takes the allocation: no table is looked at.
PackInPage(size) ==
    LET v    == LeastOf(Roomy(size))
        addr == (v * PGSIZE + page_metadata[v].next_free_offset) % Word
        page == addr \div PGSIZE
        off  == addr % PGSIZE
    IN  /\ page_metadata' = [page_metadata EXCEPT ![v] = AfterPacking(@, size)]
        /\ ret' = [NoRet EXCEPT !.op = "malloc", !.page = page, !.off = off]
        /\ held' = HeldAfter(page, off, size)
        /\ set_physical_mem
        /\ UNCHANGED <<tables, page_table, tlb, memory, call, live, fault>>

FragMallocBegin(size) ==
    /\ Idle /\ MayAllocate(size)
    /\ IF Roomy(size) # {}
         THEN PackInPage(size)
         ELSE MallocBegin(size) /\ UNCHANGED <<page_metadata, held>>

\* Each page of an allocation is entered with the room that the whole
\* allocation leaves in one page, a number of 32 bits.
\* Mutant: the next allocation starts where this one does.
NewPage_Mutant(size) == [remaining_space |-> (PGSIZE - size) % Word,
                         next_free_offset |-> 0]
NewPage(size) == [remaining_space |-> (PGSIZE - size) % Word,
                  next_free_offset |-> size]

FragMallocPage ==
    /\ MallocPage
    /\ page_metadata' = IF virtual_bitmap' = virtual_bitmap THEN page_metadata
                        ELSE [page_metadata EXCEPT
                                ![call.page] = NewPage(call.bytes)]
    /\ UNCHANGED held

FragMallocEnd ==
    /\ MallocEnd
    /\ held' = HeldAfter(call.first, 0, call.bytes)
    /\ UNCHANGED page_metadata

-----------------------------------------------------------------------------
(***************************************************************************)
(* n_free                                                                  *)
(***************************************************************************)

\* The call keeps the address and the size it was given: each page is told
\* that all of the size came free.
FragFreeBegin(page, off, size) ==
    /\ Idle /\ MayRelease(Extent(page, off, size))
    /\ held' = held \ {Extent(page, off, size)}
    /\ IF (page = 0 /\ off = 0) \/ size = 0
         THEN /\ ret' = [NoRet EXCEPT !.op = "free"]
              /\ UNCHANGED <<call, fault>>
         ELSE IF ~inited
         THEN fault' = "null_deref" /\ UNCHANGED <<call, ret>>
         ELSE /\ call' = [NoCall EXCEPT !.op = "free", !.page = page,
                            !.off = off, !.left = PageCount(size),
                            !.bytes = size, !.first = page]
              /\ UNCHANGED <<ret, fault>>
    /\ UNCHANGED <<tableVars, tlb, memory, live, page_metadata>>

Emptied(m, size) == (m.remaining_space + size) % Word = PGSIZE

\* Mutant: the entry of a page that is released keeps its offset.
AfterFreeing_Mutant(m, size) ==
    [m EXCEPT !.remaining_space = (@ + size) % Word]
AfterFreeing(m, size) ==
    IF Emptied(m, size) THEN NoMetadata
    ELSE [m EXCEPT !.remaining_space = (@ + size) % Word]

\* One page: FreePage unmaps it whether or not it is empty. An empty page is
\* released first, with another translation of the address that was passed:
\* on its own page that finds the same frame again, on a later page it finds
\* an entry that is gone, caches it and releases frame 0.
FragFreePage ==
    LET v == call.page
        pa == translate(v, call.off)
        again == /\ Emptied(page_metadata[v], call.bytes)
                 /\ v # call.first
    IN  /\ call.op = "free" /\ call.left > 0
        /\ IF pa = 0 \/ ~again
             THEN FreePage
             ELSE /\ page_table' = [page_table EXCEPT ![v] = 0]
                  /\ virtual_bitmap' = clear_bit_at_index(virtual_bitmap, v)
                  /\ physical_bitmap' =
                       clear_bit_at_index(
                         clear_bit_at_index(physical_bitmap, 0), pa \div PGSIZE)
                  /\ tlb' = TLB_remove(
                              [TlbAfterTranslate(v) EXCEPT
                                 ![TlbIndex(call.first)] =
                                   [valid |-> TRUE, physical_page |-> 0,
                                    virtual_page |-> call.first]], v)
                  /\ call' = Moved(Wrap(v + 1), call.left - 1, call.data)
                  /\ UNCHANGED <<inited, tables, memory, ret, live, fault>>
        /\ page_metadata' = IF pa = 0 THEN page_metadata
                            ELSE [page_metadata EXCEPT
                                    ![v] = AfterFreeing(@, call.bytes)]
        /\ UNCHANGED held

FragFreeEnd == FreeEnd /\ UNCHANGED <<page_metadata, held>>

-----------------------------------------------------------------------------
\* put_data and get_data are those of my_vm.c.
FragPut ==
    /\ \/ \E page \in VPages, off \in Offsets, n \in Sizes :
             /\ MayAccess(Extent(page, off, n))
             /\ \E data \in [1..n -> Bytes] : PutBegin(page, off, data)
       \/ PutPage
       \/ PutEnd
    /\ UNCHANGED <<page_metadata, held>>

FragGet ==
    /\ \/ \E page \in VPages, off \in Offsets, n \in Sizes :
             MayAccess(Extent(page, off, n)) /\ GetBegin(page, off, n)
       \/ GetPage
       \/ GetEnd
    /\ UNCHANGED <<page_metadata, held>>

\* A behaviour that reaches undefined behaviour stops: TLC would report a
\* deadlock.
FragNext ==
    \/ \E n \in Sizes :
          \/ FragMallocBegin(n)
          \/ \E v \in VPages, o \in Offsets : FragFreeBegin(v, o, n)
    \/ FragMallocPage \/ FragMallocEnd
    \/ FragFreePage \/ FragFreeEnd
    \/ FragPut
    \/ FragGet

FragSpec == FragInit /\ [][FragNext]_fragVars

-----------------------------------------------------------------------------
(***************************************************************************)
(* Properties                                                              *)
(***************************************************************************)

\* Allocations share no byte, wherever in a page they were placed
\* (my_vm_frag.c:467-480). A range handed out twice would be one member of
\* held: SpaceAccounted excludes it.
HeldDisjoint ==
    \A r, s \in held : r # s => BytesOf(r) \cap BytesOf(s) = {}

\* Every page in which a client holds bytes has a frame: a page is released
\* only when it is entirely free (my_vm_frag.c:559).
HeldMapped ==
    \A r \in held : \A b \in BytesOf(r) :
        b < Word /\ page_table[b \div PGSIZE] # 0

HeldIn(v) == UNION {BytesOf(r) : r \in {s \in held : s.page = v}}

\* Between two calls that allocate or free, no byte of a page is lost to the
\* accounting: what is not held is either room behind the last allocation or
\* the whole page (my_vm_frag.c:475-476, 520-521, 557-576).
SpaceAccounted ==
    call.op \notin {"malloc", "free"} =>
        \A v \in VPages \ {0} :
            LET m == page_metadata[v]
            IN  /\ m.next_free_offset = Cardinality(HeldIn(v))
                /\ IF HeldIn(v) = {} THEN m.remaining_space = 0
                   ELSE m.remaining_space = PGSIZE - m.next_free_offset
=============================================================================
