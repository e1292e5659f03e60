------------------------------- MODULE MyVm64 -------------------------------
(***************************************************************************)
(* The 64-bit virtual memory of Project3/code/my_vm64.c. TLB, bitmaps and  *)
(* the four operations are those of my_vm.c; the page table is a tree of   *)
(* NUM_LEVELS levels of tables, allocated on the way down and never freed. *)
(*                                                                         *)
(* node is that tree: a sequence of tables, the page directory first. An   *)
(* entry of an interior table is the index of another table in node, an    *)
(* entry of a last-level table is a frame, and 0 is empty. The flat page   *)
(* table and the set of existing last-level tables of MyVm are computed    *)
(* from it, so that VM, an instance of MyVm over them in which every page  *)
(* has a table of its own, gives the parts that do not touch the tree and  *)
(* the specification that the whole implements.                            *)
(*                                                                         *)
(* Addresses do not wrap at 4 GB as in my_vm.c, and bitmap bits of pages   *)
(* behind it do not exist: clients pass anything that ends before it.      *)
(***************************************************************************)
EXTENDS Integers, Sequences, FiniteSets

CONSTANTS
    PGSIZE, num_virtual_pages, num_physical_pages, TLB_ENTRIES,
    Bytes, Junk, Sizes, Clients,    \* as in MyVm
    NUM_LEVELS,                     \* levels of the tree
    TableSize                       \* entries of a table

VARIABLES
    node,               \* the tables that were allocated
    inited, physical_bitmap, virtual_bitmap, tlb, memory, call, ret, live,
    fault               \* as in MyVm, or "wild_bitmap"

Levels  == 0 .. (NUM_LEVELS - 1)
LastLevel == NUM_LEVELS - 1
Indices == 0 .. (TableSize - 1)
VPages  == 0 .. (num_virtual_pages - 1)
PPages  == 0 .. (num_physical_pages - 1)

NULL   == 0
pgdir  == 1
EmptyTable == [i \in Indices |-> NULL]

-----------------------------------------------------------------------------
(***************************************************************************)
(* The walk                                                                *)
(***************************************************************************)

\* The page numbers that the levels above one tell apart.
Power[level \in 0 .. NUM_LEVELS] ==
    IF level = 0 THEN 1 ELSE TableSize * Power[level - 1]

\* The first level is indexed by the lowest bits of the page number.
\* Mutant: the bits of the level above.
IndexAt_Mutant(v, level) == (v \div Power[level + 1]) % TableSize
IndexAt(v, level) == (v \div Power[level]) % TableSize

Child(table, v, level) ==
    IF table = NULL THEN NULL ELSE node[table][IndexAt(v, level)]

\* The tables on the way to page v, NULL from the first that is missing.
Walk(v) ==
    LET table[i \in Levels] ==
          IF i > 0 THEN Child(table[i - 1], v, i - 1)
          ELSE IF node = <<>> THEN NULL ELSE pgdir
    IN  table

LastTable(v) == Walk(v)[LastLevel]
HasTable(v)  == LastTable(v) # NULL
Entry(v) == IF HasTable(v) THEN node[LastTable(v)][IndexAt(v, LastLevel)]
                           ELSE NULL

VM == INSTANCE MyVm WITH
        PTE_PER_TABLE <- 1,
        tables     <- {v \in VPages : HasTable(v)},
        page_table <- [v \in VPages |-> Entry(v)],
        fault      <- IF fault = "wild_bitmap" THEN "none" ELSE fault

vars == <<node, inited, physical_bitmap, virtual_bitmap, tlb, memory, call,
          ret, live, fault>>

ASSUME ConstantsAssumption64 ==
    /\ VM!ConstantsAssumption
    /\ NUM_LEVELS \in Nat \ {0, 1}
    /\ TableSize \in Nat \ {0}
    /\ num_virtual_pages <= Power[LastLevel]

\* Frames and tables are numbers; which an entry holds follows from its level.
TypeOK64 ==
    /\ VM!TypeOK
    /\ node \in Seq([Indices -> Nat])
    /\ inited <=> node # <<>>
    /\ \A v \in VPages, l \in Levels : Walk(v)[l] \in 0 .. Len(node)
    /\ fault \in {"none", "null_deref", "wild_memcpy", "wild_bitmap"}

Init == node = <<>> /\ fault = "none" /\ VM!Init

-----------------------------------------------------------------------------
(***************************************************************************)
(* n_malloc                                                                *)
(***************************************************************************)

\* Mutant: no page directory.
FirstTables_Mutant == <<>>
FirstTables == <<EmptyTable>>

\* The page directory is allocated with the rest by the first call.
MallocBegin(bytes) ==
    /\ node' = IF inited THEN node ELSE FirstTables
    /\ UNCHANGED fault
    /\ VM!MallocBegin(bytes)

\* The last level at which the way to v has a table.
Reached(v) == CHOOSE l \in Levels :
    /\ Walk(v)[l] # NULL
    /\ \A k \in Levels : k > l => Walk(v)[k] = NULL

\* Mutant: each missing table is the same one.
Fresh_Mutant(i) == Len(node) + 1
\* The i-th table a walk allocates.
Fresh(i) == Len(node) + i

\* The tree in which every table on the way to v exists.
WithTables(v) ==
    LET top == Reached(v)
        missing == LastLevel - top
        linked == [node EXCEPT ![Walk(v)[top]][IndexAt(v, top)] = Fresh(1)]
        added == [i \in 1..missing |->
                    IF i = missing
                      THEN EmptyTable
                      ELSE [EmptyTable EXCEPT
                              ![IndexAt(v, top + i)] = Fresh(i + 1)]]
    IN  IF missing = 0 THEN node ELSE linked \o added

\* map_page allocates the tables that are missing, down to the last level,
\* and enters the frame there.
map_page(v, p) ==
    LET last == IF HasTable(v) THEN LastTable(v)
                               ELSE Fresh(LastLevel - Reached(v))
    IN  [WithTables(v) EXCEPT ![last][IndexAt(v, LastLevel)] = p]

\* i * PGSIZE is computed as an int: from the middle of the address space on
\* it is negative and becomes an address far outside of it.
AddressFits(v) == v < num_virtual_pages \div 2

MallocFails ==
    /\ call.op = "malloc" /\ call.left > 0 /\ fault = "none"
    /\ \/ VM!get_next_avail_physical = 0
       \/ AddressFits(call.first) /\ Entry(call.page) # NULL
    /\ UNCHANGED <<node, inited, physical_bitmap, virtual_bitmap, tlb, memory,
                   live, fault>>
    /\ VM!MallocReturns(0)

MallocPage ==
    LET v == call.page
        p == VM!get_next_avail_physical
    IN  /\ call.op = "malloc" /\ call.left > 0 /\ fault = "none"
        /\ p # 0 /\ Entry(v) = NULL /\ AddressFits(call.first)
        /\ node' = map_page(v, p)
        /\ tlb' = IF VM!Cached(v) THEN tlb ELSE VM!TLB_add(v, p)
        /\ virtual_bitmap' = VM!set_bit_at_index(virtual_bitmap, v)
        /\ physical_bitmap' = VM!set_bit_at_index(physical_bitmap, p)
        /\ call' = VM!Moved(v + 1, call.left - 1, call.data)
        /\ UNCHANGED <<inited, memory, ret, live, fault>>

\* A page far outside of the address space is mapped, and a bit in front of
\* the bitmap is set.
MallocOutside ==
    /\ call.op = "malloc" /\ call.left > 0 /\ fault = "none"
    /\ VM!get_next_avail_physical # 0 /\ ~AddressFits(call.first)
    /\ fault' = "wild_bitmap"
    /\ UNCHANGED <<node, inited, physical_bitmap, virtual_bitmap, tlb, memory,
                   call, ret, live>>

MallocEnd == UNCHANGED <<node, fault>> /\ VM!MallocEnd

-----------------------------------------------------------------------------
(***************************************************************************)
(* n_free                                                                  *)
(***************************************************************************)

FreeBegin(page, off, size) ==
    /\ UNCHANGED node
    /\ fault' \in {fault, "null_deref"}
    /\ VM!FreeBegin(page, off, size)

translate(v, off) ==
    IF VM!Cached(v) THEN VM!TLB_check(v) * PGSIZE
    ELSE IF HasTable(v) THEN Entry(v) * PGSIZE + off
    ELSE 0

\* The walk to the entry that is cleared tests no table for NULL: a
\* translation was found, in the TLB or in the tree.
FreePage ==
    LET v == call.page
        pa == translate(v, call.off)
        cache == VM!TlbAfterTranslate(v)
    IN  /\ call.op = "free" /\ call.left > 0 /\ fault = "none"
        /\ IF pa = 0
             THEN /\ call' = VM!Moved(v, 0, call.data)
                  /\ tlb' = cache
                  /\ UNCHANGED <<node, virtual_bitmap, physical_bitmap, fault>>
             ELSE IF ~HasTable(v)
             THEN /\ fault' = "null_deref"
                  /\ UNCHANGED <<node, virtual_bitmap, physical_bitmap, tlb,
                                 call>>
             ELSE /\ node' = [node EXCEPT
                                ![LastTable(v)][IndexAt(v, LastLevel)] = NULL]
                  /\ virtual_bitmap' = VM!clear_bit_at_index(virtual_bitmap, v)
                  /\ physical_bitmap' =
                       VM!clear_bit_at_index(physical_bitmap, pa \div PGSIZE)
                  /\ tlb' = VM!TLB_remove(cache, v)
                  /\ call' = VM!Moved(VM!Wrap(v + 1), call.left - 1, call.data)
                  /\ UNCHANGED fault
        /\ UNCHANGED <<inited, memory, ret, live>>

FreeEnd == UNCHANGED <<node, fault>> /\ VM!FreeEnd

-----------------------------------------------------------------------------
(***************************************************************************)
(* put_data and get_data walk the tree and do not change it.               *)
(***************************************************************************)

PutBegin(page, off, data) ==
    UNCHANGED <<node, fault>> /\ VM!PutBegin(page, off, data)

PutPage ==
    /\ fault = "none" /\ fault' \in {fault, "wild_memcpy"}
    /\ UNCHANGED node
    /\ VM!PutPage

PutEnd == UNCHANGED <<node, fault>> /\ VM!PutEnd

GetBegin(page, off, size) ==
    UNCHANGED <<node, fault>> /\ VM!GetBegin(page, off, size)

GetPage ==
    /\ fault = "none" /\ fault' \in {fault, "wild_memcpy"}
    /\ UNCHANGED node
    /\ VM!GetPage

GetEnd == UNCHANGED <<node, fault>> /\ VM!GetEnd

-----------------------------------------------------------------------------
Undefined == fault # "none" /\ UNCHANGED vars

\* First pages of calls over n bytes that end in the 4 GB.
PagesFor(n) == {v \in VPages : v + VM!PageCount(n) <= num_virtual_pages}

Next ==
    \/ \E n \in Sizes :
          \/ MallocBegin(n)
          \/ \E v \in PagesFor(n), o \in 0 .. (PGSIZE - 1) :
                \/ FreeBegin(v, o, n)
                \/ GetBegin(v, o, n)
                \/ \E d \in [1..n -> Bytes] : PutBegin(v, o, d)
    \/ MallocPage \/ MallocFails \/ MallocOutside \/ MallocEnd
    \/ FreePage \/ FreeEnd
    \/ PutPage \/ PutEnd
    \/ GetPage \/ GetEnd
    \/ Undefined

Spec == Init /\ [][Next]_vars

-----------------------------------------------------------------------------
(***************************************************************************)
(* Properties                                                              *)
(***************************************************************************)

\* The tables that exist, each with the indices that lead to it.
WayTo(v, l) == <<[j \in 1..l |-> IndexAt(v, j - 1)], Walk(v)[l]>>
Ways == UNION {{WayTo(v, l) : l \in {k \in Levels : Walk(v)[k] # NULL}} :
                 v \in VPages}

\* Every table that was allocated is reached by one sequence of indices and no
\* other: none is lost, entered twice or used at two levels, in whatever order
\* pages are mapped and freed (my_vm64.c:203-212).
TreeSound ==
    /\ DOMAIN node = {w[2] : w \in Ways}
    /\ \A w, u \in Ways : w[2] = u[2] => w = u

\* n_free walks to the entry it clears without testing a table for NULL, and
\* relies on translate having found the page, in the TLB maybe. The TLB never
\* answers for a page whose table is missing: whatever clients free, the only
\* NULL that is dereferenced is the page directory of a free before the first
\* n_malloc (my_vm64.c:533-553).
NullOnlyBeforeMalloc == fault = "null_deref" => ~inited

\* With its tree my_vm64.c does what my_vm.c does with a flat table: the walk
\* of translate, the one of map_page that allocates and the unchecked one of
\* n_free all find the same entry of the same page, and no two pages share
\* one (my_vm64.c:138-230, 533-553). This is said of behaviours up to the
\* allocation in the upper half of the address space that my_vm64.c cannot
\* serve (line 254).
ImplementsMyVm == VM!Spec
=============================================================================
