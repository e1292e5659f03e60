------------------------ MODULE MyVmAllocationProofs ------------------------
(***************************************************************************)
(* Allocations overlap nowhere, for all clients that free what they got,   *)
(* once; and those that access them from the start of a page on never get  *)
(* to undefined behaviour. Both for every size of memory, pages and        *)
(* tables.                                                                 *)
(***************************************************************************)
EXTENDS MyVmProofs

Mapped(v) == v \in VPages /\ page_table[v] # 0

\* The pages of a live allocation have frames.
LiveMapped == \A a \in live : \A v \in Pages(a) : Mapped(v)

\* No page is in two live allocations.
LiveApart == \A a, b \in live : a # b => Pages(a) \cap Pages(b) = {}

NotLive(v) == \A a \in live : v \notin Pages(a)

\* What an n_malloc has mapped so far is nobody's, and with the pages still
\* to come it makes the allocation that is returned.
MallocOnTheWay ==
    call.op = "malloc" =>
        /\ call.first <= call.page
        /\ call.page + call.left = call.first + PageCount(call.bytes)
        /\ \A v \in call.first .. (call.page - 1) : Mapped(v) /\ NotLive(v)

\* What an n_free has yet to unmap is nobody's.
FreeOnTheWay ==
    call.op = "free" =>
        \A v \in call.page .. (call.page + call.left - 1) :
            v \in VPages /\ NotLive(v)

\* The part of the inductive invariant that is about allocations; TypeOK and
\* TablesAgree are the others.
LiveInv ==
    Clients # "any" =>
        LiveMapped /\ LiveApart /\ MallocOnTheWay /\ FreeOnTheWay

-----------------------------------------------------------------------------
\* The pages of a live allocation are as many as its bytes need.
LEMMA LivePages ==
    ASSUME TypeOK, NEW a \in live
    PROVE  a.page \in Nat /\ a.bytes \in Nat /\ PageCount(a.bytes) \in Nat
<1>1. a.page \in VPages /\ a.bytes \in Nat
  BY DEF TypeOK, Alloc
<1>2. QED
  BY <1>1, DivisionNat DEF VPages

\* A call that is no n_malloc or n_free, in a step that leaves page table and
\* allocations alone, is of no concern.
LEMMA LiveUndisturbed ==
    ASSUME LiveInv, UNCHANGED <<page_table, live>>,
           call' = call \/ call'.op \notin {"malloc", "free"}
    PROVE  LiveInv'
<1> SUFFICES ASSUME Clients # "any"
             PROVE  (LiveMapped /\ LiveApart /\ MallocOnTheWay /\ FreeOnTheWay)'
  BY DEF LiveInv
<1>1. LiveMapped' /\ LiveApart'
  BY DEF LiveInv, LiveMapped, LiveApart, Mapped, Pages
<1>2. MallocOnTheWay' /\ FreeOnTheWay'
  <2>1. CASE call' = call
    BY <2>1 DEF LiveInv, MallocOnTheWay, FreeOnTheWay, Mapped, NotLive, Pages
  <2>2. CASE call'.op \notin {"malloc", "free"}
    BY <2>2 DEF MallocOnTheWay, FreeOnTheWay
  <2>3. QED
    BY <2>1, <2>2
<1>3. QED
  BY <1>1, <1>2

\* n_malloc begins with nothing mapped.
LEMMA LiveMallocBegin ==
    ASSUME TypeOK, LiveInv, NEW n \in Sizes, MallocBegin(n)
    PROVE  LiveInv'
<1> DEFINE v == get_next_avail_virtual(PageCount(n))
<1>1. UNCHANGED <<page_table, live>>
  BY DEF MallocBegin
<1>2. CASE v = 0
  <2>1. call'.op \notin {"malloc", "free"}
    BY <1>2, NoCallTypes DEF MallocBegin, MallocReturns
  <2>2. QED
    BY <1>1, <2>1, LiveUndisturbed
<1>3. CASE v # 0
  <2>1. /\ call'.op = "malloc" /\ call'.page = v /\ call'.left = PageCount(n)
        /\ call'.first = v /\ call'.bytes = n
    BY <1>3 DEF MallocBegin, NoCall
  <2>2. v \in Nat /\ PageCount(n) \in Nat
    <3>1. PageCount(n) \in Nat
      BY ConstantsAssumption, DivisionNat
    <3>2. v \in VPages
      BY <3>1, LookupTypes
    <3>3. QED
      BY <3>1, <3>2 DEF VPages
  <2>3. MallocOnTheWay' /\ FreeOnTheWay'
    <3> HIDE DEF v
    <3>1. v .. (v - 1) = {}
      BY <2>2
    <3>2. QED
      BY <2>1, <2>2, <3>1 DEF MallocOnTheWay, FreeOnTheWay
  <2>4. QED
    BY <1>1, <2>3 DEF LiveInv, LiveMapped, LiveApart, Mapped, Pages
<1>4. QED
  BY <1>2, <1>3

\* A page that n_malloc maps had no frame, so it is in no live allocation.
LEMMA LiveMallocPage ==
    ASSUME TypeOK, TablesAgree, LiveInv, MallocPage
    PROVE  LiveInv'
<1> SUFFICES ASSUME Clients # "any"
             PROVE  LiveInv'
  BY DEF LiveInv
<1> DEFINE v == call.page
           p == get_next_avail_physical
<1>1. /\ call.op = "malloc" /\ call.left \in Nat \ {0} /\ v \in Nat
      /\ call.first \in Nat /\ call.bytes \in Nat
  BY DEF MallocPage, TypeOK, CallType, VPages
<1>2. v \in VPages \ {0} /\ page_table[v] = 0
  <2>1. v \in v .. (v + call.left - 1)
    BY <1>1
  <2>2. QED
    BY <1>1, <2>1 DEF TablesAgree, PagesToMapAreFree
<1>3. UNCHANGED live
  BY DEF MallocPage
<1>4. CASE p = 0
  <2>1. UNCHANGED page_table /\ call'.op = "none"
    BY <1>4, NoCallTypes DEF MallocPage, MallocReturns
  <2>2. QED
    BY <1>3, <2>1, LiveUndisturbed
<1>5. CASE p # 0
  <2>1. page_table' = [page_table EXCEPT ![v] = p]
    BY <1>2, <1>5 DEF MallocPage, map_page
  <2>2. /\ call'.op = "malloc" /\ call'.page = v + 1
        /\ call'.left = call.left - 1 /\ call'.first = call.first
        /\ call'.bytes = call.bytes
    BY <1>1, <1>2, <1>5 DEF MallocPage, Moved
  <2>3. page_table \in [VPages -> PPages]
    BY DEF TypeOK
  <2> HIDE DEF v, p
  <2>4. \A w \in VPages : page_table'[w] = IF w = v THEN p ELSE page_table[w]
    BY <2>1, <2>3
  <2>5. page_table'[v] # 0
    BY <1>2, <1>5, <2>4
  <2>6. \A a \in live : v \notin Pages(a)
    BY <1>2 DEF LiveInv, LiveMapped, Mapped, v
  <2>7. LiveMapped' /\ LiveApart'
    BY <1>3, <1>5, <2>4 DEF LiveInv, LiveMapped, LiveApart, Mapped, Pages
  <2>8. /\ call.first <= v
        /\ v + call.left = call.first + PageCount(call.bytes)
        /\ \A w \in call.first .. (v - 1) : Mapped(w) /\ NotLive(w)
    BY <1>1 DEF LiveInv, MallocOnTheWay, v
  <2>9. \A w \in call.first .. v : w = v \/ w \in call.first .. (v - 1)
    BY <1>1
  <2>10. (v + 1) - 1 = v /\ call.first <= v + 1
         /\ (v + 1) + (call.left - 1) = v + call.left
    BY <1>1, <2>8
  <2>11. \A w \in call.first .. v :
             /\ w \in VPages /\ page_table'[w] # 0
             /\ \A a \in live : w \notin Pages(a)
    BY <1>2, <1>5, <2>4, <2>5, <2>6, <2>8, <2>9 DEF Mapped, NotLive
  <2>12. MallocOnTheWay'
    <3>1. call'.page - 1 = v
      BY <2>2, <2>10
    <3>2. call'.page + call'.left = call'.first + PageCount(call'.bytes)
      BY <2>2, <2>8, <2>10
    <3>3. \A w \in call'.first .. (call'.page - 1) :
             /\ w \in VPages /\ page_table'[w] # 0
             /\ \A a \in live' : w \notin Pages(a)
      BY <1>3, <2>2, <2>11, <3>1
    <3>4. call'.first <= call'.page
      BY <2>2, <2>10
    <3>5. QED
      BY <3>2, <3>3, <3>4 DEF MallocOnTheWay, Mapped, NotLive, Pages
  <2>13. FreeOnTheWay'
    BY <2>2 DEF FreeOnTheWay
  <2>14. QED
    BY <2>7, <2>12, <2>13 DEF LiveInv
<1>6. QED
  BY <1>4, <1>5

\* The allocation that n_malloc returns is the pages it mapped.
LEMMA LiveMallocEnd ==
    ASSUME TypeOK, LiveInv, MallocEnd
    PROVE  LiveInv'
<1> SUFFICES ASSUME Clients # "any"
             PROVE  LiveInv'
  BY DEF LiveInv
<1> DEFINE given == [page |-> call.first, bytes |-> call.bytes]
<1>1. UNCHANGED page_table /\ live' = live \cup {given} /\ call'.op = "none"
  BY NoCallTypes DEF MallocEnd, MallocReturns, Tracked, tableVars
<1>2. /\ call.op = "malloc" /\ call.left = 0 /\ call.page \in Nat
      /\ call.first \in Nat
  BY DEF MallocEnd, TypeOK, CallType, VPages
<1>3. call.page = call.first + PageCount(call.bytes)
  <2>1. call.page + call.left = call.first + PageCount(call.bytes)
    BY <1>2 DEF LiveInv, MallocOnTheWay
  <2>2. QED
    BY <1>2, <2>1
<1>4. Pages(given) = call.first .. (call.page - 1)
  <2>1. given.page = call.first /\ given.bytes = call.bytes
    OBVIOUS
  <2>2. PageCount(call.bytes) \in Nat
    <3>1. call.bytes \in Nat
      BY DEF TypeOK, CallType
    <3>2. QED
      BY <3>1, DivisionNat
  <2> HIDE DEF given
  <2>3. call.first + PageCount(call.bytes) - 1 = call.page - 1
    BY <1>2, <1>3, <2>2
  <2>4. QED
    BY <2>1, <2>3 DEF Pages
<1>5. \A v \in Pages(given) : Mapped(v) /\ NotLive(v)
  BY <1>2, <1>4 DEF LiveInv, MallocOnTheWay
<1>6. \A a : Pages(a)' = Pages(a)
  BY DEF Pages
<1>7. LiveMapped'
  <2>1. \A a \in live' : \A v \in Pages(a) : Mapped(v)
    BY <1>1, <1>5 DEF LiveInv, LiveMapped
  <2>2. QED
    BY <1>1, <2>1 DEF LiveMapped, Mapped, Pages
<1>8. LiveApart'
  <2>1. \A a \in live : Pages(a) \cap Pages(given) = {}
    BY <1>5 DEF NotLive
  <2>2. \A a, b \in live' : a # b => Pages(a) \cap Pages(b) = {}
    BY <1>1, <2>1 DEF LiveInv, LiveApart
  <2>3. QED
    BY <2>2 DEF LiveApart, Pages
<1>9. MallocOnTheWay' /\ FreeOnTheWay'
  BY <1>1 DEF MallocOnTheWay, FreeOnTheWay
<1>10. QED
  BY <1>7, <1>8, <1>9 DEF LiveInv

\* n_free takes an allocation out of the live ones before it unmaps it.
LEMMA LiveFreeBegin ==
    ASSUME TypeOK, LiveInv, NEW n \in Sizes, NEW v \in VPages,
           NEW o \in Offsets, FreeBegin(v, o, n)
    PROVE  LiveInv'
<1> SUFFICES ASSUME Clients # "any"
             PROVE  LiveInv'
  BY DEF LiveInv
<1> DEFINE old == [page |-> v, bytes |-> n]
<1>1. UNCHANGED page_table /\ live' = live \ {old} /\ old \in live
  BY DEF FreeBegin, MayFree, tableVars
<1>2. LiveMapped' /\ LiveApart'
  BY <1>1 DEF LiveInv, LiveMapped, LiveApart, Mapped, Pages
<1>3. \A w \in Pages(old) : w \in VPages /\ NotLive(w)'
  BY <1>1 DEF LiveInv, LiveMapped, LiveApart, Mapped, NotLive, Pages
<1>4. MallocOnTheWay' /\ FreeOnTheWay'
  <2>1. CASE UNCHANGED call
    BY <2>1, NoCallTypes DEF FreeBegin, Idle, MallocOnTheWay, FreeOnTheWay
  <2>2. CASE call' = [NoCall EXCEPT !.op = "free", !.page = v,
                        !.off = o, !.left = PageCount(n)]
    <3>1. call'.op = "free" /\ call'.page = v /\ call'.left = PageCount(n)
      BY <2>2 DEF NoCall
    <3>2. call'.page .. (call'.page + call'.left - 1) = Pages(old)
      BY <3>1 DEF Pages
    <3>3. QED
      BY <1>3, <3>1, <3>2 DEF MallocOnTheWay, FreeOnTheWay
  <2>3. QED
    BY <2>1, <2>2 DEF FreeBegin
<1>5. QED
  BY <1>2, <1>4 DEF LiveInv

\* It then unmaps pages that are in no live allocation.
LEMMA LiveFreePage ==
    ASSUME TypeOK, LiveInv, FreePage
    PROVE  LiveInv'
<1> SUFFICES ASSUME Clients # "any"
             PROVE  LiveInv'
  BY DEF LiveInv
<1> DEFINE v == call.page
<1>1. call.op = "free" /\ call.left \in Nat \ {0} /\ v \in Nat
  BY DEF FreePage, TypeOK, CallType
<1>2. \A w \in v .. (v + call.left - 1) : w \in VPages /\ NotLive(w)
  BY <1>1 DEF LiveInv, FreeOnTheWay
<1>3. v \in VPages /\ NotLive(v)
  <2>1. v \in v .. (v + call.left - 1)
    BY <1>1
  <2>2. QED
    BY <1>2, <2>1
<1>4. UNCHANGED live
  BY DEF FreePage
<1>5. page_table \in [VPages -> PPages]
  BY DEF TypeOK
<1>6. \A w \in VPages : w # v => page_table'[w] = page_table[w]
  BY <1>5 DEF FreePage
<1>7. LiveMapped' /\ LiveApart'
  BY <1>3, <1>4, <1>6
     DEF LiveInv, LiveMapped, LiveApart, Mapped, NotLive, Pages
<1>8. call'.op = "free" /\ (\/ call'.left = 0 /\ call'.page = v
                            \/ call'.left = call.left - 1
                               /\ call'.page = Wrap(v + 1))
  BY <1>1 DEF FreePage, Moved
<1>9. FreeOnTheWay'
  <2>1. CASE call'.left = 0
    <3>1. call'.page \in Nat
      BY <1>1, <1>3, <1>8, NextPage
    <3>2. call'.page .. (call'.page + call'.left - 1) = {}
      BY <2>1, <3>1
    <3>3. QED
      BY <3>2 DEF FreeOnTheWay
  <2>2. CASE call'.left # 0
    <3> HIDE DEF v
    <3>1. call'.left = call.left - 1 /\ call'.page = Wrap(v + 1)
      BY <1>8, <2>2
    <3>2. v + 1 \in v .. (v + call.left - 1)
      BY <1>1, <2>2, <3>1
    <3>3. v + 1 \in VPages
      BY <1>2, <3>2 DEF v
    <3>4. Wrap(v + 1) = v + 1
      BY <3>3, ConstantsAssumption DEF Wrap, VPages
    <3>5. \A w \in (v + 1) .. ((v + 1) + (call.left - 1) - 1) :
              w \in v .. (v + call.left - 1)
      BY <1>1
    <3>6. \A w \in call'.page .. (call'.page + call'.left - 1) :
              w \in VPages /\ NotLive(w)
      BY <1>2, <3>1, <3>4, <3>5 DEF v
    <3>7. QED
      BY <1>4, <3>6 DEF FreeOnTheWay, NotLive, Pages
  <2>3. QED
    BY <2>1, <2>2
<1>10. MallocOnTheWay'
  BY <1>8 DEF MallocOnTheWay
<1>11. QED
  BY <1>7, <1>9, <1>10 DEF LiveInv

LEMMA LiveStep == TypeOK /\ TablesAgree /\ LiveInv /\ [Next]_vars => LiveInv'
<1> SUFFICES ASSUME TypeOK, TablesAgree, LiveInv, [Next]_vars PROVE LiveInv'
  OBVIOUS
<1>1. ASSUME NEW n \in Sizes, MallocBegin(n)
      PROVE  LiveInv'
  BY <1>1, LiveMallocBegin
<1>2. CASE MallocPage
  BY <1>2, LiveMallocPage
<1>3. CASE MallocEnd
  BY <1>3, LiveMallocEnd
<1>4. ASSUME NEW n \in Sizes, NEW v \in VPages, NEW o \in Offsets,
             FreeBegin(v, o, n)
      PROVE  LiveInv'
  BY <1>4, LiveFreeBegin
<1>5. CASE FreePage
  BY <1>5, LiveFreePage
<1>6. CASE FreeEnd
  BY <1>6, LiveUndisturbed, NoCallTypes DEF FreeEnd, tableVars
<1>7. ASSUME NEW n \in Sizes, NEW v \in VPages, NEW o \in Offsets,
             NEW d \in [1..n -> Bytes], PutBegin(v, o, d)
      PROVE  LiveInv'
  BY <1>7, LiveUndisturbed DEF PutBegin, NoCall, tableVars
<1>8. CASE PutPage
  BY <1>8, LiveUndisturbed, NoCallTypes
     DEF PutPage, DataReturns, Moved, tableVars
<1>9. CASE PutEnd
  BY <1>9, LiveUndisturbed, NoCallTypes DEF PutEnd, DataReturns, tableVars
<1>10. ASSUME NEW n \in Sizes, NEW v \in VPages, NEW o \in Offsets,
              GetBegin(v, o, n)
       PROVE  LiveInv'
  BY <1>10, LiveUndisturbed DEF GetBegin, NoCall, tableVars
<1>11. CASE GetPage
  BY <1>11, LiveUndisturbed, NoCallTypes
     DEF GetPage, DataReturns, Moved, tableVars
<1>12. CASE GetEnd
  BY <1>12, LiveUndisturbed, NoCallTypes DEF GetEnd, DataReturns, tableVars
<1>13. CASE UNCHANGED vars
  BY <1>13, LiveUndisturbed DEF vars, tableVars
<1>14. QED
  BY <1>1, <1>2, <1>3, <1>4, <1>5, <1>6, <1>7, <1>8, <1>9, <1>10, <1>11,
     <1>12, <1>13 DEF Next

LEMMA LiveInit == Init => LiveInv
  BY NoCallTypes DEF Init, LiveInv, LiveMapped, LiveApart, MallocOnTheWay,
                     FreeOnTheWay, NoCall

\* Two live allocations have no page in common, and two pages no frame.
LEMMA LiveDisjoint == TablesAgree /\ LiveInv => AllocationsDisjoint
<1> SUFFICES ASSUME TablesAgree, LiveInv, Clients # "any"
             PROVE  /\ \A a \in live : 0 \notin Frames(a)
                    /\ \A a, b \in live : a # b =>
                          /\ Pages(a) \cap Pages(b) = {}
                          /\ Frames(a) \cap Frames(b) = {}
  BY DEF AllocationsDisjoint
<1>1. \A a \in live : 0 \notin Frames(a)
  BY DEF LiveInv, LiveMapped, Mapped, Frames
<1>2. ASSUME NEW a \in live, NEW b \in live, a # b
      PROVE  Pages(a) \cap Pages(b) = {} /\ Frames(a) \cap Frames(b) = {}
  <2>1. Pages(a) \cap Pages(b) = {}
    BY <1>2 DEF LiveInv, LiveApart
  <2>2. SUFFICES ASSUME NEW v \in Pages(a), NEW w \in Pages(b),
                        page_table[v] = page_table[w]
                 PROVE  FALSE
    BY <2>1 DEF Frames
  <2>3. Mapped(v) /\ Mapped(w)
    BY DEF LiveInv, LiveMapped
  <2>4. v = w
    BY <2>2, <2>3 DEF Mapped, TablesAgree, FramesNotShared
  <2>5. QED
    BY <2>1, <2>4
<1>3. QED
  BY <1>1, <1>2

\* Live allocations are mapped whole and overlap nowhere, in the address space
\* and in physical memory, for every size of memory and every client that
\* frees what it was given, once (my_vm.c:271-274).
THEOREM AllocationsNeverOverlap == Spec => []AllocationsDisjoint
<1>1. Init => TypeOK /\ TablesAgree /\ LiveInv
  BY TypeInit, TablesInit, LiveInit
<1>2. TypeOK /\ TablesAgree /\ LiveInv /\ [Next]_vars
        => (TypeOK /\ TablesAgree /\ LiveInv)'
  BY TypeStep, TablesStep, LiveStep
<1>3. QED
  BY <1>1, <1>2, LiveDisjoint, PTL DEF Spec

-----------------------------------------------------------------------------
(***************************************************************************)
(* Nothing undefined                                                       *)
(***************************************************************************)

\* Why aligned clients are safe: their accesses have no offset, and they have
\* nothing to free before the first n_malloc.
AlignedInv ==
    Clients = "aligned" =>
        /\ fault = "none"
        /\ call.op \in {"put", "get"} => call.off = 0
        /\ ~inited => live = {} /\ call.op # "malloc"

\* A page's worth of bytes from the start of a frame is in physical memory.
LEMMA FrameInMemory ==
    ASSUME NEW p \in PPages, NEW n \in Nat, n <= PGSIZE
    PROVE  ~(p * PGSIZE + n > num_physical_pages * PGSIZE)
<1> DEFINE np == num_physical_pages
<1>1. p \in Nat /\ np \in Nat /\ p + 1 <= np /\ PGSIZE \in Nat
  BY ConstantsAssumption DEF PPages
<1>2. (p + 1) * PGSIZE <= np * PGSIZE
  <2>1. PICK d \in Nat : np = (p + 1) + d
    <3>1. np - (p + 1) \in Nat /\ np = (p + 1) + (np - (p + 1))
      BY <1>1
    <3>2. QED
      BY <3>1
  <2>2. np * PGSIZE = (p + 1) * PGSIZE + d * PGSIZE /\ d * PGSIZE \in Nat
    BY <1>1, <2>1, Z3T(30)
  <2>3. (p + 1) * PGSIZE \in Nat
    BY <1>1, Z3T(30)
  <2>4. QED
    BY <2>2, <2>3
<1>3. (p + 1) * PGSIZE = p * PGSIZE + PGSIZE /\ p * PGSIZE \in Nat
      /\ np * PGSIZE \in Nat
  BY <1>1, Z3T(30)
<1>4. QED
  BY <1>1, <1>2, <1>3

\* Without an offset translate gives the start of a frame, with a TLB hit or
\* a walk, or 0.
LEMMA TranslateAligned ==
    ASSUME TypeOK, NEW v \in VPages
    PROVE  \E p \in PPages : translate(v, 0) = p * PGSIZE
<1>1. TLB_check(v) \in PPages /\ page_table[v] \in PPages /\ 0 \in PPages
  BY ConstantsAssumption, LookupTypes DEF TypeOK, PPages
<1>2. page_table[v] * PGSIZE \in Nat
  BY <1>1, ConstantsAssumption, Z3T(30) DEF PPages
<1>3. page_table[v] * PGSIZE + 0 = page_table[v] * PGSIZE
  BY <1>2
<1>4. 0 = 0 * PGSIZE
  BY ConstantsAssumption
<1>5. QED
  BY <1>1, <1>3, <1>4 DEF translate

\* So no chunk that starts there leaves memory.
LEMMA ChunkInMemory ==
    ASSUME TypeOK, NEW v \in VPages, NEW left \in Nat
    PROVE  ~(translate(v, 0) + Chunk(left) > num_physical_pages * PGSIZE)
<1>1. PICK p \in PPages : translate(v, 0) = p * PGSIZE
  BY TranslateAligned
<1>2. Chunk(left) \in Nat /\ Chunk(left) <= PGSIZE
  BY ConstantsAssumption DEF Chunk
<1>3. QED
  BY <1>1, <1>2, FrameInMemory

LEMMA AlignedStep == TypeOK /\ AlignedInv /\ [Next]_vars => AlignedInv'
<1> SUFFICES ASSUME TypeOK, AlignedInv, [Next]_vars, Clients = "aligned"
             PROVE  /\ fault' = "none"
                    /\ call'.op \in {"put", "get"} => call'.off = 0
                    /\ ~inited' => live' = {} /\ call'.op # "malloc"
  BY DEF AlignedInv
<1> DEFINE Goal == /\ fault' = "none"
                   /\ call'.op \in {"put", "get"} => call'.off = 0
                   /\ ~inited' => live' = {} /\ call'.op # "malloc"
<1>0. /\ fault = "none"
      /\ call.op \in {"put", "get"} => call.off = 0
      /\ ~inited => live = {} /\ call.op # "malloc"
  BY DEF AlignedInv
<1>1. ASSUME NEW n \in Sizes, MallocBegin(n)
      PROVE  Goal
  BY <1>0, <1>1, NoCallTypes
     DEF MallocBegin, set_physical_mem, MallocReturns, NoCall
<1>2. CASE MallocPage
  BY <1>0, <1>2, NoCallTypes DEF MallocPage, MallocReturns, Moved
<1>3. CASE MallocEnd
  BY <1>0, <1>3, NoCallTypes DEF MallocEnd, MallocReturns, tableVars
<1>4. ASSUME NEW n \in Sizes, NEW v \in VPages, NEW o \in Offsets,
             FreeBegin(v, o, n)
      PROVE  Goal
  <2>1. live # {}
    BY <1>4 DEF FreeBegin, MayFree
  <2>2. inited
    BY <1>0, <2>1
  <2>3. QED
    BY <1>0, <1>4, <2>2 DEF FreeBegin, Idle, NoCall, tableVars
<1>5. CASE FreePage
  BY <1>0, <1>5 DEF FreePage, Moved
<1>6. CASE FreeEnd
  BY <1>0, <1>6, NoCallTypes DEF FreeEnd, tableVars
<1>7. ASSUME NEW n \in Sizes, NEW v \in VPages, NEW o \in Offsets,
             NEW d \in [1..n -> Bytes], PutBegin(v, o, d)
      PROVE  Goal
  BY <1>0, <1>7 DEF PutBegin, Idle, Access, NoCall, tableVars
<1>8. CASE PutPage
  <2>1. call.page \in VPages /\ Len(call.data) \in Nat /\ call.off = 0
    BY <1>0, <1>8 DEF PutPage, TypeOK, CallType
  <2>2. ~(translate(call.page, call.off) + Chunk(Len(call.data))
            > num_physical_pages * PGSIZE)
    BY <2>1, ChunkInMemory
  <2>3. QED
    BY <1>0, <1>8, <2>2, NoCallTypes DEF PutPage, DataReturns, Moved, tableVars
<1>9. CASE PutEnd
  BY <1>0, <1>9, NoCallTypes DEF PutEnd, DataReturns, tableVars
<1>10. ASSUME NEW n \in Sizes, NEW v \in VPages, NEW o \in Offsets,
              GetBegin(v, o, n)
       PROVE  Goal
  BY <1>0, <1>10 DEF GetBegin, Idle, Access, NoCall, tableVars
<1>11. CASE GetPage
  <2>1. call.page \in VPages /\ call.left \in Nat /\ call.off = 0
    BY <1>0, <1>11 DEF GetPage, TypeOK, CallType
  <2>2. ~(translate(call.page, call.off) + Chunk(call.left)
            > num_physical_pages * PGSIZE)
    BY <2>1, ChunkInMemory
  <2>3. QED
    BY <1>0, <1>11, <2>2, NoCallTypes DEF GetPage, DataReturns, Moved, tableVars
<1>12. CASE GetEnd
  BY <1>0, <1>12, NoCallTypes DEF GetEnd, DataReturns, tableVars
<1>13. CASE UNCHANGED vars
  BY <1>0, <1>13 DEF vars, tableVars
<1>14. QED
  BY <1>1, <1>2, <1>3, <1>4, <1>5, <1>6, <1>7, <1>8, <1>9, <1>10, <1>11,
     <1>12, <1>13 DEF Next

\* Clients that free what they got, once, and access it from the start of a
\* page on never get to undefined behaviour: no copy leaves physical memory,
\* and no n_free finds the page directory missing (my_vm.c:508, 563-570).
THEOREM AlignedClientsAreSafe == Spec => []AlignedNeverUndefined
<1>1. Init => TypeOK /\ AlignedInv
  BY TypeInit, NoCallTypes DEF Init, AlignedInv, NoCall
<1>2. TypeOK /\ AlignedInv /\ [Next]_vars => (TypeOK /\ AlignedInv)'
  BY TypeStep, AlignedStep
<1>3. AlignedInv => AlignedNeverUndefined
  BY DEF AlignedInv, AlignedNeverUndefined
<1>4. QED
  BY <1>1, <1>2, <1>3, PTL DEF Spec
=============================================================================
