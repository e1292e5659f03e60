----------------------------- MODULE MyVmProofs -----------------------------
(***************************************************************************)
(* Proofs about my_vm.c for every size of memory, page, table and TLB, and *)
(* for clients that call anything with any address.                        *)
(***************************************************************************)
EXTENDS MyVmRefinement, TLAPS, WellFoundedInduction

-----------------------------------------------------------------------------
(***************************************************************************)
(* Arithmetic                                                              *)
(***************************************************************************)

\* Every non-empty set of numbers has a least element, which LeastOf is.
LEMMA LeastElement ==
    ASSUME NEW S, S \subseteq Nat, S # {}
    PROVE  LeastOf(S) \in S /\ \A y \in S : LeastOf(S) <= y
<1> DEFINE R == {ss \in Nat \X Nat : ss[1] < ss[2]}
<1>1. IsWellFoundedOn(R, Nat)
  BY NatLessThanWellFounded, Zenon DEF OpToRel
<1>2. PICK x \in S : \A y \in S : ~(<<y, x>> \in R)
  <2> HIDE DEF R
  <2> QED  BY <1>1, WFMin
<1>3. ASSUME NEW y \in S
      PROVE  x <= y
  <2>1. x \in Nat /\ y \in Nat /\ <<y, x>> \notin R
    BY <1>2
  <2>2. <<y, x>> \in R <=> y < x
    BY <2>1
  <2>3. QED
    BY <2>1, <2>2
<1>4. QED
  BY <1>3 DEF LeastOf

\* A page has a place in the TLB, and pages wrap inside the address space.
LEMMA IndexRange ==
    \A v \in Nat : /\ TlbIndex(v) \in 0 .. (TLB_ENTRIES - 1)
                   /\ Wrap(v) \in VPages
  BY ConstantsAssumption DEF TlbIndex, Wrap, VPages

LEMMA NextPage ==
    ASSUME NEW v \in VPages
    PROVE  v + 1 \in Nat /\ Wrap(v + 1) \in VPages /\ Wrap(v + 1) \in Nat
<1>1. v + 1 \in Nat /\ VPages \subseteq Nat
  BY ConstantsAssumption DEF VPages
<1>2. QED
  BY <1>1, IndexRange

\* The bytes of a call take up a natural number of pages, and a page number
\* has a place in the page directory.
LEMMA DivisionNat ==
    \A n \in Nat : PageCount(n) \in Nat /\ page_dir_index(n) \in Nat
  BY ConstantsAssumption DEF PageCount, page_dir_index

\* The frame of a physical address.
LEMMA FrameOfAddress ==
    ASSUME NEW p \in Nat, NEW o \in Offsets
    PROVE  /\ p * PGSIZE \in Nat
           /\ (p * PGSIZE) \div PGSIZE = p
           /\ p * PGSIZE + o \in Nat
           /\ (p * PGSIZE + o) \div PGSIZE = p
<1>1. p * PGSIZE \in Nat
  BY ConstantsAssumption, Z3T(30)
<1>2. (p * PGSIZE) \div PGSIZE = p
  BY ConstantsAssumption, Z3T(30)
<1>3. p * PGSIZE + o \in Nat /\ (p * PGSIZE + o) \div PGSIZE = p
  BY ConstantsAssumption, Z3T(30) DEF Offsets
<1>4. QED
  BY <1>1, <1>2, <1>3

-----------------------------------------------------------------------------
(***************************************************************************)
(* Types                                                                   *)
(***************************************************************************)

\* What the searches and translate return.
LEMMA LookupTypes ==
    ASSUME TypeOK
    PROVE  /\ get_next_avail_physical \in PPages
           /\ \A n \in Nat : get_next_avail_virtual(n) \in VPages
           /\ \A v \in VPages :
                 /\ TLB_check(v) \in PPages
                 /\ TlbAfterTranslate(v) \in [0 .. (TLB_ENTRIES - 1) -> TlbType]
                 /\ \A p \in PPages :
                       TLB_add(v, p) \in [0 .. (TLB_ENTRIES - 1) -> TlbType]
                 /\ \A o \in Offsets : translate(v, o) \in Nat
<1> USE ConstantsAssumption
<1>1. /\ 0 \in PPages /\ 0 \in VPages
      /\ PPages \subseteq Nat /\ VPages \subseteq Nat
  BY DEF PPages, VPages
<1>2. get_next_avail_physical \in PPages
  <2>1. FreeFrames \subseteq Nat /\ FreeFrames \subseteq PPages
    BY <1>1 DEF FreeFrames
  <2>2. QED
    BY <1>1, <2>1, LeastElement DEF get_next_avail_physical
<1>3. ASSUME NEW n \in Nat
      PROVE  get_next_avail_virtual(n) \in VPages
  <2>1. FreeRuns(n) \subseteq Nat /\ FreeRuns(n) \subseteq VPages
    BY <1>1 DEF FreeRuns
  <2>2. QED
    BY <1>1, <2>1, LeastElement DEF get_next_avail_virtual
<1>4. ASSUME NEW v \in VPages
      PROVE  /\ TLB_check(v) \in PPages
             /\ \A p \in PPages :
                   TLB_add(v, p) \in [0 .. (TLB_ENTRIES - 1) -> TlbType]
             /\ TlbAfterTranslate(v) \in [0 .. (TLB_ENTRIES - 1) -> TlbType]
             /\ \A o \in Offsets : translate(v, o) \in Nat
  <2>1. TlbIndex(v) \in 0 .. (TLB_ENTRIES - 1)
    BY <1>1, IndexRange
  <2>2. TLB_check(v) \in PPages
    BY <1>1, <2>1 DEF TypeOK, TLB_check, TlbType
  <2>3. ASSUME NEW p \in PPages
        PROVE  TLB_add(v, p) \in [0 .. (TLB_ENTRIES - 1) -> TlbType]
    BY <2>1 DEF TypeOK, TLB_add, TlbType
  <2>4. page_table[v] \in PPages
    BY DEF TypeOK
  <2>5. TlbAfterTranslate(v) \in [0 .. (TLB_ENTRIES - 1) -> TlbType]
    BY <2>3, <2>4 DEF TypeOK, TlbAfterTranslate
  <2>6. ASSUME NEW o \in Offsets
        PROVE  translate(v, o) \in Nat
    <3>1. page_table[v] * PGSIZE + o \in Nat
      BY <1>1, <2>4, FrameOfAddress
    <3>2. TLB_check(v) * PGSIZE \in Nat
      BY <1>1, <2>2, FrameOfAddress
    <3>3. QED
      BY <3>1, <3>2 DEF translate
  <2>7. QED
    BY <2>2, <2>3, <2>5, <2>6
<1>5. QED
  BY <1>2, <1>3, <1>4

\* Each action keeps the types.
LEMMA TypeInit == Init => TypeOK
<1> SUFFICES ASSUME Init PROVE TypeOK
  OBVIOUS
<1>1. 0 \in PPages /\ 0 \in VPages /\ 0 \in Offsets
  BY ConstantsAssumption DEF PPages, VPages, Offsets
<1>2. tlb \in [0 .. (TLB_ENTRIES - 1) -> TlbType]
  BY <1>1 DEF Init, TlbType
<1>3. memory \in [PhysBytes -> Cell]
  BY DEF Init, Cell
<1>4. QED
  BY <1>1, <1>2, <1>3 DEF Init, TypeOK, NoCall, NoRet

LEMMA NoCallTypes == /\ NoCall \in CallType /\ NoCall.op = "none"
                     /\ NoCall.page \in VPages /\ NoRet \in RetType
<1>1. 0 \in VPages /\ 0 \in Offsets
  BY ConstantsAssumption DEF VPages, Offsets
<1>2. QED
  BY <1>1 DEF NoCall, NoRet, CallType, RetType, Ops

\* A call that moves to another page is still a call.
LEMMA CallMoves ==
    ASSUME TypeOK,
           NEW page \in Nat, NEW left \in Nat, NEW data \in Seq(Cell)
    PROVE  /\ Moved(page, left, data) \in CallType
           /\ Moved(page, left, data).op = call.op
           /\ Moved(page, left, data).page = page
           /\ Moved(page, left, data).left = left
           /\ Moved(page, left, data).data = data
  BY DEF TypeOK, Moved, CallType

LEMMA TypeStep == TypeOK /\ [Next]_vars => TypeOK'
<1> SUFFICES ASSUME TypeOK, [Next]_vars PROVE TypeOK'
  OBVIOUS
<1> USE ConstantsAssumption
<1>0. /\ 0 \in PPages /\ 0 \in VPages /\ 0 \in Offsets
      /\ PPages \subseteq Nat /\ VPages \subseteq Nat /\ Sizes \subseteq Nat
  BY DEF PPages, VPages, Offsets
<1>1. ASSUME NEW n \in Sizes, MallocBegin(n)
      PROVE  TypeOK'
  <2> DEFINE v == get_next_avail_virtual(PageCount(n))
  <2>1. PageCount(n) \in Nat /\ n \in Nat
    BY <1>0, DivisionNat
  <2>2. v \in VPages /\ (v # 0 => v + PageCount(n) <= num_virtual_pages)
    <3>1. FreeRuns(PageCount(n)) \subseteq VPages
      BY DEF FreeRuns
    <3>2. FreeRuns(PageCount(n)) # {} => v \in FreeRuns(PageCount(n))
      BY <1>0, <3>1, LeastElement DEF get_next_avail_virtual
    <3>3. QED
      BY <1>0, <3>1, <3>2 DEF FreeRuns, get_next_avail_virtual
  <2>3. /\ physical_bitmap' \in [PPages -> BOOLEAN]
        /\ virtual_bitmap' \in [VPages -> BOOLEAN]
        /\ inited' \in BOOLEAN
    BY <1>0, <1>1 DEF TypeOK, MallocBegin, set_physical_mem, set_bit_at_index
  <2>4. CASE v = 0
    <3>1. ret' \in RetType
      BY <1>0, <1>1, <2>4, NoCallTypes
      DEF MallocBegin, MallocReturns, RetType, Ops
    <3>2. call' = NoCall
      BY <1>1, <2>4 DEF MallocBegin, MallocReturns
    <3>3. QED
      BY <1>1, <2>3, <3>1, <3>2, NoCallTypes DEF TypeOK, MallocBegin
  <2>5. CASE v # 0
    <3>1. call' = [NoCall EXCEPT !.op = "malloc", !.page = v,
                     !.left = PageCount(n), !.bytes = n, !.first = v]
      BY <1>1, <2>5 DEF MallocBegin
    <3>2. call' \in CallType /\ call'.op = "malloc" /\ call'.page = v
             /\ call'.left = PageCount(n)
      BY <1>0, <2>1, <2>2, <3>1, NoCallTypes DEF CallType, Ops
    <3>3. QED
      BY <1>1, <2>2, <2>3, <2>5, <3>2 DEF TypeOK, MallocBegin
  <2>6. QED
    BY <2>4, <2>5
<1>2. CASE MallocPage
  <2> DEFINE v == call.page
             p == get_next_avail_physical
  <2>1. p \in PPages /\ call \in CallType /\ call.op = "malloc"
    BY <1>2, LookupTypes DEF TypeOK, MallocPage
  <2>2. v \in VPages /\ call.left \in Nat \ {0}
    BY <1>2, <2>1 DEF TypeOK, MallocPage, CallType, VPages
  <2>3. tables' \subseteq Nat
    <3>1. v \in Nat
      BY <2>2 DEF VPages
    <3>2. page_dir_index(v) \in Nat
      BY <3>1, DivisionNat
    <3>3. tables' = tables \/ tables' = tables \cup {page_dir_index(v)}
      BY <1>2 DEF MallocPage, map_page, set_bit_at_index
    <3>4. QED
      BY <3>2, <3>3 DEF TypeOK
  <2>4. CASE p = 0 \/ page_table[v] # 0
    <3>1. call' = NoCall /\ ret' = [NoRet EXCEPT !.op = "malloc", !.page = 0]
      BY <1>2, <2>4 DEF MallocPage, MallocReturns
    <3>2. ret' \in RetType
      BY <1>0, <3>1, NoCallTypes DEF RetType, Ops
    <3>3. UNCHANGED <<inited, physical_bitmap, virtual_bitmap, page_table, tlb,
                      memory, live, fault>>
      BY <1>2, <2>4 DEF MallocPage, map_page, set_bit_at_index
    <3>4. QED
      BY <2>3, <3>1, <3>2, <3>3, NoCallTypes DEF TypeOK
  <2>5. CASE p # 0 /\ page_table[v] = 0
    <3>1. /\ page_table' \in [VPages -> PPages]
          /\ physical_bitmap' \in [PPages -> BOOLEAN]
          /\ virtual_bitmap' \in [VPages -> BOOLEAN]
          /\ UNCHANGED <<inited, memory, live, fault, ret>>
      <4>1. /\ page_table' = [page_table EXCEPT ![v] = p]
            /\ virtual_bitmap' = [virtual_bitmap EXCEPT ![v] = TRUE]
            /\ physical_bitmap' = [physical_bitmap EXCEPT ![p] = TRUE]
            /\ UNCHANGED <<inited, memory, live, fault, ret>>
        BY <1>2, <2>5 DEF MallocPage, map_page, set_bit_at_index
      <4>2. QED
        BY <2>1, <4>1 DEF TypeOK
    <3>2. tlb' \in [0 .. (TLB_ENTRIES - 1) -> TlbType]
      BY <1>2, <2>1, <2>2, <2>5, LookupTypes
      DEF MallocPage, map_page, TypeOK
    <3>3. call' = Moved(v + 1, call.left - 1, call.data)
      BY <1>2, <2>5 DEF MallocPage
    <3>4. /\ call' \in CallType /\ call'.op = "malloc"
          /\ call'.page + call'.left = call.page + call.left
      <4>1. v + 1 \in Nat /\ v \in Nat /\ call.left - 1 \in Nat
        <5>1. v \in Nat
          BY <2>2 DEF VPages
        <5>2. QED
          BY <2>2, <5>1
      <4>2. call' \in CallType /\ call'.op = "malloc"
            /\ call'.page = v + 1 /\ call'.left = call.left - 1
        <5>1. call.data \in Seq(Cell)
          BY <2>1 DEF CallType
        <5>2. QED
          BY <2>1, <3>3, <4>1, <5>1, CallMoves
      <4>3. QED
        BY <2>2, <4>1, <4>2
    <3>5. QED
      BY <2>1, <2>3, <3>1, <3>2, <3>4 DEF TypeOK
  <2>6. QED
    BY <2>4, <2>5
<1>3. CASE MallocEnd
  <2>1. call \in CallType /\ call.first \in VPages /\ call.bytes \in Nat
    BY DEF TypeOK, CallType
  <2>2. call' = NoCall /\ ret' \in RetType
    BY <1>0, <1>3, <2>1, NoCallTypes
    DEF MallocEnd, MallocReturns, RetType, Ops
  <2>3. live' \subseteq Alloc
    BY <1>3, <2>1 DEF MallocEnd, TypeOK, Alloc, Tracked
  <2>4. QED
    BY <1>3, <2>2, <2>3, NoCallTypes DEF TypeOK, MallocEnd, tableVars
<1>4. ASSUME NEW n \in Sizes, NEW v \in VPages, NEW o \in Offsets,
             FreeBegin(v, o, n)
      PROVE  TypeOK'
  <2>1. PageCount(n) \in Nat
    BY <1>0, DivisionNat
  <2>2. call' \in CallType /\ call'.op # "malloc" /\ call'.page \in VPages
    <3>1. CASE call' = call
      BY <1>4, <3>1 DEF TypeOK, FreeBegin, Idle
    <3>2. CASE call' = [NoCall EXCEPT !.op = "free", !.page = v, !.off = o,
                          !.left = PageCount(n)]
      BY <1>0, <2>1, <3>2, NoCallTypes DEF CallType, Ops
    <3>3. QED
      BY <1>4, <3>1, <3>2 DEF FreeBegin
  <2>3. ret' \in RetType
    <3>1. CASE ret' = ret
      BY <3>1 DEF TypeOK
    <3>2. CASE ret' = [NoRet EXCEPT !.op = "free"]
      BY <3>2, NoCallTypes DEF RetType, Ops
    <3>3. QED
      BY <1>4, <3>1, <3>2 DEF FreeBegin
  <2>4. QED
    BY <1>4, <2>2, <2>3 DEF TypeOK, FreeBegin, tableVars
<1>5. CASE FreePage
  <2> DEFINE v == call.page
  <2>1. call \in CallType /\ v \in VPages /\ call.left \in Nat \ {0}
           /\ call.op = "free"
    BY <1>5 DEF TypeOK, FreePage, CallType
  <2>2. TlbAfterTranslate(v) \in [0 .. (TLB_ENTRIES - 1) -> TlbType]
    BY <2>1, LookupTypes
  <2>3. ASSUME NEW c \in [0 .. (TLB_ENTRIES - 1) -> TlbType]
        PROVE  TLB_remove(c, v) \in [0 .. (TLB_ENTRIES - 1) -> TlbType]
    BY DEF TLB_remove, TlbType
  <2>4. tlb' \in [0 .. (TLB_ENTRIES - 1) -> TlbType]
    BY <1>5, <2>2, <2>3 DEF FreePage
  <2>5. call' \in CallType /\ call'.op = "free" /\ call'.page \in VPages
    <3> call.data \in Seq(Cell) /\ v \in Nat /\ 0 \in Nat
      BY <1>0, <2>1 DEF CallType
    <3>1. CASE call' = Moved(v, 0, call.data)
      BY <2>1, <3>1, CallMoves
    <3>2. CASE call' = Moved(Wrap(v + 1), call.left - 1, call.data)
      <4>1. v + 1 \in Nat /\ call.left - 1 \in Nat
        BY <1>0, <2>1
      <4>2. Wrap(v + 1) \in VPages /\ Wrap(v + 1) \in Nat
        BY <1>0, <4>1, IndexRange
      <4>3. QED
        BY <2>1, <3>2, <4>1, <4>2, CallMoves
    <3>3. QED
      BY <1>5, <3>1, <3>2 DEF FreePage
  <2>6. /\ page_table' \in [VPages -> PPages]
        /\ physical_bitmap' \in [PPages -> BOOLEAN]
        /\ virtual_bitmap' \in [VPages -> BOOLEAN]
    BY <1>0, <1>5 DEF TypeOK, FreePage, clear_bit_at_index
  <2>7. QED
    BY <1>5, <2>4, <2>5, <2>6 DEF TypeOK, FreePage
<1>6. CASE FreeEnd
  <2>1. call' = NoCall /\ ret' \in RetType
    BY <1>6, NoCallTypes DEF FreeEnd, RetType, Ops
  <2>2. QED
    BY <1>6, <2>1, NoCallTypes DEF TypeOK, FreeEnd, tableVars
<1>7. ASSUME NEW n \in Sizes, NEW d \in [1..n -> Bytes],
             NEW v \in VPages, NEW o \in Offsets, PutBegin(v, o, d)
      PROVE  TypeOK'
  <2>1. d \in Seq(Cell)
    BY <1>0 DEF Cell
  <2>2. ret' \in RetType
    <3>1. CASE ret' = ret
      BY <3>1 DEF TypeOK
    <3>2. CASE ret' = [op |-> "put", page |-> v, off |-> o, ok |-> FALSE,
                       data |-> <<>>]
      BY <3>2 DEF RetType, Ops
    <3>3. QED
      BY <1>7, <3>1, <3>2 DEF PutBegin
  <2>3. call' \in CallType /\ call'.op # "malloc" /\ call'.page \in VPages
    <3>1. CASE call' = call
      BY <1>7, <3>1 DEF TypeOK, PutBegin, Idle
    <3>2. CASE call' = [NoCall EXCEPT !.op = "put", !.page = v, !.off = o,
                          !.first = v, !.data = d]
      BY <1>0, <2>1, <3>2, NoCallTypes DEF CallType, Ops
    <3>3. QED
      BY <1>7, <3>1, <3>2 DEF PutBegin
  <2>4. QED
    BY <1>7, <2>2, <2>3 DEF TypeOK, PutBegin, tableVars
<1>8. ASSUME NEW n \in Sizes, NEW v \in VPages, NEW o \in Offsets,
             GetBegin(v, o, n)
      PROVE  TypeOK'
  <2>1. ret' \in RetType
    <3>1. CASE ret' = ret
      BY <3>1 DEF TypeOK
    <3>2. CASE ret' = [op |-> "get", page |-> v, off |-> o, ok |-> FALSE,
                       data |-> <<>>]
      BY <3>2 DEF RetType, Ops
    <3>3. QED
      BY <1>8, <3>1, <3>2 DEF GetBegin
  <2>2. call' \in CallType /\ call'.op # "malloc" /\ call'.page \in VPages
    <3>1. CASE call' = call
      BY <1>8, <3>1 DEF TypeOK, GetBegin, Idle
    <3>2. CASE call' = [NoCall EXCEPT !.op = "get", !.page = v, !.off = o,
                          !.first = v, !.left = n]
      BY <1>0, <3>2, NoCallTypes DEF CallType, Ops
    <3>3. QED
      BY <1>8, <3>1, <3>2 DEF GetBegin
  <2>3. QED
    BY <1>8, <2>1, <2>2 DEF TypeOK, GetBegin, tableVars
<1>9. ASSUME NEW op \in {"put", "get"}, NEW ok \in BOOLEAN,
             NEW data \in Seq(Cell), DataReturns(op, ok, data)
      PROVE  call' = NoCall /\ ret' \in RetType
  <2>1. call.first \in VPages /\ call.off \in Offsets
    BY DEF TypeOK, CallType
  <2>2. QED
    BY <1>9, <2>1 DEF DataReturns, RetType, Ops
<1>10. CASE PutPage
  <2> DEFINE n  == Chunk(Len(call.data))
             pa == translate(call.page, call.off)
  <2>1. /\ call \in CallType /\ call.op = "put" /\ call.page \in VPages
        /\ call.data \in Seq(Cell) /\ call.off \in Offsets
    BY <1>10 DEF TypeOK, PutPage, CallType
  <2>2. n \in Nat /\ n <= Len(call.data)
    BY <2>1 DEF Chunk
  <2>3. pa \in Nat /\ tlb' \in [0 .. (TLB_ENTRIES - 1) -> TlbType]
    BY <1>10, <2>1, LookupTypes DEF PutPage
  <2>4. CASE DataReturns("put", FALSE, <<>>) /\ UNCHANGED <<memory, fault>>
    <3>1. call' = NoCall /\ ret' \in RetType
      <4>1. <<>> \in Seq(Cell) /\ FALSE \in BOOLEAN
        OBVIOUS
      <4>2. QED
        BY <1>9, <2>4, <4>1
    <3>2. QED
      BY <1>10, <2>3, <2>4, <3>1, NoCallTypes DEF TypeOK, PutPage, tableVars
  <2>5. CASE fault' = "wild_memcpy" /\ UNCHANGED <<memory, call, ret>>
    BY <1>10, <2>3, <2>5 DEF TypeOK, PutPage, tableVars
  <2>6. CASE /\ memory' = [b \in PhysBytes |->
                             IF b \in pa .. (pa + n - 1)
                               THEN call.data[b - pa + 1] ELSE memory[b]]
             /\ call' = Moved(Wrap(call.page + 1), call.left,
                              SubSeq(call.data, n + 1, Len(call.data)))
             /\ UNCHANGED <<ret, fault>>
    <3>1. ASSUME NEW b \in PhysBytes
          PROVE  (IF b \in pa .. (pa + n - 1)
                    THEN call.data[b - pa + 1] ELSE memory[b]) \in Cell
      <4>1. CASE b \in pa .. (pa + n - 1)
        <5>1. b - pa + 1 \in 1 .. Len(call.data)
          BY <2>1, <2>2, <2>3, <4>1
        <5>2. QED
          BY <2>1, <4>1, <5>1
      <4>2. CASE b \notin pa .. (pa + n - 1)
        BY <4>2 DEF TypeOK
      <4>3. QED
        BY <4>1, <4>2
    <3>2. memory' \in [PhysBytes -> Cell]
      BY <2>6, <3>1
    <3>3. Wrap(call.page + 1) \in VPages /\ Wrap(call.page + 1) \in Nat
      BY <2>1, NextPage
    <3>4. SubSeq(call.data, n + 1, Len(call.data)) \in Seq(Cell)
      BY <2>1, <2>2
    <3>5. call' \in CallType /\ call'.op = "put" /\ call'.page \in VPages
      <4> DEFINE rest == SubSeq(call.data, n + 1, Len(call.data))
                 w == Wrap(call.page + 1)
      <4>1. call.left \in Nat
        BY <2>1 DEF CallType
      <4>2. call' = Moved(w, call.left, rest)
        BY <2>6
      <4>3. rest \in Seq(Cell) /\ w \in VPages /\ w \in Nat
        BY <3>3, <3>4
      <4> HIDE DEF rest, w
      <4>4. QED
        BY <2>1, <4>1, <4>2, <4>3, CallMoves
    <3>6. QED
      BY <1>10, <2>3, <2>6, <3>2, <3>5 DEF TypeOK, PutPage, tableVars
  <2>7. QED
    BY <1>10, <2>4, <2>5, <2>6 DEF PutPage
<1>11. CASE PutEnd
  <2>1. <<>> \in Seq(Cell)
    OBVIOUS
  <2>2. call' = NoCall /\ ret' \in RetType
    BY <1>9, <1>11, <2>1 DEF PutEnd
  <2>3. QED
    BY <1>11, <2>2, NoCallTypes DEF TypeOK, PutEnd, tableVars
<1>12. CASE GetPage
  <2> DEFINE n  == Chunk(call.left)
             pa == translate(call.page, call.off)
             read == [i \in 1..n |-> memory[pa + i - 1]]
  <2>1. /\ call \in CallType /\ call.op = "get" /\ call.page \in VPages
        /\ call.data \in Seq(Cell) /\ call.off \in Offsets /\ call.left \in Nat
    BY <1>12 DEF TypeOK, GetPage, CallType
  <2>2. n \in Nat /\ call.left - n \in Nat
    BY <2>1 DEF Chunk
  <2>3. pa \in Nat /\ tlb' \in [0 .. (TLB_ENTRIES - 1) -> TlbType]
    BY <1>12, <2>1, LookupTypes DEF GetPage
  <2>4. CASE DataReturns("get", FALSE, call.data) /\ UNCHANGED fault
    <3>1. call' = NoCall /\ ret' \in RetType
      BY <1>9, <2>1, <2>4
    <3>2. QED
      BY <1>12, <2>3, <2>4, <3>1, NoCallTypes DEF TypeOK, GetPage, tableVars
  <2>5. CASE fault' = "wild_memcpy" /\ UNCHANGED <<call, ret>>
    BY <1>12, <2>3, <2>5 DEF TypeOK, GetPage, tableVars
  <2>6. CASE /\ pa + n <= num_physical_pages * PGSIZE
             /\ call' = Moved(Wrap(call.page + 1), call.left - n,
                              call.data \o read)
             /\ UNCHANGED <<ret, fault>>
    <3>1. num_physical_pages * PGSIZE \in Nat
      BY <1>0, FrameOfAddress
    <3>2. ASSUME NEW i \in 1..n
          PROVE  memory[pa + i - 1] \in Cell
      <4>1. pa + i - 1 \in PhysBytes
        BY <2>2, <2>3, <2>6, <3>1 DEF PhysBytes
      <4>2. QED
        BY <4>1 DEF TypeOK
    <3>3. read \in Seq(Cell)
      BY <2>2, <3>2
    <3>4. call.data \o read \in Seq(Cell)
      BY <2>1, <3>3
    <3>5. Wrap(call.page + 1) \in VPages /\ Wrap(call.page + 1) \in Nat
      BY <2>1, NextPage
    <3>6. call' \in CallType /\ call'.op = "get" /\ call'.page \in VPages
      <4> DEFINE data == call.data \o read
                 w == Wrap(call.page + 1)
                 left == call.left - n
      <4>1. call' = Moved(w, left, data)
        BY <2>6
      <4>2. data \in Seq(Cell) /\ w \in VPages /\ w \in Nat /\ left \in Nat
        BY <2>2, <3>4, <3>5
      <4> HIDE DEF data, w, left
      <4>3. QED
        BY <2>1, <4>1, <4>2, CallMoves
    <3>7. QED
      BY <1>12, <2>3, <2>6, <3>6 DEF TypeOK, GetPage, tableVars
  <2>7. QED
    <3>1. num_physical_pages * PGSIZE \in Nat
      BY <1>0, FrameOfAddress
    <3>2. pa + n \in Nat
      BY <2>2, <2>3
    <3> HIDE DEF n, pa
    <3>3. pa + n > num_physical_pages * PGSIZE
             \/ pa + n <= num_physical_pages * PGSIZE
      BY <3>1, <3>2
    <3> USE DEF n, pa
    <3>4. QED
      BY <1>12, <2>4, <2>5, <2>6, <3>3, Zenon DEF GetPage
<1>13. CASE GetEnd
  <2>1. call.data \in Seq(Cell)
    BY DEF TypeOK, CallType
  <2>2. call' = NoCall /\ ret' \in RetType
    BY <1>9, <1>13, <2>1 DEF GetEnd
  <2>3. QED
    BY <1>13, <2>2, NoCallTypes DEF TypeOK, GetEnd, tableVars
<1>14. CASE UNCHANGED vars
  BY <1>14 DEF TypeOK, vars, tableVars
<1>15. QED
  BY <1>1, <1>2, <1>3, <1>4, <1>5, <1>6, <1>7, <1>8, <1>10, <1>11, <1>12,
     <1>13, <1>14
  DEF Next

\* Every variable of my_vm.c's model keeps its type.
THEOREM TypeCorrect == Spec => []TypeOK
<1>1. QED
  BY TypeInit, TypeStep, PTL DEF Spec

-----------------------------------------------------------------------------
(***************************************************************************)
(* The tables agree                                                        *)
(***************************************************************************)

\* TlbCoherent of a given TLB and a given page table.
Coherent(cache, pt) ==
    \A i \in DOMAIN cache : cache[i].valid =>
        /\ TlbIndex(cache[i].virtual_page) = i
        /\ cache[i].physical_page = pt[cache[i].virtual_page]

TlbArrays   == [0 .. (TLB_ENTRIES - 1) -> TlbType]
PageTables  == [VPages -> PPages]

\* What the TLB answers is what the page table says.
LEMMA TlbAnswers ==
    ASSUME TypeOK, TlbCoherent, NEW v \in VPages, TLB_check(v) # 0
    PROVE  TLB_check(v) = page_table[v]
<1>1. TlbIndex(v) \in DOMAIN tlb
  <2>1. v \in Nat
    BY DEF VPages
  <2>2. QED
    BY <2>1, IndexRange DEF TypeOK
<1>2. QED
  BY <1>1 DEF TLB_check, TlbHit, TlbCoherent

\* The frame that FreePage computes is the frame of the page.
LEMMA TranslateFrame ==
    ASSUME TypeOK, TlbCoherent, NEW v \in VPages, NEW o \in Offsets,
           translate(v, o) # 0
    PROVE  translate(v, o) \div PGSIZE = page_table[v]
<1>1. page_table[v] \in Nat
  BY DEF TypeOK, PPages
<1>2. CASE Cached(v)
  <2>1. TLB_check(v) = page_table[v]
    BY <1>2, TlbAnswers DEF Cached
  <2>2. translate(v, o) = page_table[v] * PGSIZE
    BY <1>2, <2>1 DEF translate
  <2>3. QED
    BY <1>1, <2>2, FrameOfAddress
<1>3. CASE ~Cached(v)
  <2>1. translate(v, o) = page_table[v] * PGSIZE + o
    BY <1>3 DEF translate
  <2>2. QED
    BY <1>1, <2>1, FrameOfAddress
<1>4. QED
  BY <1>2, <1>3

\* Caching what the page table will say of v keeps the TLB coherent when the
\* other pages stay: v has one place in the TLB.
LEMMA CoherentAdd ==
    ASSUME TypeOK, TlbCoherent, NEW v \in VPages, NEW pt \in PageTables,
           \A w \in VPages \ {v} : pt[w] = page_table[w]
    PROVE  Coherent(TLB_add(v, pt[v]), pt)
<1> DEFINE cache == TLB_add(v, pt[v])
<1>1. TlbIndex(v) \in 0 .. (TLB_ENTRIES - 1)
  <2>1. v \in Nat
    BY DEF VPages
  <2>2. QED
    BY <2>1, IndexRange
<1>2. /\ DOMAIN cache = 0 .. (TLB_ENTRIES - 1)
      /\ cache[TlbIndex(v)] = [valid |-> TRUE, virtual_page |-> v,
                               physical_page |-> pt[v]]
      /\ \A i \in 0 .. (TLB_ENTRIES - 1) :
            i # TlbIndex(v) => cache[i] = tlb[i]
  BY <1>1 DEF TypeOK, TLB_add
<1>3. \A i \in 0 .. (TLB_ENTRIES - 1) : tlb[i].virtual_page \in VPages
  BY DEF TypeOK, TlbType
<1> HIDE DEF cache
<1>4. ASSUME NEW i \in 0 .. (TLB_ENTRIES - 1), cache[i].valid
      PROVE  /\ TlbIndex(cache[i].virtual_page) = i
             /\ cache[i].physical_page = pt[cache[i].virtual_page]
  <2>1. CASE i = TlbIndex(v)
    BY <1>2, <2>1
  <2>2. CASE i # TlbIndex(v)
    <3>1. /\ TlbIndex(tlb[i].virtual_page) = i
          /\ tlb[i].physical_page = page_table[tlb[i].virtual_page]
      BY <1>2, <1>4, <2>2 DEF TlbCoherent, TypeOK
    <3>2. tlb[i].virtual_page \in VPages \ {v}
      BY <1>3, <2>2, <3>1
    <3>3. QED
      BY <1>2, <2>2, <3>1, <3>2
  <2>3. QED
    BY <2>1, <2>2
<1>5. QED
  BY <1>2, <1>4 DEF Coherent, cache

LEMMA CoherentTranslate ==
    ASSUME TypeOK, TlbCoherent, NEW v \in VPages
    PROVE  /\ Coherent(TlbAfterTranslate(v), page_table)
           /\ TlbAfterTranslate(v) \in TlbArrays
<1>1. page_table \in PageTables
  BY DEF TypeOK, PageTables
<1>2. Coherent(TLB_add(v, page_table[v]), page_table)
  BY <1>1, CoherentAdd
<1>3. Coherent(tlb, page_table)
  BY DEF Coherent, TlbCoherent
<1>4. TlbAfterTranslate(v) \in TlbArrays
  BY LookupTypes DEF TlbArrays
<1>5. QED
  BY <1>2, <1>3, <1>4 DEF TlbAfterTranslate

\* After TLB_remove no entry is left for the page.
LEMMA CoherentRemove ==
    ASSUME NEW cache \in TlbArrays, NEW pt \in PageTables,
           Coherent(cache, pt), NEW v \in VPages
    PROVE  Coherent(TLB_remove(cache, v), [pt EXCEPT ![v] = 0])
<1> DEFINE after == TLB_remove(cache, v)
<1>1. TlbIndex(v) \in 0 .. (TLB_ENTRIES - 1)
  <2>1. v \in Nat
    BY DEF VPages
  <2>2. QED
    BY <2>1, IndexRange
<1>2. /\ DOMAIN after = 0 .. (TLB_ENTRIES - 1)
      /\ after[TlbIndex(v)].valid = FALSE
      /\ \A i \in 0 .. (TLB_ENTRIES - 1) :
            i # TlbIndex(v) => after[i] = cache[i]
  BY <1>1 DEF TlbArrays, TlbType, TLB_remove
<1>3. \A i \in 0 .. (TLB_ENTRIES - 1) : cache[i].virtual_page \in VPages
  BY DEF TlbArrays, TlbType
<1> HIDE DEF after
<1>4. ASSUME NEW i \in 0 .. (TLB_ENTRIES - 1), after[i].valid
      PROVE  /\ TlbIndex(after[i].virtual_page) = i
             /\ after[i].physical_page
                  = [pt EXCEPT ![v] = 0][after[i].virtual_page]
  <2>1. i # TlbIndex(v) /\ after[i] = cache[i]
    BY <1>2, <1>4
  <2>2. /\ TlbIndex(cache[i].virtual_page) = i
        /\ cache[i].physical_page = pt[cache[i].virtual_page]
    BY <1>4, <2>1 DEF Coherent, TlbArrays
  <2>3. cache[i].virtual_page \in VPages \ {v}
    BY <1>3, <2>1, <2>2
  <2>4. QED
    BY <2>1, <2>2, <2>3 DEF PageTables
<1>5. QED
  BY <1>2, <1>4 DEF Coherent, after

LEMMA TablesInit == Init => TablesAgree
<1> SUFFICES ASSUME Init PROVE TablesAgree
  OBVIOUS
<1>1. VirtualBitmapAgrees
  BY DEF Init, VirtualBitmapAgrees
<1>2. PhysicalBitmapAgrees
  BY DEF Init, PhysicalBitmapAgrees
<1>3. FramesNotShared /\ TablesExist
  BY ConstantsAssumption DEF Init, FramesNotShared, TablesExist, VPages
<1>4. TlbCoherent
  BY DEF Init, TlbCoherent
<1>5. PagesToMapAreFree
  BY DEF Init, PagesToMapAreFree, NoCall
<1>6. QED
  BY <1>1, <1>2, <1>3, <1>4, <1>5 DEF TablesAgree

\* Steps that leave the tables alone and start no n_malloc.
LEMMA TablesUndisturbed ==
    ASSUME TablesAgree, UNCHANGED tableVars, Coherent(tlb', page_table),
           call' = call \/ call'.op # "malloc"
    PROVE  TablesAgree'
<1>1. VirtualBitmapAgrees' /\ PhysicalBitmapAgrees'
  BY DEF TablesAgree, VirtualBitmapAgrees, PhysicalBitmapAgrees, tableVars
<1>2. FramesNotShared' /\ TablesExist'
  BY DEF TablesAgree, FramesNotShared, TablesExist, tableVars
<1>3. TlbCoherent'
  BY DEF TlbCoherent, Coherent, tableVars
<1>4. PagesToMapAreFree'
  BY DEF TablesAgree, PagesToMapAreFree, tableVars
<1>5. QED
  BY <1>1, <1>2, <1>3, <1>4 DEF TablesAgree

\* An n_malloc begins with a run of free pages.
LEMMA TablesMallocBegin ==
    ASSUME TypeOK, TablesAgree, NEW n \in Sizes, MallocBegin(n)
    PROVE  TablesAgree'
<1> DEFINE v == get_next_avail_virtual(PageCount(n))
<1>1. /\ \A w \in VPages \ {0} : virtual_bitmap'[w] = virtual_bitmap[w]
      /\ \A p \in PPages \ {0} : physical_bitmap'[p] = physical_bitmap[p]
      /\ UNCHANGED <<tables, page_table, tlb>>
  BY DEF MallocBegin, set_physical_mem, set_bit_at_index, TypeOK
<1>2. VirtualBitmapAgrees' /\ PhysicalBitmapAgrees'
  BY <1>1 DEF TablesAgree, VirtualBitmapAgrees, PhysicalBitmapAgrees
<1>3. FramesNotShared' /\ TablesExist' /\ TlbCoherent'
  BY <1>1 DEF TablesAgree, FramesNotShared, TablesExist, TlbCoherent
<1>4. PagesToMapAreFree'
  <2>1. CASE v = 0
    BY <2>1 DEF MallocBegin, MallocReturns, NoCall, PagesToMapAreFree
  <2>2. CASE v # 0
    <3>1. PageCount(n) \in Nat
      BY ConstantsAssumption, DivisionNat
    <3>2. FreeRuns(PageCount(n)) \subseteq Nat
      BY DEF FreeRuns, VPages
    <3>3. v \in FreeRuns(PageCount(n))
      BY <2>2, <3>2, LeastElement DEF get_next_avail_virtual
    <3>4. ASSUME NEW w \in v .. (v + PageCount(n) - 1)
          PROVE  w \in VPages \ {0} /\ page_table[w] = 0
      <4>1. /\ v \in VPages \ {0} /\ v + PageCount(n) <= num_virtual_pages
            /\ ~virtual_bitmap[w]
        BY <3>3, <3>4 DEF FreeRuns
      <4>2. w \in VPages \ {0}
        BY ConstantsAssumption, <3>1, <3>4, <4>1 DEF VPages
      <4>3. QED
        BY <4>1, <4>2 DEF TablesAgree, VirtualBitmapAgrees
    <3>5. call'.page = v /\ call'.left = PageCount(n)
      BY <2>2 DEF MallocBegin, NoCall
    <3>6. QED
      BY <1>1, <3>4, <3>5 DEF PagesToMapAreFree
  <2>3. QED
    BY <2>1, <2>2
<1>5. QED
  BY <1>2, <1>3, <1>4 DEF TablesAgree

\* A page is mapped to a frame that no page has.
LEMMA TablesMallocPage ==
    ASSUME TypeOK, TablesAgree, MallocPage
    PROVE  TablesAgree'
<1> DEFINE v == call.page
           p == get_next_avail_physical
<1>1. /\ call.op = "malloc" /\ call.left \in Nat \ {0} /\ v \in Nat
      /\ v \in VPages \ {0} /\ page_table[v] = 0
  <2>1. call.op = "malloc" /\ call.left \in Nat \ {0} /\ v \in Nat
    BY DEF MallocPage, TypeOK, CallType
  <2>2. v \in v .. (v + call.left - 1)
    BY <2>1
  <2>3. QED
    BY <2>1, <2>2 DEF TablesAgree, PagesToMapAreFree
<1>2. tables \subseteq tables'
  BY DEF MallocPage, map_page, set_bit_at_index
<1>3. CASE p = 0
  <2>1. /\ UNCHANGED <<tables, page_table, physical_bitmap, virtual_bitmap,
                       tlb, inited>>
        /\ call' = NoCall
    BY <1>3 DEF MallocPage, MallocReturns
  <2>2. Coherent(tlb', page_table)
    BY <2>1 DEF TablesAgree, TlbCoherent, Coherent
  <2>3. QED
    BY <2>1, <2>2, TablesUndisturbed DEF NoCall, tableVars
<1>4. CASE p # 0
  <2>1. /\ page_table' = [page_table EXCEPT ![v] = p]
        /\ tlb' = IF Cached(v) THEN tlb ELSE TLB_add(v, p)
        /\ virtual_bitmap' = [virtual_bitmap EXCEPT ![v] = TRUE]
        /\ physical_bitmap' = [physical_bitmap EXCEPT ![p] = TRUE]
        /\ call' = Moved(v + 1, call.left - 1, call.data)
        /\ tables' = tables \cup {page_dir_index(v)}
    BY <1>1, <1>4 DEF MallocPage, map_page, set_bit_at_index
  <2>2. /\ p \in PPages \ {0} /\ ~physical_bitmap[p]
        /\ \A w \in VPages : page_table[w] # p
    <3>1. FreeFrames \subseteq Nat
      BY DEF FreeFrames, PPages
    <3>2. p \in FreeFrames
      BY <1>4, <3>1, LeastElement DEF get_next_avail_physical
    <3>3. QED
      BY <3>2 DEF FreeFrames, TablesAgree, PhysicalBitmapAgrees
  <2>3. /\ page_table'[v] = p
        /\ \A w \in VPages \ {v} : page_table'[w] = page_table[w]
        /\ page_table' \in PageTables
    BY <1>1, <2>1, <2>2 DEF TypeOK, PageTables
  <2>4. VirtualBitmapAgrees'
    BY <1>1, <2>1, <2>2, <2>3 DEF TablesAgree, VirtualBitmapAgrees, TypeOK
  <2>5. PhysicalBitmapAgrees'
    <3>1. ASSUME NEW q \in PPages \ {0}
          PROVE  physical_bitmap'[q] <=> \E w \in VPages : page_table'[w] = q
      <4>1. CASE q = p
        BY <1>1, <2>1, <2>2, <2>3, <4>1 DEF TypeOK
      <4>2. CASE q # p
        <5>1. physical_bitmap'[q] = physical_bitmap[q]
          BY <2>1, <4>2 DEF TypeOK
        <5>2. \A w \in VPages : page_table'[w] = q <=> page_table[w] = q
          BY <1>1, <2>3, <4>2
        <5>3. QED
          BY <5>1, <5>2 DEF TablesAgree, PhysicalBitmapAgrees
      <4>3. QED
        BY <4>1, <4>2
    <3>2. QED
      BY <3>1 DEF PhysicalBitmapAgrees
  <2>6. FramesNotShared'
    BY <1>1, <2>2, <2>3 DEF TablesAgree, FramesNotShared
  <2>7. TablesExist'
    BY <1>1, <2>1, <2>3, ConstantsAssumption
    DEF TablesAgree, TablesExist, VPages
  <2>8. TlbCoherent'
    <3>1. ~Cached(v)
      BY <1>1, TlbAnswers DEF TablesAgree, Cached
    <3>2. Coherent(TLB_add(v, page_table'[v]), page_table')
      BY <1>1, <2>3, CoherentAdd DEF TablesAgree
    <3>3. QED
      BY <2>1, <2>3, <3>1, <3>2 DEF TlbCoherent, Coherent
  <2>9. PagesToMapAreFree'
    <3>1. call'.page = v + 1 /\ call'.left = call.left - 1
      BY <2>1 DEF Moved
    <3>2. ASSUME NEW w \in (v + 1) .. (v + 1 + (call.left - 1) - 1)
          PROVE  w \in v .. (v + call.left - 1) /\ w # v
      BY <1>1
    <3>3. QED
      BY <1>1, <2>3, <3>1, <3>2 DEF TablesAgree, PagesToMapAreFree
  <2>10. QED
    BY <2>4, <2>5, <2>6, <2>7, <2>8, <2>9 DEF TablesAgree
<1>5. QED
  BY <1>3, <1>4

\* A page is released with the frame it had; what becomes of the bit of
\* frame 0 does not matter.
LEMMA TablesReleasePage ==
    ASSUME TypeOK, TablesAgree, NEW v \in VPages,
           page_table' = [page_table EXCEPT ![v] = 0],
           virtual_bitmap' = [virtual_bitmap EXCEPT ![v] = FALSE],
           \A q \in PPages \ {0} :
              physical_bitmap'[q] <=> physical_bitmap[q] /\ q # page_table[v],
           tables' = tables, call'.op # "malloc",
           Coherent(tlb', page_table')
    PROVE  TablesAgree'
<1>1. /\ page_table'[v] = 0
      /\ \A w \in VPages \ {v} : page_table'[w] = page_table[w]
  BY DEF TypeOK
<1>2. VirtualBitmapAgrees'
  BY <1>1 DEF TablesAgree, VirtualBitmapAgrees, TypeOK
<1>3. PhysicalBitmapAgrees'
  <2>1. ASSUME NEW q \in PPages \ {0}
        PROVE  physical_bitmap'[q] <=> \E w \in VPages : page_table'[w] = q
    <3>1. CASE q = page_table[v]
      <4>1. \A w \in VPages : page_table'[w] # q
        BY <1>1, <3>1 DEF TablesAgree, FramesNotShared
      <4>2. QED
        BY <3>1, <4>1
    <3>2. CASE q # page_table[v]
      <4>1. \A w \in VPages : page_table'[w] = q <=> page_table[w] = q
        BY <1>1, <3>2
      <4>2. QED
        BY <3>2, <4>1 DEF TablesAgree, PhysicalBitmapAgrees
    <3>3. QED
      BY <3>1, <3>2
  <2>2. QED
    BY <2>1 DEF PhysicalBitmapAgrees
<1>4. FramesNotShared'
  BY <1>1 DEF TablesAgree, FramesNotShared
<1>5. TablesExist'
  BY <1>1, ConstantsAssumption DEF TablesAgree, TablesExist, VPages
<1>6. TlbCoherent'
  BY DEF TlbCoherent, Coherent
<1>7. PagesToMapAreFree'
  BY DEF PagesToMapAreFree
<1>8. QED
  BY <1>2, <1>3, <1>4, <1>5, <1>6, <1>7 DEF TablesAgree

LEMMA TablesFreePage ==
    ASSUME TypeOK, TablesAgree, FreePage
    PROVE  TablesAgree'
<1> DEFINE v == call.page
           pa == translate(v, call.off)
           cache == TlbAfterTranslate(v)
<1>1. v \in VPages /\ call.off \in Offsets /\ call.op = "free"
  BY DEF FreePage, TypeOK, CallType
<1>2. Coherent(cache, page_table) /\ cache \in TlbArrays
  BY <1>1, CoherentTranslate DEF TablesAgree
<1>3. call'.op # "malloc"
  BY <1>1 DEF FreePage, Moved
<1>4. CASE pa = 0
  <2>1. UNCHANGED tableVars /\ tlb' = cache
    BY <1>4 DEF FreePage, tableVars
  <2>2. QED
    BY <1>2, <1>3, <2>1, TablesUndisturbed
<1>5. CASE pa # 0
  <2>1. /\ page_table' = [page_table EXCEPT ![v] = 0]
        /\ virtual_bitmap' = [virtual_bitmap EXCEPT ![v] = FALSE]
        /\ physical_bitmap' = [physical_bitmap EXCEPT ![pa \div PGSIZE] = FALSE]
        /\ tlb' = TLB_remove(cache, v)
        /\ tables' = tables
    BY <1>5 DEF FreePage, clear_bit_at_index
  <2>2. pa \div PGSIZE = page_table[v]
    BY <1>1, <1>5, TranslateFrame DEF TablesAgree
  <2>3. \A q \in PPages \ {0} :
           physical_bitmap'[q] <=> physical_bitmap[q] /\ q # page_table[v]
    BY <2>1, <2>2 DEF TypeOK
  <2>4. Coherent(tlb', page_table')
    BY <1>1, <1>2, <2>1, CoherentRemove DEF TypeOK, PageTables
  <2>5. QED
    BY <1>1, <1>3, <2>1, <2>3, <2>4, TablesReleasePage
<1>6. QED
  BY <1>4, <1>5

LEMMA TablesStep == TypeOK /\ TablesAgree /\ [Next]_vars => TablesAgree'
<1> SUFFICES ASSUME TypeOK, TablesAgree, [Next]_vars PROVE TablesAgree'
  OBVIOUS
<1>1. Coherent(tlb, page_table)
  BY DEF TablesAgree, TlbCoherent, Coherent
<1>2. call.page \in VPages => Coherent(TlbAfterTranslate(call.page), page_table)
  BY CoherentTranslate DEF TablesAgree
<1>3. ASSUME NEW n \in Sizes, MallocBegin(n)
      PROVE  TablesAgree'
  BY <1>3, TablesMallocBegin
<1>4. CASE MallocPage
  BY <1>4, TablesMallocPage
<1>5. CASE MallocEnd
  BY <1>1, <1>5, TablesUndisturbed
  DEF MallocEnd, MallocReturns, NoCall
<1>6. ASSUME NEW n \in Sizes, NEW v \in VPages, NEW o \in Offsets,
             FreeBegin(v, o, n)
      PROVE  TablesAgree'
  <2>1. call' = call \/ call'.op # "malloc"
    BY <1>6 DEF FreeBegin, NoCall
  <2>2. QED
    BY <1>1, <1>6, <2>1, TablesUndisturbed DEF FreeBegin
<1>7. CASE FreePage
  BY <1>7, TablesFreePage
<1>8. CASE FreeEnd
  BY <1>1, <1>8, TablesUndisturbed DEF FreeEnd, NoCall
<1>9. ASSUME NEW n \in Sizes, NEW d \in [1..n -> Bytes],
             NEW v \in VPages, NEW o \in Offsets, PutBegin(v, o, d)
      PROVE  TablesAgree'
  <2>1. call' = call \/ call'.op # "malloc"
    BY <1>9 DEF PutBegin, NoCall
  <2>2. QED
    BY <1>1, <1>9, <2>1, TablesUndisturbed DEF PutBegin
<1>10. CASE PutPage
  <2>1. call.page \in VPages
    BY <1>10 DEF TypeOK, PutPage
  <2>2. call' = call \/ call'.op # "malloc"
    BY <1>10 DEF PutPage, DataReturns, NoCall, Moved
  <2>3. QED
    BY <1>2, <1>10, <2>1, <2>2, TablesUndisturbed DEF PutPage
<1>11. CASE PutEnd
  BY <1>1, <1>11, TablesUndisturbed DEF PutEnd, DataReturns, NoCall
<1>12. ASSUME NEW n \in Sizes, NEW v \in VPages, NEW o \in Offsets,
              GetBegin(v, o, n)
       PROVE  TablesAgree'
  <2>1. call' = call \/ call'.op # "malloc"
    BY <1>12 DEF GetBegin, NoCall
  <2>2. QED
    BY <1>1, <1>12, <2>1, TablesUndisturbed DEF GetBegin
<1>13. CASE GetPage
  <2>1. call.page \in VPages
    BY <1>13 DEF TypeOK, GetPage
  <2>2. call' = call \/ call'.op # "malloc"
    BY <1>13 DEF GetPage, DataReturns, NoCall, Moved
  <2>3. QED
    BY <1>2, <1>13, <2>1, <2>2, TablesUndisturbed DEF GetPage
<1>14. CASE GetEnd
  BY <1>1, <1>14, TablesUndisturbed DEF GetEnd, DataReturns, NoCall
<1>15. CASE UNCHANGED vars
  BY <1>1, <1>15, TablesUndisturbed DEF vars
<1>16. QED
  BY <1>3, <1>4, <1>5, <1>6, <1>7, <1>8, <1>9, <1>10, <1>11, <1>12, <1>13,
     <1>14, <1>15
  DEF Next

\* The bitmaps, the page table and the TLB of my_vm.c agree in every state,
\* whatever clients pass to n_free, put_data and get_data.
THEOREM TablesAlwaysAgree == Spec => []TablesAgree
<1>1. Init => TypeOK /\ TablesAgree
  BY TypeInit, TablesInit
<1>2. TypeOK /\ TablesAgree /\ [Next]_vars => (TypeOK /\ TablesAgree)'
  BY TypeStep, TablesStep
<1>3. QED
  BY <1>1, <1>2, PTL DEF Spec
=============================================================================
