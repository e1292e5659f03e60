--------------------------- MODULE MyVmFragProofs ---------------------------
(***************************************************************************)
(* Proofs about my_vm_frag.c for every size of memory, page, table and TLB.*)
(*                                                                         *)
(* Whatever clients free, the five tables agree. Clients that free an      *)
(* allocation only while it is alone in its page get ranges of bytes that  *)
(* do not overlap and that stay mapped, and no byte of a page is lost.     *)
(***************************************************************************)
EXTENDS MyVmFrag, MyVmProofs, FiniteSetTheorems

\* When n_free is past the page it was given, that page is unmapped: the
\* translations of the later pages start from its address.
FirstUnmapped ==
    call.op = "free" /\ call.page # call.first => page_table[call.first] = 0

\* An n_malloc that found virtual pages fits behind page 0.
MallocFits == call.op = "malloc" => call.bytes + PGSIZE <= Word

\* The inductive invariant for all clients.
FragInv == FragTypeOK /\ TablesAgree /\ FirstUnmapped /\ MallocFits

-----------------------------------------------------------------------------
(***************************************************************************)
(* Arithmetic                                                              *)
(***************************************************************************)

\* Numbers of the width of an address.
LEMMA WordFacts ==
    /\ Word \in Nat \ {0} /\ PGSIZE <= Word
    /\ \A x \in Int : x % Word \in 0 .. (Word - 1)
<1>1. Word \in Nat
  BY ConstantsAssumption, Z3T(30) DEF Word
<1>2. Word >= PGSIZE
  <2>1. \A n \in Nat \ {0}, m \in Nat \ {0} : n * m >= m
    BY Z3T(30)
  <2>2. QED
    BY <2>1, ConstantsAssumption DEF Word
<1>3. Word > 0 /\ Word \in Nat \ {0}
  BY <1>1, <1>2, ConstantsAssumption
<1>4. ASSUME NEW x \in Int
      PROVE  x % Word \in 0 .. (Word - 1)
  <2> HIDE DEF Word
  <2> QED  BY <1>3, Z3T(30)
<1>5. QED
  BY <1>2, <1>3, <1>4

\* An address is a page and an offset.
LEMMA AddressFacts ==
    /\ \A p \in VPages, o \in Offsets :
          /\ p * PGSIZE + o \in 0 .. (Word - 1)
          /\ (p * PGSIZE + o) % Word = p * PGSIZE + o
          /\ (p * PGSIZE + o) \div PGSIZE = p
          /\ (p * PGSIZE + o) % PGSIZE = o
    /\ \A a \in 0 .. (Word - 1) :
          a \div PGSIZE \in VPages /\ a % PGSIZE \in Offsets
<1> DEFINE W == Word
<1>1. W \in Nat \ {0} /\ PGSIZE \in Nat \ {0} /\ num_virtual_pages \in Nat
  BY ConstantsAssumption, WordFacts
<1>2. ASSUME NEW p \in VPages, NEW o \in Offsets
      PROVE  /\ p * PGSIZE + o \in 0 .. (W - 1)
             /\ (p * PGSIZE + o) % W = p * PGSIZE + o
             /\ (p * PGSIZE + o) \div PGSIZE = p
             /\ (p * PGSIZE + o) % PGSIZE = o
  <2> DEFINE a == p * PGSIZE + o
  <2>1. p \in Nat /\ p <= num_virtual_pages - 1 /\ o \in 0 .. (PGSIZE - 1)
    BY <1>1 DEF VPages, Offsets
  <2>2. p * PGSIZE <= (num_virtual_pages - 1) * PGSIZE /\ p * PGSIZE \in Nat
    BY <1>1, <2>1, Z3T(30)
  <2>3. (num_virtual_pages - 1) * PGSIZE = W - PGSIZE
    BY <1>1, Z3T(30) DEF Word
  <2>4. a \in 0 .. (W - 1)
    <3> HIDE DEF W
    <3> QED  BY <1>1, <2>1, <2>2, <2>3
  <2>5. a % W = a
    <3> HIDE DEF W, a
    <3> QED  BY <1>1, <2>4, Z3T(30)
  <2>6. a \div PGSIZE = p
    BY <2>1, FrameOfAddress DEF Offsets
  <2>7. a % PGSIZE = o
    BY <1>1, <2>1, Z3T(60)
  <2>8. QED
    BY <2>4, <2>5, <2>6, <2>7
<1>3. ASSUME NEW a \in 0 .. (W - 1)
      PROVE  a \div PGSIZE \in VPages /\ a % PGSIZE \in Offsets
  <2>1. a \in Nat /\ a < num_virtual_pages * PGSIZE
    BY <1>1 DEF Word
  <2>2. a \div PGSIZE \in Nat /\ a % PGSIZE \in 0 .. (PGSIZE - 1)
    BY <1>1, <2>1, Z3T(30)
  <2>3. a = PGSIZE * (a \div PGSIZE) + (a % PGSIZE)
    BY <1>1, <2>1, Z3T(30)
  <2>4. a \div PGSIZE < num_virtual_pages
    BY <1>1, <2>1, <2>2, <2>3, Z3T(30)
  <2>5. QED
    BY <1>1, <2>2, <2>4 DEF VPages, Offsets
<1>4. QED
  BY <1>2, <1>3

\* The pages of an allocation have room for its bytes.
LEMMA PagesHoldBytes ==
    ASSUME NEW n \in Nat, NEW v \in VPages \ {0},
           v + PageCount(n) <= num_virtual_pages
    PROVE  n + PGSIZE <= Word
<1>1. PGSIZE \in Nat \ {0} /\ num_virtual_pages \in Nat /\ PageCount(n) \in Nat
  BY ConstantsAssumption, DivisionNat
<1>2. n <= PageCount(n) * PGSIZE
  BY <1>1, Z3T(30) DEF PageCount
<1>3. PageCount(n) + 1 <= num_virtual_pages
  BY <1>1 DEF VPages
<1>4. \A a, b, c \in Nat : a + 1 <= b => a * c + c <= b * c
  BY Z3T(30)
<1>5. PageCount(n) * PGSIZE + PGSIZE <= Word
  BY <1>1, <1>3, <1>4, SMTT(30) DEF Word
<1>6. PageCount(n) * PGSIZE \in Nat /\ Word \in Nat
  BY <1>1, WordFacts, Z3T(30)
<1>7. QED
  BY <1>1, <1>2, <1>5, <1>6

-----------------------------------------------------------------------------
(***************************************************************************)
(* The steps that are not those of my_vm.c                                 *)
(***************************************************************************)

\* What PackInPage does, in terms of the page it finds.
LEMMA Packed ==
    ASSUME FragTypeOK, NEW n \in Sizes, Roomy(n) # {}, PackInPage(n)
    PROVE  \E v \in VPages :
              /\ page_metadata[v].remaining_space >= n
              /\ n = 0 => v = 0
              /\ page_metadata' =
                   [page_metadata EXCEPT ![v] =
                      AfterPacking(page_metadata[v], n)]
              /\ LET addr == (v * PGSIZE + page_metadata[v].next_free_offset)
                                % Word
                 IN  /\ addr \in 0 .. (Word - 1)
                     /\ held' = HeldAfter(addr \div PGSIZE, addr % PGSIZE, n)
                     /\ ret' = [NoRet EXCEPT !.op = "malloc",
                                  !.page = addr \div PGSIZE,
                                  !.off = addr % PGSIZE]
<1> DEFINE v == LeastOf(Roomy(n))
           addr == (v * PGSIZE + page_metadata[v].next_free_offset) % Word
<1>1. v \in VPages /\ page_metadata[v].remaining_space >= n
  <2>1. Roomy(n) \subseteq Nat
    BY DEF Roomy, VPages
  <2>2. v \in Roomy(n)
    BY <2>1, LeastElement
  <2>3. QED
    BY <2>2 DEF Roomy
<1>2. addr \in 0 .. (Word - 1)
  <2>1. v \in Nat /\ page_metadata[v].next_free_offset \in Nat
    BY <1>1 DEF FragTypeOK, PageMetadata, VPages
  <2>2. v * PGSIZE \in Nat
    BY <2>1, ConstantsAssumption, Z3T(30)
  <2>3. v * PGSIZE + page_metadata[v].next_free_offset \in Int
    BY <2>1, <2>2
  <2>4. QED
    BY <2>3, WordFacts
<1>3. /\ page_metadata' = [page_metadata EXCEPT ![v] =
                             AfterPacking(page_metadata[v], n)]
      /\ held' = HeldAfter(addr \div PGSIZE, addr % PGSIZE, n)
      /\ ret' = [NoRet EXCEPT !.op = "malloc", !.page = addr \div PGSIZE,
                   !.off = addr % PGSIZE]
  BY DEF PackInPage
<1>4. n = 0 => v = 0
  <2> SUFFICES ASSUME n = 0 PROVE v = 0
    OBVIOUS
  <2>1. 0 \in VPages /\ VPages \subseteq Nat
    BY ConstantsAssumption DEF VPages
  <2>2. page_metadata[0].remaining_space \in Nat
    BY <2>1 DEF FragTypeOK, PageMetadata
  <2>3. page_metadata[0].remaining_space >= n
    BY <2>2
  <2>4. 0 \in Roomy(n) /\ Roomy(n) \subseteq Nat
    BY <2>1, <2>3, Zenon DEF Roomy
  <2>5. v <= 0 /\ v \in Nat
    BY <1>1, <2>1, <2>4, LeastElement
  <2> HIDE DEF v
  <2>6. QED
    BY <2>5
<1> HIDE DEF v
<1>5. QED
  BY <1>1, <1>2, <1>3, <1>4

\* n_free of an empty page: it has the effect of FreePage but for frame 0 and
\* the TLB entry of the address that was passed.
LEMMA FreePageCases ==
    ASSUME FragFreePage
    PROVE  \/ FreePage
           \/ /\ call.op = "free" /\ call.left > 0
              /\ translate(call.page, call.off) # 0
              /\ call.page # call.first
              /\ page_table' = [page_table EXCEPT ![call.page] = 0]
              /\ virtual_bitmap' = [virtual_bitmap EXCEPT ![call.page] = FALSE]
              /\ physical_bitmap' =
                   [[physical_bitmap EXCEPT ![0] = FALSE]
                      EXCEPT ![translate(call.page, call.off) \div PGSIZE]
                        = FALSE]
              /\ tlb' = TLB_remove(
                          [TlbAfterTranslate(call.page) EXCEPT
                             ![TlbIndex(call.first)] =
                               [valid |-> TRUE, physical_page |-> 0,
                                virtual_page |-> call.first]], call.page)
              /\ call' = Moved(Wrap(call.page + 1), call.left - 1, call.data)
              /\ UNCHANGED <<inited, tables, memory, ret, live, fault>>
  BY Zenon DEF FragFreePage, clear_bit_at_index

\* A step of put_data or get_data.
DataStep ==
    \/ PutPage \/ PutEnd \/ GetPage \/ GetEnd
    \/ \E n \in Sizes, v \in VPages, o \in Offsets :
          \/ GetBegin(v, o, n)
          \/ \E d \in [1..n -> Bytes] : PutBegin(v, o, d)

\* All steps but three are steps of my_vm.c, with what they do to page_metadata
\* and held.
LEMMA FragSteps ==
    ASSUME FragNext
    PROVE  \/ \E n \in Sizes : /\ Idle /\ MayAllocate(n) /\ Roomy(n) # {}
                               /\ PackInPage(n)
           \/ \E n \in Sizes : /\ MallocBegin(n) /\ MayAllocate(n)
                               /\ Roomy(n) = {}
                               /\ UNCHANGED <<page_metadata, held>>
           \/ FragMallocPage
           \/ FragMallocEnd
           \/ \E n \in Sizes, v \in VPages, o \in Offsets :
                 FragFreeBegin(v, o, n)
           \/ FragFreePage
           \/ FragFreeEnd
           \/ DataStep /\ UNCHANGED <<page_metadata, held>>
  BY Zenon DEF FragNext, FragMallocBegin, FragPut, FragGet, DataStep

\* n_malloc begins with a run of free pages or returns NULL.
LEMMA BegunMalloc ==
    ASSUME NEW n \in Sizes, MallocBegin(n)
    PROVE  LET v == get_next_avail_virtual(PageCount(n))
           IN  \/ v = 0 /\ call' = NoCall
               \/ /\ v # 0 /\ v \in FreeRuns(PageCount(n))
                  /\ call'.op = "malloc" /\ call'.page = v /\ call'.off = 0
                  /\ call'.left = PageCount(n) /\ call'.bytes = n
                  /\ call'.first = v
<1> DEFINE v == get_next_avail_virtual(PageCount(n))
<1>1. v # 0 => v \in FreeRuns(PageCount(n))
  <2>1. FreeRuns(PageCount(n)) \subseteq Nat
    BY DEF FreeRuns, VPages
  <2>2. QED
    BY <2>1, LeastElement DEF get_next_avail_virtual
<1>2. \/ v = 0 /\ call' = NoCall
      \/ /\ v # 0
         /\ call' = [NoCall EXCEPT !.op = "malloc", !.page = v,
                       !.left = PageCount(n), !.bytes = n, !.first = v]
  BY DEF MallocBegin, MallocReturns
<1>3. v # 0 => v \in VPages
  BY <1>1 DEF FreeRuns
<1>4. "malloc" \in Ops /\ n \in Nat /\ PageCount(n) \in Nat /\ 0 \in Offsets
  BY ConstantsAssumption, DivisionNat DEF Ops, Offsets
<1> HIDE DEF v
<1>5. ASSUME v # 0
      PROVE  /\ call'.op = "malloc" /\ call'.page = v /\ call'.off = 0
             /\ call'.left = PageCount(n) /\ call'.bytes = n
             /\ call'.first = v
  <2>1. call' = [NoCall EXCEPT !.op = "malloc", !.page = v,
                   !.left = PageCount(n), !.bytes = n, !.first = v]
    BY <1>2, <1>5, Zenon
  <2>2. v \in VPages /\ v \in Nat
    BY <1>3, <1>5 DEF VPages
  <2>3. NoCall.off = 0
    BY DEF NoCall
  <2>4. QED
    BY <1>4, <2>1, <2>2, <2>3, NoCallTypes DEF CallType
<1>6. QED
  BY <1>1, <1>2, <1>5 DEF v

\* put_data and get_data leave the tables alone.
LEMMA DataStepTables ==
    ASSUME DataStep
    PROVE  /\ UNCHANGED tableVars
           /\ call.op \notin {"malloc", "free"}
           /\ call' = call \/ call'.op \notin {"malloc", "free"}
<1>1. CASE PutPage
  <2>1. UNCHANGED tableVars /\ call.op = "put"
           /\ \/ call' = call \/ call' = NoCall
              \/ \E p, l, d : call' = Moved(p, l, d)
    BY <1>1, Zenon DEF PutPage, DataReturns
  <2>2. QED
    BY <2>1 DEF NoCall, Moved
<1>2. CASE GetPage
  <2>1. UNCHANGED tableVars /\ call.op = "get"
           /\ \/ call' = call \/ call' = NoCall
              \/ \E p, l, d : call' = Moved(p, l, d)
    BY <1>2, Zenon DEF GetPage, DataReturns
  <2>2. QED
    BY <2>1 DEF NoCall, Moved
<1>3. CASE PutEnd \/ GetEnd
  BY <1>3 DEF PutEnd, GetEnd, DataReturns, NoCall
<1>4. ASSUME NEW n \in Sizes, NEW v \in VPages, NEW o \in Offsets,
             GetBegin(v, o, n) \/ \E d \in [1..n -> Bytes] : PutBegin(v, o, d)
      PROVE  /\ UNCHANGED tableVars /\ call.op = "none"
             /\ call' = call \/ call'.op \in {"put", "get"}
  BY <1>4 DEF GetBegin, PutBegin, Idle, NoCall
<1>5. QED
  BY <1>1, <1>2, <1>3, <1>4 DEF DataStep

-----------------------------------------------------------------------------
(***************************************************************************)
(* Types                                                                   *)
(***************************************************************************)

\* An entry of page_metadata has two fields.
LEMMA PackingFields ==
    ASSUME NEW m \in PageMetadata, NEW n,
           m.remaining_space - n \in 0 .. (Word - 1),
           (m.next_free_offset + n) % Word \in 0 .. (Word - 1)
    PROVE  /\ AfterPacking(m, n) \in PageMetadata
           /\ AfterPacking(m, n).remaining_space = m.remaining_space - n
           /\ AfterPacking(m, n).next_free_offset
                = (m.next_free_offset + n) % Word
<1> DEFINE x == m.remaining_space - n
           y == (m.next_free_offset + n) % Word
<1>1. AfterPacking(m, n)
        = [m EXCEPT !.remaining_space = x, !.next_free_offset = y]
  BY DEF AfterPacking
<1> HIDE DEF x, y
<1>2. x \in 0 .. (Word - 1) /\ y \in 0 .. (Word - 1)
  BY DEF x, y
<1>3. /\ AfterPacking(m, n) \in PageMetadata
      /\ AfterPacking(m, n).remaining_space = x
      /\ AfterPacking(m, n).next_free_offset = y
  BY <1>1, <1>2 DEF PageMetadata
<1>4. QED
  BY <1>3 DEF x, y

\* What n_malloc returns is added to held with the type of its members.
LEMMA HeldType ==
    ASSUME FragTypeOK, NEW page \in VPages, NEW off \in Offsets, NEW n \in Nat
    PROVE  HeldAfter(page, off, n)
             \subseteq [page : VPages, off : Offsets, bytes : Nat]
<1>1. Extent(page, off, n) \in [page : VPages, off : Offsets, bytes : Nat]
  BY DEF Extent
<1>2. QED
  BY <1>1 DEF FragTypeOK, HeldAfter

LEMMA FragTypePack ==
    ASSUME FragTypeOK, NEW n \in Sizes, Roomy(n) # {}, PackInPage(n)
    PROVE  FragTypeOK'
<1>1. n \in Nat /\ 0 \in VPages
  BY ConstantsAssumption DEF VPages
<1>2. PICK v \in VPages :
         /\ page_metadata[v].remaining_space >= n
         /\ page_metadata' = [page_metadata EXCEPT ![v] =
                                AfterPacking(page_metadata[v], n)]
         /\ LET addr == (v * PGSIZE + page_metadata[v].next_free_offset) % Word
            IN  /\ addr \in 0 .. (Word - 1)
                /\ held' = HeldAfter(addr \div PGSIZE, addr % PGSIZE, n)
                /\ ret' = [NoRet EXCEPT !.op = "malloc",
                             !.page = addr \div PGSIZE,
                             !.off = addr % PGSIZE]
  BY Packed
<1> DEFINE addr == (v * PGSIZE + page_metadata[v].next_free_offset) % Word
           page == addr \div PGSIZE
           off  == addr % PGSIZE
<1>3. page \in VPages /\ off \in Offsets
  BY <1>2, AddressFacts
<1>4. /\ held' = HeldAfter(page, off, n)
      /\ ret' = [NoRet EXCEPT !.op = "malloc", !.page = page, !.off = off]
  BY <1>2
<1> HIDE DEF page, off
<1>5. AfterPacking(page_metadata[v], n) \in PageMetadata
  <2> DEFINE m == page_metadata[v]
  <2>1. /\ m \in PageMetadata /\ m.remaining_space >= n
        /\ m.remaining_space \in 0 .. (Word - 1) /\ m.next_free_offset \in Nat
    BY <1>2 DEF FragTypeOK, PageMetadata
  <2>2. (m.next_free_offset + n) % Word \in 0 .. (Word - 1)
    BY <1>1, <2>1, WordFacts
  <2>3. m.remaining_space - n \in 0 .. (Word - 1)
    <3> DEFINE W == Word
               room == m.remaining_space
    <3>1. W \in Nat /\ room \in 0 .. (W - 1) /\ room >= n
      BY <2>1, WordFacts
    <3> HIDE DEF W, room
    <3>2. room - n \in 0 .. (W - 1)
      BY <1>1, <3>1
    <3>3. QED
      BY <3>2 DEF W, room
  <2>4. QED
    BY <2>1, <2>2, <2>3, PackingFields
<1>6. page_metadata' \in [VPages -> PageMetadata]
  BY <1>2, <1>5 DEF FragTypeOK
<1>7. held' \subseteq [page : VPages, off : Offsets, bytes : Nat]
  BY <1>1, <1>3, <1>4, HeldType
<1>8. ret' \in RetType
  BY <1>3, <1>4, NoCallTypes DEF RetType, Ops
<1>9. TypeOK'
  <2>1. /\ UNCHANGED <<tables, page_table, tlb, memory, call, live, fault>>
        /\ set_physical_mem
    BY DEF PackInPage
  <2>2. 0 \in PPages
    BY ConstantsAssumption DEF PPages
  <2>3. /\ inited' \in BOOLEAN
        /\ physical_bitmap' \in [PPages -> BOOLEAN]
        /\ virtual_bitmap' \in [VPages -> BOOLEAN]
    BY <1>1, <2>1, <2>2
    DEF FragTypeOK, TypeOK, set_physical_mem, set_bit_at_index
  <2>4. QED
    BY <1>8, <2>1, <2>3 DEF FragTypeOK, TypeOK
<1>10. QED
  BY <1>6, <1>7, <1>9 DEF FragTypeOK

LEMMA FragTypeMallocPage ==
    ASSUME FragInv, FragMallocPage
    PROVE  FragTypeOK'
<1>1. TypeOK'
  BY TypeStep DEF FragInv, FragTypeOK, FragMallocPage, Next
<1>2. page_metadata' \in [VPages -> PageMetadata]
  <2>1. call.bytes \in Nat /\ call.bytes + PGSIZE <= Word
    BY DEF FragInv, MallocFits, FragMallocPage, MallocPage, FragTypeOK,
           TypeOK, CallType
  <2>2. (PGSIZE - call.bytes) % Word \in 0 .. (Word - 1)
    BY <2>1, WordFacts, ConstantsAssumption
  <2>3. call.bytes \in 0 .. (Word - 1)
    <3> HIDE DEF Word
    <3> QED  BY <2>1, WordFacts, ConstantsAssumption
  <2>4. NewPage(call.bytes) \in PageMetadata
    BY <2>2, <2>3 DEF NewPage, PageMetadata
  <2>5. QED
    BY <2>4 DEF FragInv, FragTypeOK, FragMallocPage
<1>3. QED
  BY <1>1, <1>2 DEF FragInv, FragTypeOK, FragMallocPage

LEMMA FragTypeFreeBegin ==
    ASSUME FragTypeOK, NEW n \in Sizes, NEW v \in VPages, NEW o \in Offsets,
           FragFreeBegin(v, o, n)
    PROVE  FragTypeOK'
<1>1. /\ UNCHANGED <<tableVars, tlb, memory, live, page_metadata>>
      /\ held' \subseteq held /\ Idle
      /\ \/ /\ ret' = [NoRet EXCEPT !.op = "free"]
            /\ UNCHANGED <<call, fault>>
         \/ fault' = "null_deref" /\ UNCHANGED <<call, ret>>
         \/ /\ call' = [NoCall EXCEPT !.op = "free", !.page = v, !.off = o,
                          !.left = PageCount(n), !.bytes = n, !.first = v]
            /\ UNCHANGED <<ret, fault>>
  BY Zenon DEF FragFreeBegin
<1>2. n \in Nat /\ v \in Nat /\ PageCount(n) \in Nat
  BY ConstantsAssumption, DivisionNat DEF VPages
<1>3. [NoRet EXCEPT !.op = "free"] \in RetType
  BY NoCallTypes DEF RetType, Ops
<1>4. LET c == [NoCall EXCEPT !.op = "free", !.page = v, !.off = o,
                  !.left = PageCount(n), !.bytes = n, !.first = v]
      IN  c \in CallType /\ c.op = "free" /\ c.page = v
  BY <1>2, NoCallTypes DEF CallType, Ops
<1>5. call' \in CallType /\ ret' \in RetType
         /\ fault' \in {"none", "null_deref", "wild_memcpy"}
         /\ (IF call'.op = "malloc"
               THEN call'.page + call'.left <= num_virtual_pages
               ELSE call'.page \in VPages)
  BY <1>1, <1>3, <1>4 DEF FragTypeOK, TypeOK
<1>6. TypeOK'
  BY <1>1, <1>5 DEF FragTypeOK, TypeOK, tableVars
<1>7. QED
  BY <1>1, <1>6 DEF FragTypeOK

LEMMA FragTypeFreePage ==
    ASSUME FragTypeOK, FragFreePage
    PROVE  FragTypeOK'
<1> DEFINE v  == call.page
           pa == translate(v, call.off)
<1>1. v \in VPages /\ call \in CallType /\ call.op = "free" /\ call.left > 0
  BY DEF FragFreePage, FragTypeOK, TypeOK, FreePage
<1>2. page_metadata' \in [VPages -> PageMetadata]
  <2>1. page_metadata' = page_metadata
           \/ page_metadata' = [page_metadata EXCEPT ![v] =
                                  AfterFreeing(page_metadata[v], call.bytes)]
    BY DEF FragFreePage
  <2>2. page_metadata[v] \in PageMetadata /\ call.bytes \in Nat
    BY <1>1 DEF FragTypeOK, CallType
  <2>3. page_metadata[v].remaining_space + call.bytes \in Int
    BY <2>2 DEF PageMetadata
  <2>4. (page_metadata[v].remaining_space + call.bytes) % Word
           \in 0 .. (Word - 1)
    BY <2>3, WordFacts
  <2>5. 0 \in 0 .. (Word - 1)
    <3> HIDE DEF Word
    <3> QED  BY WordFacts
  <2>6. AfterFreeing(page_metadata[v], call.bytes) \in PageMetadata
    BY <2>2, <2>4, <2>5 DEF AfterFreeing, PageMetadata, NoMetadata
  <2>7. QED
    BY <2>1, <2>6 DEF FragTypeOK
<1>3. TypeOK'
  <2>1. CASE FreePage
    BY <2>1, TypeStep DEF Next, FragTypeOK
  <2>2. CASE ~FreePage
    <3>1. /\ page_table' = [page_table EXCEPT ![v] = 0]
          /\ virtual_bitmap' = [virtual_bitmap EXCEPT ![v] = FALSE]
          /\ physical_bitmap' =
               [[physical_bitmap EXCEPT ![0] = FALSE]
                  EXCEPT ![pa \div PGSIZE] = FALSE]
          /\ tlb' = TLB_remove(
                      [TlbAfterTranslate(v) EXCEPT
                         ![TlbIndex(call.first)] =
                           [valid |-> TRUE, physical_page |-> 0,
                            virtual_page |-> call.first]], v)
          /\ call' = Moved(Wrap(v + 1), call.left - 1, call.data)
          /\ UNCHANGED <<inited, tables, memory, ret, live, fault>>
      BY <2>2, FreePageCases
    <3>2. 0 \in PPages
      BY ConstantsAssumption DEF PPages
    <3>3. /\ page_table' \in [VPages -> PPages]
          /\ virtual_bitmap' \in [VPages -> BOOLEAN]
          /\ physical_bitmap' \in [PPages -> BOOLEAN]
      BY <3>1, <3>2 DEF FragTypeOK, TypeOK
    <3>4. tlb' \in TlbArrays
      <4> DEFINE cache == [TlbAfterTranslate(v) EXCEPT
                             ![TlbIndex(call.first)] =
                               [valid |-> TRUE, physical_page |-> 0,
                                virtual_page |-> call.first]]
      <4>1. call.first \in VPages
        BY <1>1 DEF CallType
      <4>2. cache \in TlbArrays
        BY <1>1, <3>2, <4>1, LookupTypes DEF TlbArrays, TlbType, FragTypeOK
      <4>3. tlb' = TLB_remove(cache, v)
        BY <3>1
      <4> HIDE DEF cache
      <4>4. QED
        BY <4>2, <4>3 DEF TLB_remove, TlbArrays, TlbType
    <3>5. call' \in CallType /\ call'.op = "free" /\ call'.page \in VPages
      <4>1. Wrap(v + 1) \in VPages /\ Wrap(v + 1) \in Nat
        BY <1>1, NextPage
      <4>2. call.left - 1 \in Nat /\ call.data \in Seq(Cell)
        BY <1>1 DEF CallType
      <4>3. QED
        BY <1>1, <3>1, <4>1, <4>2, CallMoves DEF FragTypeOK
    <3>6. QED
      BY <3>1, <3>3, <3>4, <3>5 DEF FragTypeOK, TypeOK, TlbArrays
  <2>3. QED
    BY <2>1, <2>2
<1>4. QED
  BY <1>2, <1>3 DEF FragTypeOK, FragFreePage

LEMMA FragTypeStep == FragInv /\ [FragNext]_fragVars => FragTypeOK'
<1> SUFFICES ASSUME FragInv, [FragNext]_fragVars PROVE FragTypeOK'
  OBVIOUS
<1>1. FragTypeOK /\ TypeOK
  BY DEF FragInv, FragTypeOK
<1>2. ASSUME NEW n \in Sizes, Roomy(n) # {}, PackInPage(n)
      PROVE  FragTypeOK'
  BY <1>1, <1>2, FragTypePack
<1>3. ASSUME Next, UNCHANGED <<page_metadata, held>>
      PROVE  FragTypeOK'
  BY <1>1, <1>3, TypeStep DEF FragTypeOK
<1>4. CASE FragMallocPage
  BY <1>4, FragTypeMallocPage
<1>5. CASE FragMallocEnd
  <2>1. TypeOK'
    BY <1>1, <1>5, TypeStep DEF Next, FragMallocEnd
  <2>2. call.first \in VPages /\ call.bytes \in Nat /\ 0 \in Offsets
    BY <1>1, ConstantsAssumption DEF TypeOK, CallType, Offsets
  <2>3. QED
    BY <1>1, <1>5, <2>1, <2>2, HeldType DEF FragMallocEnd, FragTypeOK
<1>6. ASSUME NEW n \in Sizes, NEW v \in VPages, NEW o \in Offsets,
             FragFreeBegin(v, o, n)
      PROVE  FragTypeOK'
  BY <1>1, <1>6, FragTypeFreeBegin
<1>7. CASE FragFreePage
  BY <1>1, <1>7, FragTypeFreePage
<1>8. CASE UNCHANGED fragVars
  BY <1>1, <1>8, TypeStep DEF FragTypeOK, fragVars
<1>9. QED
  BY <1>2, <1>3, <1>4, <1>5, <1>6, <1>7, <1>8, FragSteps
  DEF Next, FragFreeEnd, DataStep

-----------------------------------------------------------------------------
(***************************************************************************)
(* The tables agree, whatever clients free                                 *)
(***************************************************************************)

\* An entry without a frame is a true one for a page without a frame.
LEMMA CoherentEmptyEntry ==
    ASSUME NEW cache \in TlbArrays, NEW pt \in PageTables, Coherent(cache, pt),
           NEW w \in VPages, pt[w] = 0
    PROVE  LET entry == [valid |-> TRUE, physical_page |-> 0,
                         virtual_page |-> w]
               after == [cache EXCEPT ![TlbIndex(w)] = entry]
           IN  after \in TlbArrays /\ Coherent(after, pt)
<1> DEFINE entry == [valid |-> TRUE, physical_page |-> 0, virtual_page |-> w]
           after == [cache EXCEPT ![TlbIndex(w)] = entry]
<1>1. TlbIndex(w) \in 0 .. (TLB_ENTRIES - 1)
  <2>1. w \in Nat
    BY DEF VPages
  <2>2. QED
    BY <2>1, IndexRange
<1>2. entry \in TlbType
  BY ConstantsAssumption DEF TlbType, PPages
<1>3. /\ after \in TlbArrays
      /\ after[TlbIndex(w)] = entry
      /\ \A i \in 0 .. (TLB_ENTRIES - 1) :
            i # TlbIndex(w) => after[i] = cache[i]
  BY <1>1, <1>2 DEF TlbArrays
<1>4. entry.virtual_page = w /\ entry.physical_page = 0
  OBVIOUS
<1> HIDE DEF after, entry
<1>5. Coherent(after, pt)
  <2> SUFFICES ASSUME NEW i \in DOMAIN after, after[i].valid
               PROVE  /\ TlbIndex(after[i].virtual_page) = i
                      /\ after[i].physical_page = pt[after[i].virtual_page]
    BY DEF Coherent
  <2>1. i \in 0 .. (TLB_ENTRIES - 1) /\ i \in DOMAIN cache
    BY <1>3 DEF TlbArrays
  <2>2. CASE i = TlbIndex(w)
    BY <1>3, <1>4, <2>2
  <2>3. CASE i # TlbIndex(w)
    BY <1>3, <2>1, <2>3 DEF Coherent
  <2>4. QED
    BY <2>2, <2>3
<1>6. QED
  BY <1>3, <1>5 DEF after, entry

LEMMA TablesFragFreePage ==
    ASSUME FragInv, FragFreePage
    PROVE  TablesAgree'
<1> DEFINE v  == call.page
           pa == translate(v, call.off)
<1>1. /\ TypeOK /\ TablesAgree
      /\ v \in VPages /\ call.off \in Offsets /\ call.first \in VPages
      /\ call.op = "free"
  BY DEF FragInv, FragTypeOK, TypeOK, CallType, FragFreePage
<1>2. CASE FreePage
  BY <1>1, <1>2, TablesFreePage
<1>3. CASE ~FreePage
  <2> DEFINE cache == [TlbAfterTranslate(v) EXCEPT
                         ![TlbIndex(call.first)] =
                           [valid |-> TRUE, physical_page |-> 0,
                            virtual_page |-> call.first]]
  <2>1. /\ pa # 0 /\ v # call.first
        /\ page_table' = [page_table EXCEPT ![v] = 0]
        /\ virtual_bitmap' = [virtual_bitmap EXCEPT ![v] = FALSE]
        /\ physical_bitmap' =
             [[physical_bitmap EXCEPT ![0] = FALSE]
                EXCEPT ![pa \div PGSIZE] = FALSE]
        /\ tlb' = TLB_remove(cache, v)
        /\ call' = Moved(Wrap(v + 1), call.left - 1, call.data)
        /\ tables' = tables
    BY <1>3, FreePageCases
  <2>2. page_table \in PageTables /\ page_table[call.first] = 0
    BY <1>1, <2>1 DEF FragInv, FirstUnmapped, TypeOK, PageTables
  <2>3. cache \in TlbArrays /\ Coherent(cache, page_table)
    <3>1. /\ TlbAfterTranslate(v) \in TlbArrays
          /\ Coherent(TlbAfterTranslate(v), page_table)
      BY <1>1, CoherentTranslate DEF TablesAgree
    <3>2. QED
      BY <1>1, <2>2, <3>1, CoherentEmptyEntry
  <2> HIDE DEF cache
  <2>4. Coherent(tlb', page_table')
    BY <1>1, <2>1, <2>2, <2>3, CoherentRemove
  <2>5. pa \div PGSIZE = page_table[v]
    BY <1>1, <2>1, TranslateFrame DEF TablesAgree
  <2>6. \A q \in PPages \ {0} :
           physical_bitmap'[q] <=> physical_bitmap[q] /\ q # page_table[v]
    BY <1>1, <2>1, <2>5 DEF TypeOK
  <2>7. call'.op # "malloc"
    BY <1>1, <2>1 DEF Moved
  <2>8. QED
    BY <1>1, <2>1, <2>4, <2>6, <2>7, TablesReleasePage
<1>4. QED
  BY <1>2, <1>3

LEMMA TablesFragStep == FragInv /\ [FragNext]_fragVars => TablesAgree'
<1> SUFFICES ASSUME FragInv, [FragNext]_fragVars PROVE TablesAgree'
  OBVIOUS
<1>1. TypeOK /\ TablesAgree /\ Coherent(tlb, page_table)
  BY DEF FragInv, FragTypeOK, TablesAgree, TlbCoherent, Coherent
<1>2. ASSUME NEW n \in Sizes, PackInPage(n), Idle
      PROVE  TablesAgree'
  <2>1. /\ UNCHANGED <<tables, page_table, tlb, memory, call, live, fault>>
        /\ set_physical_mem
    BY <1>2 DEF PackInPage
  <2>2. /\ \A v \in VPages \ {0} : virtual_bitmap'[v] = virtual_bitmap[v]
        /\ \A p \in PPages \ {0} : physical_bitmap'[p] = physical_bitmap[p]
    BY <1>1, <2>1 DEF set_physical_mem, set_bit_at_index, TypeOK
  <2>3. VirtualBitmapAgrees' /\ PhysicalBitmapAgrees'
    BY <1>1, <2>1, <2>2
    DEF TablesAgree, VirtualBitmapAgrees, PhysicalBitmapAgrees
  <2>4. FramesNotShared' /\ TablesExist' /\ TlbCoherent' /\ PagesToMapAreFree'
    BY <1>1, <2>1 DEF TablesAgree, FramesNotShared, TablesExist, TlbCoherent,
                      PagesToMapAreFree
  <2>5. QED
    BY <2>3, <2>4 DEF TablesAgree
<1>3. CASE Next
  BY <1>1, <1>3, TablesStep
<1>4. ASSUME NEW n \in Sizes, NEW v \in VPages, NEW o \in Offsets,
             FragFreeBegin(v, o, n)
      PROVE  TablesAgree'
  <2>1. UNCHANGED <<tableVars, tlb>>
    BY <1>4 DEF FragFreeBegin
  <2>2. call' = call \/ call'.op # "malloc"
    BY <1>4 DEF FragFreeBegin, NoCall
  <2>3. QED
    BY <1>1, <2>1, <2>2, TablesUndisturbed
<1>5. CASE FragFreePage
  BY <1>5, TablesFragFreePage
<1>6. CASE UNCHANGED fragVars
  BY <1>1, <1>6, TablesStep DEF fragVars
<1>7. QED
  BY <1>2, <1>3, <1>4, <1>5, <1>6, FragSteps
  DEF Next, FragMallocPage, FragMallocEnd, FragFreeEnd, DataStep

\* n_free goes on after a page only when it has unmapped it.
LEMMA FirstUnmappedStep ==
    FragInv /\ [FragNext]_fragVars => FirstUnmapped'
<1> SUFFICES ASSUME FragInv, [FragNext]_fragVars,
                    call'.op = "free", call'.page # call'.first
             PROVE  page_table'[call'.first] = 0
  BY DEF FirstUnmapped
<1>1. TypeOK /\ FirstUnmapped
  BY DEF FragInv, FragTypeOK
<1>2. CASE call' = call /\ page_table' = page_table
  BY <1>1, <1>2 DEF FirstUnmapped
<1>3. CASE call' = NoCall
  BY <1>3 DEF NoCall
<1>4. ASSUME NEW n \in Sizes, PackInPage(n)
      PROVE  call' = call /\ page_table' = page_table
  BY <1>4 DEF PackInPage
<1>5. ASSUME NEW n \in Sizes, MallocBegin(n)
      PROVE  call'.op # "free"
  BY <1>5, BegunMalloc DEF NoCall
<1>6. CASE MallocPage
  <2>1. call.op = "malloc" /\ call'.op \in {"malloc", "none"}
    BY <1>6 DEF MallocPage, MallocReturns, NoCall, Moved
  <2>2. QED
    BY <2>1
<1>7. ASSUME NEW n \in Sizes, NEW v \in VPages, NEW o \in Offsets,
             FragFreeBegin(v, o, n)
      PROVE  call' = call /\ page_table' = page_table
  <2>1. \/ call' = call
        \/ call' = [NoCall EXCEPT !.op = "free", !.page = v, !.off = o,
                      !.left = PageCount(n), !.bytes = n, !.first = v]
    BY <1>7 DEF FragFreeBegin
  <2>2. call' = call
    BY <2>1 DEF NoCall
  <2>3. QED
    BY <1>7, <2>2 DEF FragFreeBegin, tableVars
<1>8. CASE FragFreePage
  <2>1. call.op = "free" /\ call'.first = call.first
    BY <1>8, FreePageCases DEF FreePage, Moved
  <2>2. call.page \in VPages /\ call.first \in VPages
    BY <1>1, <2>1 DEF TypeOK, CallType
  <2>3. \/ page_table' = page_table /\ call'.page = call.page
        \/ page_table' = [page_table EXCEPT ![call.page] = 0]
    BY <1>8, FreePageCases DEF FreePage, Moved
  <2>4. QED
    BY <1>1, <2>1, <2>2, <2>3 DEF FirstUnmapped, TypeOK
<1>9. CASE FragFreeEnd \/ FragMallocEnd
  BY <1>3, <1>9
  DEF FragFreeEnd, FreeEnd, FragMallocEnd, MallocEnd, MallocReturns
<1>10. CASE DataStep
  BY <1>2, <1>10, DataStepTables DEF tableVars
<1>11. CASE UNCHANGED fragVars
  BY <1>2, <1>11 DEF fragVars, vars, tableVars
<1>12. QED
  BY <1>2, <1>4, <1>5, <1>6, <1>7, <1>8, <1>9, <1>10, <1>11, FragSteps
  DEF FragMallocPage

\* The pages that n_malloc looks for lie behind page 0.
LEMMA MallocFitsStep == FragInv /\ [FragNext]_fragVars => MallocFits'
<1> SUFFICES ASSUME FragInv, [FragNext]_fragVars, call'.op = "malloc"
             PROVE  call'.bytes + PGSIZE <= Word
  BY DEF MallocFits
<1>1. TypeOK /\ MallocFits
  BY DEF FragInv, FragTypeOK
<1>0. CASE call' = call
  BY <1>0, <1>1 DEF MallocFits
<1>2. ASSUME NEW n \in Sizes, MallocBegin(n)
      PROVE  call'.bytes + PGSIZE <= Word
  <2>1. PICK v \in FreeRuns(PageCount(n)) : call'.bytes = n
    BY <1>2, BegunMalloc DEF NoCall
  <2>2. n \in Nat
    BY ConstantsAssumption
  <2>3. v \in VPages \ {0} /\ v + PageCount(n) <= num_virtual_pages
    BY DEF FreeRuns
  <2>4. QED
    BY <2>1, <2>2, <2>3, PagesHoldBytes
<1>3. CASE FragMallocPage
  <2>1. call.op = "malloc" /\ (call' = NoCall \/ call'.bytes = call.bytes)
    BY <1>3 DEF FragMallocPage, MallocPage, MallocReturns, Moved
  <2>2. QED
    BY <1>1, <2>1 DEF MallocFits, NoCall
<1>4. CASE FragFreePage
  <2>1. call'.op = "free"
    BY <1>4, FreePageCases DEF FreePage, Moved
  <2>2. QED
    BY <2>1
<1>5. ASSUME NEW n \in Sizes, NEW v \in VPages, NEW o \in Offsets,
             FragFreeBegin(v, o, n)
      PROVE  call' = call
  BY <1>5 DEF FragFreeBegin, NoCall
<1>6. CASE FragFreeEnd \/ FragMallocEnd
  BY <1>6
  DEF FragFreeEnd, FreeEnd, FragMallocEnd, MallocEnd, MallocReturns, NoCall
<1>7. CASE DataStep
  BY <1>0, <1>7, DataStepTables
<1>8. ASSUME NEW n \in Sizes, PackInPage(n)
      PROVE  call' = call
  BY <1>8 DEF PackInPage
<1>9. CASE UNCHANGED fragVars
  BY <1>0, <1>9 DEF fragVars, vars
<1>10. QED
  BY <1>0, <1>2, <1>3, <1>4, <1>5, <1>6, <1>7, <1>8, <1>9, FragSteps

LEMMA FragInit_Inv == FragInit => FragInv
<1> SUFFICES ASSUME FragInit PROVE FragInv
  OBVIOUS
<1>1. TypeOK /\ TablesAgree /\ call = NoCall
  BY TypeInit, TablesInit DEF FragInit, Init
<1>2. 0 \in 0 .. (Word - 1)
  <2> HIDE DEF Word
  <2> QED  BY WordFacts
<1>3. NoMetadata \in PageMetadata
  BY <1>2 DEF NoMetadata, PageMetadata
<1>4. QED
  BY <1>1, <1>3
  DEF FragInit, FragInv, FragTypeOK, FirstUnmapped, MallocFits, NoCall

LEMMA FragStep == FragInv /\ [FragNext]_fragVars => FragInv'
  BY FragTypeStep, TablesFragStep, FirstUnmappedStep, MallocFitsStep
  DEF FragInv

\* Every variable keeps its type, the fields of page_metadata included, whose
\* unsigned arithmetic wraps (my_vm_frag.c:475-476, 520-521, 557-576).
THEOREM FragTypesCorrect == FragSpec => []FragTypeOK
<1>1. FragInv => FragTypeOK
  BY DEF FragInv
<1>2. QED
  BY <1>1, FragInit_Inv, FragStep, PTL DEF FragSpec

\* The tables of my_vm_frag.c agree as those of my_vm.c do, whatever clients
\* free: the page that n_free releases twice, with a frame looked up from the
\* address it was passed (my_vm_frag.c:552-576), does not spoil them.
THEOREM FragTablesAgree == FragSpec => []TablesAgree
<1>1. FragInv => TablesAgree
  BY DEF FragInv
<1>2. QED
  BY <1>1, FragInit_Inv, FragStep, PTL DEF FragSpec

-----------------------------------------------------------------------------
(***************************************************************************)
(* Clients that free an allocation only while it is alone in its page      *)
(*                                                                         *)
(* An allocation takes up bytes from the moment its page is entered until  *)
(* the page is released, so a call in progress owns bytes too.             *)
(***************************************************************************)
BeingReturned ==
    IF call.op = "malloc" /\ call.left = 0
      THEN {Extent(call.first, 0, call.bytes)} ELSE {}

BeingFreed ==
    IF call.op = "free" /\ call.left > 0
      THEN {Extent(call.first, call.off, call.bytes)} ELSE {}

Owned == held \cup BeingReturned \cup BeingFreed

\* Owned bytes lie in one page, which has a frame.
InOnePage(r) == /\ r.page \in VPages \ {0} /\ r.off \in Nat /\ r.bytes \in Nat
                /\ r.bytes > 0 /\ r.off + r.bytes <= PGSIZE

OwnedMapped == \A r \in Owned : InOnePage(r) /\ page_table[r.page] # 0

\* No byte is owned twice.
Apart(r, s) == r.off + r.bytes <= s.off \/ s.off + s.bytes <= r.off

OwnedApart ==
    \A r, s \in Owned : r # s /\ r.page = s.page => Apart(r, s)

\* The owned bytes of a page are those below next_free_offset, and the rest
\* is its remaining_space, unless nothing of the page is owned.
Covers(r, v, b) == r.page = v /\ r.off <= b /\ b < r.off + r.bytes

Room(used) == IF used = 0 THEN 0 ELSE PGSIZE - used

Accounted(v) ==
    LET m == page_metadata[v]
    IN  /\ m.next_free_offset <= PGSIZE
        /\ m.remaining_space = Room(m.next_free_offset)
        /\ \A b \in Offsets : b < m.next_free_offset
                                <=> \E r \in Owned : Covers(r, v, b)

OwnedUpTo == \A v \in VPages : Accounted(v)

\* A call allocates or frees one page, and what it frees is alone there.
MallocOfAPage ==
    call.op = "malloc" =>
        /\ call.bytes \in 1 .. PGSIZE /\ call.left \in {0, 1}
        /\ call.left = 1 => call.page = call.first

FreeOfAPage ==
    call.op = "free" =>
        /\ call.left \in {0, 1}
        /\ call.left = 1 => /\ call.page = call.first
                            /\ \A r \in held : r.page # call.first

OwnedInited == Owned # {} \/ call.op = "malloc" => inited

\* The part of the inductive invariant that is about the bytes clients hold;
\* FragInv is the other.
AloneInv == /\ Holders = "alone"
            /\ OwnedMapped /\ OwnedApart /\ OwnedUpTo
            /\ MallocOfAPage /\ FreeOfAPage /\ OwnedInited

\* There is a page besides page 0, and a full page fits in a word.
LEMMA PageFitsWord ==
    ASSUME NEW v \in VPages \ {0}
    PROVE  PGSIZE < Word
<1>1. PGSIZE \in Nat \ {0} /\ num_virtual_pages \in Nat
  BY ConstantsAssumption
<1>2. num_virtual_pages >= 2
  BY <1>1 DEF VPages
<1>3. num_virtual_pages * PGSIZE >= 2 * PGSIZE
  BY <1>1, <1>2, Z3T(30)
<1>4. Word \in Nat /\ Word >= 2 * PGSIZE
  BY <1>3, WordFacts DEF Word
<1> HIDE DEF Word
<1>5. QED
  BY <1>1, <1>4

\* A number of at most a page is itself in a word.
LEMMA InWord ==
    ASSUME NEW v \in VPages \ {0}, NEW n \in 0 .. PGSIZE
    PROVE  n % Word = n /\ n \in 0 .. (Word - 1)
<1> DEFINE W == Word
<1>1. W \in Nat \ {0} /\ PGSIZE < W /\ PGSIZE \in Nat
  BY PageFitsWord, WordFacts, ConstantsAssumption
<1> HIDE DEF W
<1>2. n % W = n /\ n \in 0 .. (W - 1)
  BY <1>1, Z3T(30)
<1>3. QED
  BY <1>2 DEF W

LEMMA OneOrNoPage ==
    /\ \A n \in 1 .. PGSIZE : PageCount(n) = 1
    /\ PageCount(0) = 0
<1>1. PGSIZE \in Nat \ {0}
  BY ConstantsAssumption
<1>2. \A n \in 1 .. PGSIZE : PageCount(n) = 1
  BY <1>1, Z3T(30) DEF PageCount
<1>3. PageCount(0) = 0
  BY <1>1, Z3T(30) DEF PageCount
<1>4. QED
  BY <1>2, <1>3

\* Owned bytes lie below the next free offset of their page.
LEMMA OwnedBelow ==
    ASSUME FragTypeOK, OwnedMapped, OwnedUpTo, NEW r \in Owned
    PROVE  /\ page_metadata[r.page].next_free_offset \in 1 .. PGSIZE
           /\ r.off + r.bytes <= page_metadata[r.page].next_free_offset
<1> DEFINE used == page_metadata[r.page].next_free_offset
           b == r.off + r.bytes - 1
<1>1. InOnePage(r) /\ r.page \in VPages /\ PGSIZE \in Nat
  BY ConstantsAssumption DEF OwnedMapped, InOnePage
<1>2. b \in Offsets /\ Covers(r, r.page, b)
  BY <1>1 DEF InOnePage, Offsets, Covers
<1>3. b < used /\ used <= PGSIZE
  BY <1>1, <1>2 DEF OwnedUpTo, Accounted
<1>4. used \in Nat
  BY <1>1 DEF FragTypeOK, PageMetadata
<1> HIDE DEF used
<1>5. QED
  BY <1>1, <1>3, <1>4 DEF InOnePage, used

\* A page in which nothing is owned, as page 0 is, has no room.
LEMMA EmptyPage ==
    ASSUME FragTypeOK, OwnedUpTo, NEW v \in VPages,
           \A r \in Owned : r.page # v
    PROVE  /\ page_metadata[v].next_free_offset = 0
           /\ page_metadata[v].remaining_space = 0
<1>1. 0 \in Offsets
  BY ConstantsAssumption DEF Offsets
<1>2. ~\E r \in Owned : Covers(r, v, 0)
  BY DEF Covers
<1>3. page_metadata[v].next_free_offset \in Nat
  BY DEF FragTypeOK, PageMetadata
<1>4. ~(0 < page_metadata[v].next_free_offset)
  BY <1>1, <1>2 DEF OwnedUpTo, Accounted
<1>5. page_metadata[v].next_free_offset = 0
  BY <1>3, <1>4
<1>6. QED
  BY <1>5 DEF OwnedUpTo, Accounted, Room

LEMMA OwnedUndisturbed ==
    ASSUME OwnedMapped, OwnedApart, OwnedUpTo,
           UNCHANGED <<page_table, page_metadata>>, Owned' = Owned
    PROVE  OwnedMapped' /\ OwnedApart' /\ OwnedUpTo'
<1>1. OwnedMapped' /\ OwnedApart'
  BY DEF OwnedMapped, OwnedApart
<1>2. OwnedUpTo'
  BY DEF OwnedUpTo, Accounted
<1>3. QED
  BY <1>1, <1>2

\* An allocation is placed behind those that are in its page.
LEMMA OwnedGrows ==
    ASSUME FragTypeOK, OwnedMapped, OwnedApart, OwnedUpTo,
           NEW v \in VPages \ {0}, NEW n \in 1 .. PGSIZE, NEW k \in Nat,
           k = page_metadata[v].next_free_offset, k + n <= PGSIZE,
           Owned' = Owned \cup {Extent(v, k, n)},
           page_metadata'[v].next_free_offset = k + n,
           page_metadata'[v].remaining_space = PGSIZE - (k + n),
           page_table'[v] # 0,
           \A w \in VPages \ {v} : /\ page_metadata'[w] = page_metadata[w]
                                   /\ page_table'[w] = page_table[w]
    PROVE  OwnedMapped' /\ OwnedApart' /\ OwnedUpTo'
<1> DEFINE new == Extent(v, k, n)
<1>1. /\ new.page = v /\ new.off = k /\ new.bytes = n
      /\ n \in Nat /\ n > 0 /\ PGSIZE \in Nat
  BY ConstantsAssumption DEF Extent
<1> HIDE DEF new
<1>2. Owned' = Owned \cup {new}
  BY DEF new
<1>3. InOnePage(new)
  BY <1>1 DEF InOnePage
<1>4. OwnedMapped'
  <2>1. ASSUME NEW r \in Owned
        PROVE  InOnePage(r) /\ page_table'[r.page] # 0
    BY DEF OwnedMapped, InOnePage
  <2>2. QED
    BY <1>1, <1>2, <1>3, <2>1 DEF OwnedMapped
<1>5. ASSUME NEW r \in Owned, r.page = v
      PROVE  Apart(r, new) /\ Apart(new, r)
  <2>1. r.off + r.bytes <= k
    BY <1>5, OwnedBelow
  <2>2. QED
    BY <1>1, <2>1 DEF Apart
<1>6. OwnedApart'
  BY <1>1, <1>2, <1>5, Zenon DEF OwnedApart
<1>7. ASSUME NEW w \in VPages
      PROVE  Accounted(w)'
  <2>1. CASE w # v
    <3>1. page_metadata'[w] = page_metadata[w]
      BY <2>1
    <3>2. ~\E b \in Offsets : Covers(new, w, b)
      BY <1>1, <2>1 DEF Covers
    <3>3. QED
      BY <1>2, <3>1, <3>2 DEF OwnedUpTo, Accounted
  <2>2. CASE w = v
    <3>1. ASSUME NEW b \in Offsets
          PROVE  b < k + n <=> \E r \in Owned' : Covers(r, v, b)
      <4>1. b \in Nat
        BY DEF Offsets
      <4>2. Covers(new, v, b) <=> k <= b /\ b < k + n
        BY <1>1 DEF Covers
      <4>3. b < k <=> \E r \in Owned : Covers(r, v, b)
        BY DEF OwnedUpTo, Accounted
      <4>4. b < k + n <=> b < k \/ (k <= b /\ b < k + n)
        BY <1>1, <4>1
      <4>5. QED
        BY <1>2, <4>2, <4>3, <4>4
    <3>2. Room(k + n) = PGSIZE - (k + n)
      BY <1>1 DEF Room
    <3>3. QED
      BY <2>2, <3>1, <3>2 DEF Accounted
  <2>3. QED
    BY <2>1, <2>2
<1>8. QED
  BY <1>4, <1>6, <1>7 DEF OwnedUpTo

\* Nothing is being returned or freed when no call allocates or frees.
LEMMA OwnedIsHeld ==
    ASSUME call.op \notin {"malloc", "free"}
    PROVE  Owned = held
  BY DEF Owned, BeingReturned, BeingFreed

LEMMA AlonePack ==
    ASSUME FragInv, AloneInv,
           NEW n \in Sizes, Idle, MayAllocate(n), Roomy(n) # {}, PackInPage(n)
    PROVE  AloneInv'
<1>1. /\ FragTypeOK /\ n \in 0 .. PGSIZE /\ PGSIZE \in Nat
      /\ OwnedMapped /\ OwnedApart /\ OwnedUpTo
  BY ConstantsAssumption DEF FragInv, AloneInv, MayAllocate
<1>2. PICK v \in VPages :
         /\ page_metadata[v].remaining_space >= n
         /\ n = 0 => v = 0
         /\ page_metadata' = [page_metadata EXCEPT ![v] =
                                AfterPacking(page_metadata[v], n)]
         /\ LET addr == (v * PGSIZE + page_metadata[v].next_free_offset) % Word
            IN  /\ addr \in 0 .. (Word - 1)
                /\ held' = HeldAfter(addr \div PGSIZE, addr % PGSIZE, n)
                /\ ret' = [NoRet EXCEPT !.op = "malloc",
                             !.page = addr \div PGSIZE,
                             !.off = addr % PGSIZE]
  BY <1>1, Packed
<1>3. /\ UNCHANGED <<page_table, call>> /\ inited' = TRUE
      /\ call.op = "none" /\ Owned = held
  BY OwnedIsHeld DEF PackInPage, set_physical_mem, Idle
<1>4. Owned' = held'
  BY <1>3 DEF Owned, BeingReturned, BeingFreed
<1> DEFINE m == page_metadata[v]
           k == m.next_free_offset
<1>5. /\ m \in PageMetadata /\ k \in Nat /\ k <= PGSIZE
      /\ m.remaining_space = Room(k)
  BY <1>1 DEF FragTypeOK, PageMetadata, OwnedUpTo, Accounted
<1>6. CASE n = 0
  <2>1. v = 0 /\ k = 0 /\ m.remaining_space = 0
    BY <1>1, <1>2, <1>6, EmptyPage DEF OwnedMapped, InOnePage
  <2>2. 0 % Word = 0 /\ 0 \div PGSIZE = 0 /\ 0 % PGSIZE = 0 /\ 0 * PGSIZE = 0
    BY WordFacts, ConstantsAssumption
  <2>3. (v * PGSIZE + k) % Word = 0
    BY <2>1, <2>2
  <2>4. held' = held
    BY <1>2, <2>2, <2>3 DEF HeldAfter
  <2>5. AfterPacking(m, n) = m
    <3>1. m.remaining_space - n = m.remaining_space
             /\ (k + n) % Word = k
      BY <1>6, <2>1, <2>2
    <3>2. QED
      BY <1>5, <3>1 DEF AfterPacking, PageMetadata
  <2>6. page_metadata' = page_metadata
    BY <1>1, <1>2, <2>5 DEF FragTypeOK
  <2>7. OwnedMapped' /\ OwnedApart' /\ OwnedUpTo'
    BY <1>1, <1>3, <1>4, <2>4, <2>6, OwnedUndisturbed
  <2>8. QED
    BY <1>3, <2>7 DEF AloneInv, MallocOfAPage, FreeOfAPage, OwnedInited
<1>7. CASE n # 0
  <2>1. k \in 1 .. PGSIZE /\ k + n <= PGSIZE /\ m.remaining_space = PGSIZE - k
    BY <1>1, <1>2, <1>5, <1>7 DEF Room
  <2>2. v \in VPages \ {0} /\ n \in 1 .. PGSIZE /\ k \in Offsets
    <3>1. v # 0
      BY <1>1, <2>1, EmptyPage DEF OwnedMapped, InOnePage
    <3>2. QED
      BY <1>1, <1>7, <2>1, <3>1 DEF Offsets
  <2>3. PICK r \in Owned : r.page = v
    <3>1. 0 \in Offsets /\ 0 < k
      BY <1>1, <2>1, ConstantsAssumption DEF Offsets
    <3>2. QED
      BY <1>1, <3>1 DEF OwnedUpTo, Accounted, Covers
  <2>4. page_table'[v] # 0
    BY <1>1, <1>3, <2>3 DEF OwnedMapped
  <2>5. held' = held \cup {Extent(v, k, n)}
    BY <1>2, <2>2, AddressFacts DEF HeldAfter
  <2>6. /\ page_metadata'[v].next_free_offset = k + n
        /\ page_metadata'[v].remaining_space = PGSIZE - (k + n)
    <3>1. m.remaining_space - n \in 0 .. PGSIZE /\ k + n \in 0 .. PGSIZE
      BY <1>1, <2>1
    <3>2. m.remaining_space - n \in 0 .. (Word - 1)
             /\ k + n \in 0 .. (Word - 1) /\ (k + n) % Word = k + n
      BY <2>2, <3>1, InWord
    <3>3. /\ AfterPacking(m, n).remaining_space = m.remaining_space - n
          /\ AfterPacking(m, n).next_free_offset = k + n
      BY <1>5, <3>2, PackingFields
    <3>4. page_metadata'[v] = AfterPacking(m, n)
      BY <1>1, <1>2 DEF FragTypeOK
    <3>5. QED
      BY <1>1, <2>1, <3>3, <3>4
  <2>7. \A w \in VPages \ {v} : /\ page_metadata'[w] = page_metadata[w]
                                /\ page_table'[w] = page_table[w]
    BY <1>1, <1>2, <1>3 DEF FragTypeOK
  <2>8. OwnedMapped' /\ OwnedApart' /\ OwnedUpTo'
    <3>1. Owned' = Owned \cup {Extent(v, k, n)}
      BY <1>3, <1>4, <2>5
    <3> HIDE DEF k, m
    <3>2. k = page_metadata[v].next_free_offset /\ k \in Nat
      BY <1>5 DEF k, m
    <3>3. QED
      BY <1>1, <2>1, <2>2, <2>4, <2>6, <2>7, <3>1, <3>2, OwnedGrows
  <2>9. QED
    BY <1>3, <2>8 DEF AloneInv, MallocOfAPage, FreeOfAPage, OwnedInited
<1>8. QED
  BY <1>6, <1>7

\* An n_malloc that looks for a page looks for one.
LEMMA AloneMallocBegin ==
    ASSUME FragInv, AloneInv,
           NEW n \in Sizes, MayAllocate(n), Roomy(n) = {}, MallocBegin(n),
           UNCHANGED <<page_metadata, held>>
    PROVE  AloneInv'
<1>1. /\ FragTypeOK /\ n \in 0 .. PGSIZE
      /\ OwnedMapped /\ OwnedApart /\ OwnedUpTo
  BY ConstantsAssumption DEF FragInv, AloneInv, MayAllocate
<1>2. n \in 1 .. PGSIZE /\ PageCount(n) = 1
  <2>1. n # 0
    <3> SUFFICES ASSUME n = 0 PROVE FALSE
      OBVIOUS
    <3>1. 0 \in VPages
      BY ConstantsAssumption DEF VPages
    <3>2. page_metadata[0].remaining_space \in Nat
      BY <1>1, <3>1 DEF FragTypeOK, PageMetadata
    <3>3. page_metadata[0].remaining_space >= n
      BY <3>2
    <3>4. QED
      BY <3>1, <3>3, Zenon DEF Roomy
  <2>2. n \in 1 .. PGSIZE
    BY <1>1, <2>1
  <2>3. QED
    BY <2>2, OneOrNoPage
<1>3. UNCHANGED page_table /\ inited' = TRUE /\ call.op = "none"
  BY DEF MallocBegin, set_physical_mem, Idle
<1>4. \/ call' = NoCall
      \/ /\ call'.op = "malloc" /\ call'.left = 1 /\ call'.bytes = n
         /\ call'.page = call'.first
  BY <1>2, BegunMalloc
<1>5. call'.op \in {"none", "malloc"} /\ (call'.op = "malloc" => call'.left = 1)
  BY <1>4 DEF NoCall
<1>6. Owned = held /\ Owned' = held
  <2>1. BeingReturned' = {} /\ BeingFreed' = {}
    BY <1>5 DEF BeingReturned, BeingFreed
  <2>2. QED
    BY <1>3, <2>1, OwnedIsHeld DEF Owned
<1>7. OwnedMapped' /\ OwnedApart' /\ OwnedUpTo'
  BY <1>1, <1>3, <1>6, OwnedUndisturbed
<1>8. MallocOfAPage' /\ FreeOfAPage' /\ OwnedInited'
  BY <1>2, <1>3, <1>4, <1>5 DEF MallocOfAPage, FreeOfAPage, OwnedInited, NoCall
<1>9. QED
  BY <1>7, <1>8 DEF AloneInv

\* The page is entered with the allocation at its start.
LEMMA AloneMallocPage ==
    ASSUME FragInv, AloneInv, FragMallocPage
    PROVE  AloneInv'
<1> DEFINE v == call.page
           p == get_next_avail_physical
           n == call.bytes
<1>1. /\ FragTypeOK /\ TypeOK /\ PGSIZE \in Nat /\ TablesAgree
      /\ OwnedMapped /\ OwnedApart /\ OwnedUpTo
      /\ MallocPage /\ UNCHANGED held /\ call.op = "malloc"
  BY ConstantsAssumption
  DEF FragInv, FragTypeOK, AloneInv, FragMallocPage, MallocPage
<1>2. /\ call.left = 1 /\ v = call.first /\ n \in 1 .. PGSIZE
      /\ v \in Nat /\ inited
  BY <1>1 DEF AloneInv, MallocOfAPage, MallocPage, TypeOK, CallType, OwnedInited
<1>3. v \in VPages \ {0} /\ page_table[v] = 0 /\ ~virtual_bitmap[v]
  <2>1. v \in v .. (v + call.left - 1)
    BY <1>2
  <2>2. v \in VPages \ {0} /\ page_table[v] = 0
    BY <1>1, <2>1 DEF TablesAgree, PagesToMapAreFree
  <2>3. QED
    BY <1>1, <2>2 DEF TablesAgree, VirtualBitmapAgrees
<1>4. Owned = held
  BY <1>1, <1>2 DEF Owned, BeingReturned, BeingFreed
<1>5. inited' = inited
  BY <1>1 DEF MallocPage
<1>6. CASE p = 0
  <2>1. /\ call' = NoCall
        /\ UNCHANGED <<page_table, virtual_bitmap>>
    BY <1>1, <1>6 DEF MallocPage, MallocReturns
  <2>2. UNCHANGED page_metadata
    BY <2>1 DEF FragMallocPage
  <2>3. call'.op = "none"
    BY <2>1 DEF NoCall
  <2>4. Owned' = held
    BY <1>1, <2>3 DEF Owned, BeingReturned, BeingFreed
  <2>5. OwnedMapped' /\ OwnedApart' /\ OwnedUpTo'
    BY <1>1, <1>4, <2>1, <2>2, <2>4, OwnedUndisturbed
  <2>6. QED
    BY <1>2, <1>5, <2>3, <2>5
    DEF AloneInv, MallocOfAPage, FreeOfAPage, OwnedInited
<1>7. CASE p # 0
  <2>1. /\ page_table' = [page_table EXCEPT ![v] = p]
        /\ virtual_bitmap' = [virtual_bitmap EXCEPT ![v] = TRUE]
        /\ call' = Moved(v + 1, call.left - 1, call.data)
    BY <1>1, <1>3, <1>7 DEF MallocPage, map_page, set_bit_at_index
  <2>2. page_metadata' = [page_metadata EXCEPT ![v] = NewPage(n)]
    <3>1. virtual_bitmap'[v] # virtual_bitmap[v]
      BY <1>1, <1>3, <2>1 DEF TypeOK
    <3>2. QED
      BY <3>1 DEF FragMallocPage
  <2>3. /\ page_metadata'[v].next_free_offset = n
        /\ page_metadata'[v].remaining_space = PGSIZE - n
    <3>1. PGSIZE - n \in 0 .. PGSIZE
      BY <1>1, <1>2
    <3>2. (PGSIZE - n) % Word = PGSIZE - n
      BY <1>3, <3>1, InWord
    <3>3. page_metadata'[v] = NewPage(n)
      BY <1>1, <1>3, <2>2 DEF FragTypeOK
    <3>4. QED
      BY <3>2, <3>3 DEF NewPage
  <2>4. page_table'[v] # 0
    BY <1>1, <1>3, <1>7, <2>1 DEF TypeOK
  <2>5. \A w \in VPages \ {v} : /\ page_metadata'[w] = page_metadata[w]
                                /\ page_table'[w] = page_table[w]
    BY <1>1, <2>1, <2>2 DEF FragTypeOK, TypeOK
  <2>6. page_metadata[v].next_free_offset = 0
    BY <1>1, <1>3, EmptyPage DEF OwnedMapped
  <2>7. /\ call'.op = "malloc" /\ call'.left = 0 /\ call'.bytes = n
        /\ call'.first = v
    BY <1>1, <1>2, <2>1 DEF Moved
  <2>8. Owned' = Owned \cup {Extent(v, 0, n)}
    BY <1>1, <1>4, <2>7 DEF Owned, BeingReturned, BeingFreed
  <2>9. OwnedMapped' /\ OwnedApart' /\ OwnedUpTo'
    <3> HIDE DEF v, n
    <3>1. 0 + n = n /\ n <= PGSIZE
      BY <1>1, <1>2
    <3>2. QED
      BY <1>1, <1>2, <1>3, <2>3, <2>4, <2>5, <2>6, <2>8, <3>1, OwnedGrows
  <2>10. MallocOfAPage' /\ FreeOfAPage' /\ OwnedInited'
    BY <1>2, <1>5, <2>7 DEF MallocOfAPage, FreeOfAPage, OwnedInited
  <2>11. QED
    BY <2>9, <2>10 DEF AloneInv
<1>8. QED
  BY <1>6, <1>7

LEMMA AloneMallocEnd ==
    ASSUME FragInv, AloneInv, FragMallocEnd
    PROVE  AloneInv'
<1>1. /\ OwnedMapped /\ OwnedApart /\ OwnedUpTo
      /\ call.op = "malloc" /\ call.left = 0 /\ call' = NoCall
      /\ held' = HeldAfter(call.first, 0, call.bytes)
      /\ UNCHANGED <<page_table, page_metadata, inited>>
  BY DEF AloneInv, FragMallocEnd, MallocEnd, MallocReturns, tableVars
<1>2. Owned = held \cup {Extent(call.first, 0, call.bytes)}
  BY <1>1 DEF Owned, BeingReturned, BeingFreed
<1>3. call.first # 0
  <2>1. Extent(call.first, 0, call.bytes).page # 0
    BY <1>1, <1>2 DEF OwnedMapped, InOnePage
  <2>2. QED
    BY <2>1 DEF Extent
<1>4. call'.op = "none"
  BY <1>1 DEF NoCall
<1>5. Owned' = Owned
  BY <1>1, <1>2, <1>3, <1>4 DEF HeldAfter, Owned, BeingReturned, BeingFreed
<1>6. OwnedMapped' /\ OwnedApart' /\ OwnedUpTo'
  BY <1>1, <1>5, OwnedUndisturbed
<1>7. QED
  BY <1>1, <1>4, <1>5, <1>6
  DEF AloneInv, MallocOfAPage, FreeOfAPage, OwnedInited

\* What a client frees is its only allocation in that page.
LEMMA AloneFreeBegin ==
    ASSUME FragInv, AloneInv,
           NEW n \in Sizes, NEW v \in VPages, NEW o \in Offsets,
           FragFreeBegin(v, o, n)
    PROVE  AloneInv'
<1> DEFINE r == Extent(v, o, n)
<1>1. /\ OwnedMapped /\ OwnedApart /\ OwnedUpTo
      /\ call.op = "none" /\ Owned = held
      /\ r \in held /\ Alone(r) /\ held' = held \ {r}
      /\ UNCHANGED <<page_table, page_metadata, inited>>
  BY OwnedIsHeld DEF AloneInv, FragFreeBegin, Idle, MayRelease, tableVars
<1>2. /\ r.page = v /\ r.off = o /\ r.bytes = n
  BY DEF Extent
<1>3. /\ v # 0 /\ n \in 1 .. PGSIZE /\ inited
  <2>1. InOnePage(r) /\ inited
    BY <1>1 DEF AloneInv, OwnedMapped, OwnedInited
  <2>2. o \in Nat /\ n \in Nat /\ PGSIZE \in Nat
    BY ConstantsAssumption DEF Offsets
  <2>3. QED
    BY <1>2, <2>1, <2>2 DEF InOnePage
<1>4. /\ call'.op = "free" /\ call'.page = v /\ call'.off = o
      /\ call'.left = 1 /\ call'.bytes = n /\ call'.first = v
  <2>1. call' = [NoCall EXCEPT !.op = "free", !.page = v, !.off = o,
                   !.left = PageCount(n), !.bytes = n, !.first = v]
    BY <1>3 DEF FragFreeBegin
  <2>2. PageCount(n) = 1 /\ PageCount(n) \in Nat
    BY <1>3, OneOrNoPage
  <2>3. "free" \in Ops /\ v \in Nat /\ n \in Nat
    BY ConstantsAssumption DEF Ops, VPages
  <2>4. /\ call'.op = "free" /\ call'.page = v /\ call'.off = o
        /\ call'.left = PageCount(n) /\ call'.bytes = n /\ call'.first = v
    BY <2>1, <2>2, <2>3, NoCallTypes DEF CallType
  <2>5. QED
    BY <2>2, <2>4
<1>5. Owned' = Owned
  <2>1. BeingReturned' = {} /\ BeingFreed' = {r}
    BY <1>4 DEF BeingReturned, BeingFreed
  <2> HIDE DEF r
  <2>2. QED
    BY <1>1, <2>1 DEF Owned
<1>6. OwnedMapped' /\ OwnedApart' /\ OwnedUpTo'
  BY <1>1, <1>5, OwnedUndisturbed
<1>7. FreeOfAPage'
  <2>1. \A s \in held' : s.page # v
    BY <1>1, <1>2 DEF Alone
  <2>2. QED
    BY <1>4, <2>1 DEF FreeOfAPage
<1>8. MallocOfAPage' /\ OwnedInited'
  BY <1>1, <1>3, <1>4 DEF MallocOfAPage, OwnedInited
<1>9. QED
  BY <1>6, <1>7, <1>8 DEF AloneInv

\* The page is released with its entry of page_metadata.
LEMMA AloneFreePage ==
    ASSUME FragInv, AloneInv, FragFreePage
    PROVE  AloneInv'
<1> DEFINE v == call.page
           r == Extent(call.first, call.off, call.bytes)
           m == page_metadata[v]
<1>1. /\ FragTypeOK /\ TypeOK /\ TablesAgree /\ PGSIZE \in Nat \ {0}
      /\ OwnedMapped /\ OwnedApart /\ OwnedUpTo
      /\ call.op = "free" /\ call.left > 0 /\ UNCHANGED held
  BY ConstantsAssumption
  DEF FragInv, FragTypeOK, AloneInv, FragFreePage, FreePage
<1>2. /\ call.left = 1 /\ v = call.first
      /\ \A s \in held : s.page # v
      /\ call.off \in Offsets /\ call.bytes \in Nat
  BY <1>1 DEF AloneInv, FreeOfAPage, TypeOK, CallType
<1>3. Owned = held \cup {r}
  BY <1>1 DEF Owned, BeingReturned, BeingFreed
<1>4. /\ r.page = v /\ r.off = call.off /\ r.bytes = call.bytes
  BY <1>2 DEF Extent
<1>5. InOnePage(r) /\ page_table[v] # 0 /\ v \in VPages \ {0} /\ inited
  BY <1>1, <1>3, <1>4
  DEF AloneInv, OwnedMapped, InOnePage, OwnedInited
<1>6. translate(v, call.off) # 0
  <2>1. page_table[v] \in Nat \ {0} /\ call.off \in Nat
    BY <1>1, <1>2, <1>5 DEF TypeOK, PPages, Offsets
  <2>2. Walked(v) \/ Cached(v)
    BY <1>1, <1>5 DEF Walked, TablesAgree, TablesExist
  <2>3. CASE Cached(v)
    <3>1. TLB_check(v) \in Nat \ {0}
      BY <1>1, <1>5, <2>3, LookupTypes DEF Cached, PPages
    <3>2. TLB_check(v) * PGSIZE # 0
      BY <1>1, <3>1, Z3T(30)
    <3>3. QED
      BY <2>3, <3>2 DEF translate
  <2>4. CASE ~Cached(v)
    <3>1. page_table[v] * PGSIZE > 0 /\ page_table[v] * PGSIZE \in Nat
      BY <1>1, <2>1, Z3T(30)
    <3>2. page_table[v] * PGSIZE + call.off # 0
      BY <2>1, <3>1
    <3>3. QED
      BY <2>2, <2>4, <3>2 DEF translate
  <2>5. QED
    BY <2>3, <2>4
<1>7. /\ page_table' = [page_table EXCEPT ![v] = 0]
      /\ call' = Moved(Wrap(v + 1), 0, call.data)
      /\ inited' = inited
  <2>1. FreePage
    BY <1>2, FreePageCases
  <2>2. QED
    BY <1>2, <1>6, <2>1 DEF FreePage
<1>8. page_metadata' = [page_metadata EXCEPT ![v] = AfterFreeing(m, call.bytes)]
  BY <1>6 DEF FragFreePage
<1>9. call'.op = "free" /\ call'.left = 0
  BY <1>1, <1>7 DEF Moved
<1>10. Owned' = held
  BY <1>1, <1>9 DEF Owned, BeingReturned, BeingFreed
<1>11. m.remaining_space + call.bytes = PGSIZE
  <2> DEFINE k == m.next_free_offset
             n == call.bytes
             o == call.off
  <2>1. /\ k \in Nat /\ k <= PGSIZE /\ o + n <= k
        /\ n \in Nat /\ n > 0 /\ o \in Nat
        /\ m.remaining_space = PGSIZE - k
    <3>1. /\ k \in 1 .. PGSIZE /\ o + n <= k
      BY <1>1, <1>3, <1>4, OwnedBelow
    <3>2. m.remaining_space = Room(k)
      BY <1>1, <1>5 DEF OwnedUpTo, Accounted
    <3>3. n \in Nat /\ n > 0 /\ o \in Nat
      BY <1>2, <1>4, <1>5 DEF InOnePage
    <3> HIDE DEF k, n, o
    <3>4. QED
      BY <1>1, <3>1, <3>2, <3>3 DEF Room
  <2>2. \A b \in Offsets : b < k => o <= b /\ b < o + n
    <3>1. \A b \in Offsets : b < k => \E s \in Owned : Covers(s, v, b)
      BY <1>1, <1>5 DEF OwnedUpTo, Accounted
    <3>2. \A s \in Owned : s.page = v => s = r
      BY <1>2, <1>3
    <3>3. QED
      BY <1>4, <3>1, <3>2 DEF Covers
  <2>3. 0 \in Offsets /\ k - 1 \in Offsets
    <3> HIDE DEF k, o
    <3>1. QED
      BY <1>1, <2>1 DEF Offsets
  <2> HIDE DEF k, n, o
  <2>4. o <= 0 /\ k - 1 < o + n
    BY <1>1, <2>1, <2>2, <2>3
  <2>5. QED
    BY <1>1, <2>1, <2>4 DEF n
<1>12. page_metadata'[v] = NoMetadata
  <2>1. PGSIZE \in 0 .. PGSIZE
    BY <1>1
  <2>2. PGSIZE % Word = PGSIZE
    BY <1>5, <2>1, InWord
  <2>3. AfterFreeing(m, call.bytes) = NoMetadata
    BY <1>11, <2>2 DEF AfterFreeing, Emptied
  <2>4. QED
    BY <1>1, <1>5, <1>8, <2>3 DEF FragTypeOK
<1>13. \A w \in VPages \ {v} : /\ page_metadata'[w] = page_metadata[w]
                               /\ page_table'[w] = page_table[w]
  BY <1>1, <1>7, <1>8 DEF FragTypeOK, TypeOK
<1> HIDE DEF r, m
<1>14. OwnedMapped'
  BY <1>1, <1>2, <1>3, <1>10, <1>13 DEF OwnedMapped, InOnePage
<1>15. OwnedApart'
  BY <1>1, <1>3, <1>10 DEF OwnedApart
<1>16. ASSUME NEW w \in VPages
       PROVE  Accounted(w)'
  <2>1. CASE w = v
    <3>1. ~\E b \in Offsets : \E s \in Owned' : Covers(s, w, b)
      BY <1>2, <1>10, <2>1 DEF Covers
    <3>2. \A b \in Offsets : ~(b < 0)
      BY DEF Offsets
    <3>3. /\ page_metadata'[w].next_free_offset = 0
          /\ page_metadata'[w].remaining_space = 0
      BY <1>12, <2>1 DEF NoMetadata
    <3>4. QED
      BY <1>1, <3>1, <3>2, <3>3 DEF Accounted, Room
  <2>2. CASE w # v
    <3>1. \A b \in Offsets : ~Covers(r, w, b)
      BY <1>4, <2>2 DEF Covers
    <3>2. page_metadata'[w] = page_metadata[w]
      BY <1>13, <2>2
    <3>3. QED
      BY <1>1, <1>3, <1>10, <3>1, <3>2 DEF OwnedUpTo, Accounted
  <2>3. QED
    BY <2>1, <2>2
<1>17. MallocOfAPage' /\ FreeOfAPage' /\ OwnedInited'
  BY <1>5, <1>7, <1>9 DEF MallocOfAPage, FreeOfAPage, OwnedInited
<1>18. QED
  BY <1>14, <1>15, <1>16, <1>17 DEF AloneInv, OwnedUpTo

LEMMA AloneStep ==
    FragInv /\ AloneInv /\ [FragNext]_fragVars => AloneInv'
<1> SUFFICES ASSUME FragInv, AloneInv,
                    [FragNext]_fragVars
             PROVE  AloneInv'
  OBVIOUS
<1>1. OwnedMapped /\ OwnedApart /\ OwnedUpTo
  BY DEF AloneInv
<1>2. ASSUME NEW n \in Sizes, Idle, MayAllocate(n), Roomy(n) # {},
             PackInPage(n)
      PROVE  AloneInv'
  BY <1>2, AlonePack
<1>3. ASSUME NEW n \in Sizes, MallocBegin(n), MayAllocate(n), Roomy(n) = {},
             UNCHANGED <<page_metadata, held>>
      PROVE  AloneInv'
  BY <1>3, AloneMallocBegin
<1>4. CASE FragMallocPage
  BY <1>4, AloneMallocPage
<1>5. CASE FragMallocEnd
  BY <1>5, AloneMallocEnd
<1>6. ASSUME NEW n \in Sizes, NEW v \in VPages, NEW o \in Offsets,
             FragFreeBegin(v, o, n)
      PROVE  AloneInv'
  BY <1>6, AloneFreeBegin
<1>7. CASE FragFreePage
  BY <1>7, AloneFreePage
<1>8. ASSUME UNCHANGED <<tableVars, page_metadata, held>>,
             \/ call' = call
             \/ /\ call.op \notin {"malloc", "free"}
                /\ call'.op \notin {"malloc", "free"}
             \/ FreeEnd
      PROVE  AloneInv'
  <2>1. UNCHANGED <<page_table, page_metadata, held, inited>>
    BY <1>8 DEF tableVars
  <2>2. CASE call' = call
    <3>1. Owned' = Owned
      BY <2>1, <2>2 DEF Owned, BeingReturned, BeingFreed
    <3>2. QED
      BY <1>1, <2>1, <2>2, <3>1, OwnedUndisturbed
      DEF AloneInv, MallocOfAPage, FreeOfAPage, OwnedInited
  <2>3. CASE call' # call
    <3>1. /\ call'.op \notin {"malloc", "free"}
          /\ Owned = held
      <4>1. CASE FreeEnd
        BY <4>1 DEF FreeEnd, NoCall, Owned, BeingReturned, BeingFreed
      <4>2. CASE ~FreeEnd
        BY <1>8, <2>3, <4>2, OwnedIsHeld
      <4>3. QED
        BY <4>1, <4>2
    <3>2. Owned' = Owned
      BY <2>1, <3>1 DEF Owned, BeingReturned, BeingFreed
    <3>3. OwnedMapped' /\ OwnedApart' /\ OwnedUpTo'
      BY <1>1, <2>1, <3>2, OwnedUndisturbed
    <3>4. QED
      BY <2>1, <3>1, <3>2, <3>3
      DEF AloneInv, MallocOfAPage, FreeOfAPage, OwnedInited
  <2>4. QED
    BY <2>2, <2>3
<1>9. CASE DataStep /\ UNCHANGED <<page_metadata, held>>
  BY <1>8, <1>9, DataStepTables
<1>10. CASE FragFreeEnd
  BY <1>8, <1>10 DEF FragFreeEnd, FreeEnd
<1>11. CASE UNCHANGED fragVars
  BY <1>8, <1>11 DEF fragVars, vars
<1>12. QED
  BY <1>2, <1>3, <1>4, <1>5, <1>6, <1>7, <1>9, <1>10, <1>11, FragSteps

LEMMA AloneInit == Holders = "alone" /\ FragInit => AloneInv
<1> SUFFICES ASSUME Holders = "alone", FragInit PROVE AloneInv
  OBVIOUS
<1>1. /\ held = {} /\ call.op = "none"
      /\ page_metadata = [v \in VPages |-> NoMetadata]
  BY DEF FragInit, Init, NoCall
<1>2. Owned = {}
  BY <1>1, OwnedIsHeld
<1>3. OwnedUpTo
  <2>1. /\ NoMetadata.next_free_offset = 0 /\ NoMetadata.remaining_space = 0
        /\ PGSIZE \in Nat
    BY ConstantsAssumption DEF NoMetadata
  <2>2. \A b \in Offsets : ~(b < 0)
    BY DEF Offsets
  <2>3. QED
    BY <1>1, <1>2, <2>1, <2>2 DEF OwnedUpTo, Accounted, Room
<1>4. QED
  BY <1>1, <1>2, <1>3
  DEF AloneInv, OwnedMapped, OwnedApart, MallocOfAPage, FreeOfAPage,
      OwnedInited

\* FragInv and AloneInv are inductive together.
LEMMA AloneAlways ==
    Holders = "alone" /\ FragSpec => [](FragInv /\ AloneInv)
<1>1. Holders = "alone" /\ FragInit => FragInv /\ AloneInv
  BY FragInit_Inv, AloneInit
<1>2. FragInv /\ AloneInv /\ [FragNext]_fragVars
        => (FragInv /\ AloneInv)'
  BY FragStep, AloneStep
<1>3. QED
  BY <1>1, <1>2, PTL DEF FragSpec

-----------------------------------------------------------------------------
(***************************************************************************)
(* What clients see                                                        *)
(***************************************************************************)

\* The bytes of a range that lies in one page.
LEMMA BytesInPage ==
    ASSUME NEW r, InOnePage(r), NEW b \in BytesOf(r)
    PROVE  /\ b \in 0 .. (Word - 1) /\ b \div PGSIZE = r.page
           /\ \E i \in Offsets : /\ b = r.page * PGSIZE + i
                                 /\ r.off <= i /\ i < r.off + r.bytes
<1> DEFINE base == r.page * PGSIZE
           i == b - base
<1>1. r.page \in VPages /\ PGSIZE \in Nat /\ r.off \in Nat /\ r.bytes \in Nat
         /\ r.off + r.bytes <= PGSIZE
  BY ConstantsAssumption DEF InOnePage
<1>2. base \in Nat
  BY <1>1, ConstantsAssumption, Z3T(30) DEF VPages
<1>3. b \in (base + r.off) .. (base + r.off + r.bytes - 1)
  BY DEF BytesOf
<1> HIDE DEF base
<1>4. /\ i \in 0 .. (PGSIZE - 1) /\ b = base + i
      /\ r.off <= i /\ i < r.off + r.bytes
  BY <1>1, <1>2, <1>3
<1> HIDE DEF i
<1>5. i \in Offsets /\ b = r.page * PGSIZE + i
  BY <1>4 DEF Offsets, base
<1>6. QED
  BY <1>1, <1>4, <1>5, AddressFacts

\* Conversely, the bytes of a page that a range covers.
LEMMA CoveredBytes ==
    ASSUME NEW r, InOnePage(r), NEW i \in Nat,
           r.off <= i, i < r.off + r.bytes
    PROVE  r.page * PGSIZE + i \in BytesOf(r)
<1> DEFINE base == r.page * PGSIZE
<1>1. r.page \in Nat /\ r.off \in Nat /\ r.bytes \in Nat
  BY ConstantsAssumption DEF InOnePage, VPages
<1>2. base \in Nat
  BY <1>1, ConstantsAssumption, Z3T(30)
<1> HIDE DEF base
<1>3. base + i \in (base + r.off) .. (base + r.off + r.bytes - 1)
  BY <1>1, <1>2
<1>4. QED
  BY <1>3 DEF BytesOf, base

LEMMA AloneDisjoint == AloneInv => HeldDisjoint
<1> SUFFICES ASSUME AloneInv, NEW r \in held, NEW s \in held, r # s,
                    NEW b \in BytesOf(r), b \in BytesOf(s)
             PROVE  FALSE
  BY DEF HeldDisjoint
<1>1. /\ r \in Owned /\ s \in Owned /\ InOnePage(r) /\ InOnePage(s)
  BY DEF Owned, AloneInv, OwnedMapped
<1>2. b \div PGSIZE = r.page /\ b \div PGSIZE = s.page
  BY <1>1, BytesInPage
<1>3. Apart(r, s)
  BY <1>1, <1>2 DEF AloneInv, OwnedApart
<1>4. PICK i \in Offsets : /\ b = r.page * PGSIZE + i
                           /\ r.off <= i /\ i < r.off + r.bytes
  BY <1>1, BytesInPage
<1>5. PICK j \in Offsets : /\ b = s.page * PGSIZE + j
                           /\ s.off <= j /\ j < s.off + s.bytes
  BY <1>1, BytesInPage
<1>6. i = j
  <2>1. r.page \in VPages /\ s.page \in VPages
    BY <1>1 DEF InOnePage
  <2>2. b % PGSIZE = i /\ b % PGSIZE = j
    BY <1>4, <1>5, <2>1, AddressFacts
  <2>3. QED
    BY <2>2
<1>7. i \in Nat
  BY DEF Offsets
<1>8. r.off \in Nat /\ r.bytes \in Nat /\ s.off \in Nat /\ s.bytes \in Nat
  BY <1>1 DEF InOnePage
<1>9. /\ r.off <= i /\ i < r.off + r.bytes
      /\ s.off <= i /\ i < s.off + s.bytes
  BY <1>4, <1>5, <1>6
<1>10. QED
  BY <1>3, <1>7, <1>8, <1>9 DEF Apart

LEMMA AloneMapped == AloneInv => HeldMapped
<1> SUFFICES ASSUME AloneInv, NEW r \in held, NEW b \in BytesOf(r)
             PROVE  b < Word /\ page_table[b \div PGSIZE] # 0
  BY DEF HeldMapped
<1>1. InOnePage(r) /\ page_table[r.page] # 0
  BY DEF Owned, AloneInv, OwnedMapped
<1>2. b \in 0 .. (Word - 1) /\ b \div PGSIZE = r.page
  BY <1>1, BytesInPage
<1>3. b < Word
  <2> DEFINE W == Word
  <2>1. W \in Nat /\ b \in 0 .. (W - 1)
    BY <1>2, WordFacts
  <2> HIDE DEF W
  <2>2. b < W
    BY <2>1
  <2>3. QED
    BY <2>2 DEF W
<1>4. QED
  BY <1>1, <1>2, <1>3

LEMMA AloneAccounted == FragTypeOK /\ AloneInv => SpaceAccounted
<1> SUFFICES ASSUME FragTypeOK, AloneInv,
                    call.op \notin {"malloc", "free"},
                    NEW v \in VPages \ {0}
             PROVE  LET m == page_metadata[v]
                    IN  /\ m.next_free_offset = Cardinality(HeldIn(v))
                        /\ IF HeldIn(v) = {} THEN m.remaining_space = 0
                           ELSE m.remaining_space = PGSIZE - m.next_free_offset
  BY DEF SpaceAccounted
<1> DEFINE k == page_metadata[v].next_free_offset
           base == v * PGSIZE
<1>1. Owned = held /\ OwnedMapped /\ Accounted(v)
  BY OwnedIsHeld DEF AloneInv, OwnedUpTo
<1>2. k \in Nat /\ k <= PGSIZE /\ PGSIZE \in Nat
         /\ page_metadata[v].remaining_space = Room(k)
  BY <1>1, ConstantsAssumption DEF FragTypeOK, PageMetadata, Accounted
<1>3. base \in Nat
  BY ConstantsAssumption, Z3T(30) DEF VPages
<1>4. HeldIn(v) = base .. (base + k - 1)
  <2>1. ASSUME NEW b \in HeldIn(v)
        PROVE  b \in base .. (base + k - 1)
    <3>1. PICK r \in held : r.page = v /\ b \in BytesOf(r)
      BY DEF HeldIn
    <3>2. InOnePage(r)
      BY <1>1, <3>1 DEF OwnedMapped
    <3>3. PICK i \in Offsets : /\ b = r.page * PGSIZE + i
                               /\ r.off <= i /\ i < r.off + r.bytes
      BY <3>1, <3>2, BytesInPage
    <3>4. i < k
      BY <1>1, <3>1, <3>3 DEF Accounted, Covers
    <3>5. b = base + i /\ i \in Nat
      BY <3>1, <3>3 DEF Offsets
    <3> HIDE DEF k, base
    <3>6. QED
      BY <1>2, <1>3, <3>4, <3>5
  <2>2. ASSUME NEW b \in base .. (base + k - 1)
        PROVE  b \in HeldIn(v)
    <3> DEFINE i == b - base
    <3>1. i \in Nat /\ i < k /\ i \in 0 .. (PGSIZE - 1) /\ b = base + i
      <4> HIDE DEF base, k
      <4> QED  BY <1>2, <1>3, <2>2
    <3>2. i \in Offsets
      BY <3>1 DEF Offsets
    <3> HIDE DEF i
    <3>3. PICK r \in held : r.page = v /\ r.off <= i /\ i < r.off + r.bytes
      BY <1>1, <3>1, <3>2 DEF Accounted, Covers
    <3>4. b \in BytesOf(r)
      <4>1. InOnePage(r)
        BY <1>1, <3>3 DEF OwnedMapped
      <4>2. r.page * PGSIZE + i \in BytesOf(r)
        BY <3>1, <3>3, <4>1, CoveredBytes
      <4>3. QED
        BY <3>1, <3>3, <4>2
    <3>5. QED
      BY <3>3, <3>4 DEF HeldIn
  <2>3. QED
    BY <2>1, <2>2
<1> HIDE DEF k, base
<1>5. Cardinality(HeldIn(v)) = k
  <2>1. base \in Int /\ base + k - 1 \in Int
    BY <1>2, <1>3
  <2>2. Cardinality(HeldIn(v))
          = IF base > base + k - 1 THEN 0 ELSE (base + k - 1) - base + 1
    BY <1>4, <2>1, FS_Interval
  <2>3. QED
    BY <1>2, <1>3, <2>2
<1>6. HeldIn(v) = {} <=> k = 0
  BY <1>2, <1>3, <1>4
<1>7. QED
  BY <1>2, <1>5, <1>6 DEF Room, k

\* No byte belongs to two allocations, wherever in a page they were placed
\* (my_vm_frag.c:467-480, 520-521).
THEOREM AllocationsShareNoByte ==
    Holders = "alone" /\ FragSpec => []HeldDisjoint
<1>1. FragInv /\ AloneInv => HeldDisjoint
  BY AloneDisjoint
<1>2. QED
  BY <1>1, AloneAlways, PTL

\* A page is not released while a client holds bytes in it
\* (my_vm_frag.c:559-590).
THEOREM AllocationsStayMapped ==
    Holders = "alone" /\ FragSpec => []HeldMapped
<1>1. FragInv /\ AloneInv => HeldMapped
  BY AloneMapped
<1>2. QED
  BY <1>1, AloneAlways, PTL

\* No byte of a page is lost: the entry of page_metadata says how many bytes
\* of the page clients hold and how many are left behind them.
THEOREM NoSpaceLost == Holders = "alone" /\ FragSpec => []SpaceAccounted
<1>1. FragInv /\ AloneInv => SpaceAccounted
  BY AloneAccounted DEF FragInv
<1>2. QED
  BY <1>1, AloneAlways, PTL

=============================================================================
