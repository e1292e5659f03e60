------------------------ MODULE MyVmRefinementProofs ------------------------
(***************************************************************************)
(* my_vm.c implements VirtualMemory, for clients that free what they got,  *)
(* once, and access it from the start of a page on, and for every size of  *)
(* memory, pages, tables and TLB. A call of no bytes is among theirs.      *)
(***************************************************************************)
EXTENDS MyVmAllocationProofs, SequenceTheorems

(***************************************************************************)
(* Addresses                                                               *)
(***************************************************************************)

\* The first bytes of pages are in the order of the pages.
LEMMA PagesInOrder ==
    ASSUME NEW v \in Nat, NEW w \in Nat
    PROVE  /\ v * PGSIZE \in Nat /\ w * PGSIZE \in Nat
           /\ (v + 1) * PGSIZE = v * PGSIZE + PGSIZE
           /\ v <= w => /\ v * PGSIZE <= w * PGSIZE
                        /\ (w - v) * PGSIZE = w * PGSIZE - v * PGSIZE
           /\ v * PGSIZE < w * PGSIZE => v < w
<1>0. PGSIZE \in Nat \ {0}
  BY ConstantsAssumption
<1>1. \A x \in Nat : x * PGSIZE \in Nat
  BY <1>0, Z3T(30)
<1>2. (v + 1) * PGSIZE = v * PGSIZE + PGSIZE
  BY <1>0, Z3T(30)
<1>3. ASSUME NEW x \in Nat, NEW y \in Nat, x <= y
      PROVE  x * PGSIZE <= y * PGSIZE
             /\ (y - x) * PGSIZE = y * PGSIZE - x * PGSIZE
  <2>1. PICK d \in Nat : y = x + d
    <3>1. y - x \in Nat /\ y = x + (y - x)
      BY <1>3
    <3>2. QED
      BY <3>1
  <2>2. y * PGSIZE = x * PGSIZE + d * PGSIZE
    BY <1>0, <2>1, Z3T(30)
  <2>3. x * PGSIZE \in Nat /\ y * PGSIZE \in Nat /\ d * PGSIZE \in Nat
    BY <1>1
  <2>4. y - x = d
    BY <2>1
  <2>5. QED
    BY <2>2, <2>3, <2>4
<1>4. v * PGSIZE < w * PGSIZE => v < w
  <2>1. CASE w <= v
    BY <1>1, <1>3, <2>1
  <2>2. QED
    BY <2>1
<1>5. QED
  BY <1>1, <1>2, <1>3, <1>4

\* An address is a page and an offset, in one way.
LEMMA AddressParts ==
    ASSUME NEW b \in Nat
    PROVE  /\ b \div PGSIZE \in Nat /\ b % PGSIZE \in Offsets
           /\ b = (b \div PGSIZE) * PGSIZE + (b % PGSIZE)
<1>1. PGSIZE \in Nat \ {0}
  BY ConstantsAssumption
<1>2. b \div PGSIZE \in Nat /\ b % PGSIZE \in Offsets
  BY <1>1 DEF Offsets
<1>3. b = (b \div PGSIZE) * PGSIZE + (b % PGSIZE)
  BY <1>1, Z3T(30)
<1>4. QED
  BY <1>2, <1>3

LEMMA PartsOfAddress ==
    ASSUME NEW v \in Nat, NEW o \in Offsets
    PROVE  /\ v * PGSIZE + o \in Nat
           /\ (v * PGSIZE + o) \div PGSIZE = v
           /\ (v * PGSIZE + o) % PGSIZE = o
<1> DEFINE b == v * PGSIZE + o
<1>1. b \in Nat /\ b \div PGSIZE = v /\ v * PGSIZE \in Nat
  BY FrameOfAddress
<1>2. b = v * PGSIZE + (b % PGSIZE) /\ b % PGSIZE \in Offsets
  BY <1>1, AddressParts
<1>3. b % PGSIZE = o
  <2>1. \A r \in Offsets : v * PGSIZE + r = v * PGSIZE + o => r = o
    BY <1>1 DEF Offsets
  <2> HIDE DEF b
  <2>2. v * PGSIZE + (b % PGSIZE) = v * PGSIZE + o
    BY <1>2 DEF b
  <2>3. QED
    BY <1>2, <2>1, <2>2
<1>4. QED
  BY <1>1, <1>3

\* The pages that n bytes take up hold n bytes.
LEMMA PageCountCovers ==
    ASSUME NEW n \in Nat
    PROVE  PageCount(n) \in Nat /\ n <= PageCount(n) * PGSIZE
<1> DEFINE m == n + PGSIZE - 1
           r == m % PGSIZE
           q == PageCount(n) * PGSIZE
<1>1. PGSIZE \in Nat \ {0} /\ m \in Nat /\ PageCount(n) \in Nat
  BY ConstantsAssumption, DivisionNat
<1>2. m = q + r /\ r \in Offsets
  BY <1>1, AddressParts DEF PageCount
<1>3. q \in Nat
  BY <1>1, PagesInOrder
<1>4. n = m - PGSIZE + 1
  BY <1>1
<1> HIDE DEF m, r, q
<1>5. n <= q
  BY <1>1, <1>2, <1>3, <1>4 DEF Offsets
<1>6. QED
  BY <1>1, <1>5 DEF q

-----------------------------------------------------------------------------
(***************************************************************************)
(* Bytes of allocations                                                    *)
(***************************************************************************)

BytesOf(a) == (a.page * PGSIZE) .. (a.page * PGSIZE + a.bytes - 1)

\* A byte of a live allocation is in one of its pages, which has a frame.
LEMMA ByteOfLive ==
    ASSUME TypeOK, LiveInv, Clients # "any",
           NEW a \in live, NEW b \in BytesOf(a)
    PROVE  /\ b \in Nat
           /\ b \div PGSIZE \in Pages(a) /\ Mapped(b \div PGSIZE)
<1> DEFINE w == b \div PGSIZE
           n == PageCount(a.bytes)
           r == b % PGSIZE
<1>0. PGSIZE \in Nat \ {0} /\ a.page \in Nat /\ a.bytes \in Nat
  BY ConstantsAssumption, LivePages
<1>1. /\ n \in Nat /\ a.bytes <= n * PGSIZE
      /\ a.page * PGSIZE \in Nat /\ n * PGSIZE \in Nat
  BY <1>0, PageCountCovers, PagesInOrder
<1>2. b \in Nat /\ a.page * PGSIZE <= b /\ b < a.page * PGSIZE + a.bytes
  BY <1>0, <1>1 DEF BytesOf
<1>3. w \in Nat /\ r \in Offsets /\ b = w * PGSIZE + r
  BY <1>2, AddressParts
<1>4. w * PGSIZE \in Nat /\ (w + 1) * PGSIZE = w * PGSIZE + PGSIZE
  BY <1>3, PagesInOrder
<1> HIDE DEF w, n, r
<1>5. a.page < w + 1
  <2>1. a.page * PGSIZE < (w + 1) * PGSIZE
    BY <1>0, <1>1, <1>2, <1>3, <1>4 DEF Offsets
  <2>2. w + 1 \in Nat
    BY <1>3
  <2>3. QED
    BY <1>0, <2>1, <2>2, PagesInOrder
<1>6. w < a.page + n
  <2>1. (a.page + n) * PGSIZE = a.page * PGSIZE + n * PGSIZE
    <3>1. /\ a.page + n \in Nat /\ a.page <= a.page + n
          /\ (a.page + n) - a.page = n
      BY <1>0, <1>1
    <3>2. /\ n * PGSIZE = (a.page + n) * PGSIZE - a.page * PGSIZE
          /\ (a.page + n) * PGSIZE \in Nat
      BY <1>0, <3>1, PagesInOrder
    <3>3. QED
      BY <1>1, <3>2
  <2>2. w * PGSIZE < (a.page + n) * PGSIZE
    BY <1>1, <1>2, <1>3, <1>4, <2>1, <1>0 DEF Offsets
  <2>3. a.page + n \in Nat
    BY <1>0, <1>1
  <2>4. QED
    BY <1>3, <2>2, <2>3, PagesInOrder
<1>7. w \in Pages(a)
  BY <1>0, <1>1, <1>3, <1>5, <1>6 DEF Pages, n
<1>8. Mapped(w)
  BY <1>7 DEF LiveInv, LiveMapped
<1>9. QED
  BY <1>2, <1>7, <1>8 DEF w

\* An access inside an allocation is to bytes of it.
LEMMA AccessInside ==
    ASSUME TypeOK, LiveInv, Clients # "any", NEW a \in live, NEW v \in Nat,
           NEW k \in Nat \ {0}, v >= a.page,
           (v - a.page) * PGSIZE + 0 + k <= a.bytes
    PROVE  /\ v * PGSIZE \in Nat
           /\ (v * PGSIZE) .. (v * PGSIZE + k - 1) \subseteq BytesOf(a)
           /\ v \in VPages /\ Mapped(v)
           /\ k > PGSIZE => /\ v + 1 \in VPages /\ Mapped(v + 1)
                            /\ v + 1 >= a.page
                            /\ ((v + 1) - a.page) * PGSIZE + 0 + (k - PGSIZE)
                                 <= a.bytes
<1>0. PGSIZE \in Nat \ {0} /\ a.page \in Nat /\ a.bytes \in Nat
  BY ConstantsAssumption, LivePages
<1>1. /\ v * PGSIZE \in Nat /\ a.page * PGSIZE \in Nat
      /\ a.page * PGSIZE <= v * PGSIZE
      /\ (v - a.page) * PGSIZE = v * PGSIZE - a.page * PGSIZE
  BY <1>0, PagesInOrder
<1>2. v * PGSIZE + k <= a.page * PGSIZE + a.bytes
  BY <1>0, <1>1
<1>3. (v * PGSIZE) .. (v * PGSIZE + k - 1) \subseteq BytesOf(a)
  BY <1>0, <1>1, <1>2 DEF BytesOf
<1>4. \A b \in BytesOf(a) : b \div PGSIZE \in VPages /\ Mapped(b \div PGSIZE)
  BY ByteOfLive DEF Mapped
<1>5. v \in VPages /\ Mapped(v)
  <2>1. v * PGSIZE \in (v * PGSIZE) .. (v * PGSIZE + k - 1)
    BY <1>1
  <2>2. (v * PGSIZE) \div PGSIZE = v
    BY FrameOfAddress, <1>0 DEF Offsets
  <2>3. QED
    BY <1>3, <1>4, <2>1, <2>2
<1>6. ASSUME k > PGSIZE
      PROVE  /\ v + 1 \in VPages /\ Mapped(v + 1) /\ v + 1 >= a.page
             /\ ((v + 1) - a.page) * PGSIZE + 0 + (k - PGSIZE) <= a.bytes
  <2>1. v + 1 \in Nat /\ v + 1 >= a.page
    BY <1>0
  <2>2. /\ (v + 1) * PGSIZE = v * PGSIZE + PGSIZE
        /\ ((v + 1) - a.page) * PGSIZE = (v + 1) * PGSIZE - a.page * PGSIZE
    BY <1>0, <2>1, PagesInOrder
  <2>3. (v + 1) * PGSIZE \in (v * PGSIZE) .. (v * PGSIZE + k - 1)
    BY <1>0, <1>1, <1>6, <2>2
  <2>4. ((v + 1) * PGSIZE) \div PGSIZE = v + 1
    BY <2>1, <1>0, FrameOfAddress DEF Offsets
  <2>5. ((v + 1) - a.page) * PGSIZE + 0 + (k - PGSIZE) <= a.bytes
    BY <1>0, <1>1, <1>2, <2>2
  <2>6. QED
    BY <1>3, <1>4, <2>1, <2>3, <2>4, <2>5
<1>7. QED
  BY <1>1, <1>3, <1>5, <1>6

\* A page of the address space is not wrapped.
LEMMA WrapIdentity == \A v \in VPages : Wrap(v) = v
  BY ConstantsAssumption DEF Wrap, VPages

\* translate finds the frame of a page that has one.
LEMMA TranslateMapped ==
    ASSUME TypeOK, TablesAgree, NEW v, Mapped(v)
    PROVE  /\ translate(v, 0) = page_table[v] * PGSIZE
           /\ translate(v, 0) # 0
<1>1. v \in VPages /\ page_table[v] \in Nat \ {0}
  BY DEF Mapped, TypeOK, PPages
<1>2. TLB_check(v) # 0 => TLB_check(v) = page_table[v]
  BY <1>1, TlbAnswers DEF TablesAgree
<1>3. page_dir_index(v) \in tables
  BY <1>1 DEF TablesAgree, TablesExist
<1>4. page_table[v] * PGSIZE \in Nat
  BY <1>1, PagesInOrder
<1>5. translate(v, 0) = page_table[v] * PGSIZE
  BY <1>2, <1>3, <1>4 DEF translate, Cached, Walked
<1>6. page_table[v] * PGSIZE # 0
  BY <1>1, ConstantsAssumption, Z3T(30)
<1>7. QED
  BY <1>5, <1>6

-----------------------------------------------------------------------------
(***************************************************************************)
(* What a call has done so far                                             *)
(***************************************************************************)

\* The bytes a put_data has yet to write are in one live allocation.
PutInside ==
    call.op = "put" /\ call.data # <<>> =>
        InAllocation(call.page, 0, Len(call.data))

\* So are those of a get_data, which has read whole pages until it has read all.
GetInside ==
    call.op = "get" =>
        /\ Len(call.data) + call.left \in Sizes
        /\ InAllocation(call.first, 0, Len(call.data) + call.left)
        /\ call.left > 0 =>
              /\ call.first <= call.page
              /\ Len(call.data) = (call.page - call.first) * PGSIZE

\* What it has read is in the frames still.
GetRead ==
    call.op = "get" =>
        \A i \in 1 .. Len(call.data) :
            call.data[i] = InFrames(call.first * PGSIZE + i - 1)

\* Page 0 is never handed out, not for an allocation of nothing either.
MallocGiven == call.op = "malloc" => call.first # 0 /\ call.bytes \in Sizes
LiveGiven   == \A a \in live : a.page # 0

\* The part of the inductive invariant that the refinement needs besides
\* TypeOK, TablesAgree, LiveInv and AlignedInv.
CallInv == Clients = "aligned" =>
    PutInside /\ GetInside /\ GetRead /\ MallocGiven /\ LiveGiven

\* A call that reads and writes nothing, in a step that adds no allocation
\* or in which the call is over.
LEMMA CallUndisturbed ==
    ASSUME CallInv, UNCHANGED <<page_table, memory, live>>,
           call' = call \/ call'.op \in {"none", "free"}
    PROVE  CallInv'
<1> SUFFICES ASSUME Clients = "aligned"
             PROVE  (/\ PutInside /\ GetInside /\ GetRead
                     /\ MallocGiven /\ LiveGiven)'
  BY DEF CallInv
<1>1. LiveGiven'
  BY DEF CallInv, LiveGiven
<1>2. CASE call' = call
  BY <1>1, <1>2 DEF CallInv, PutInside, GetInside, GetRead, MallocGiven,
                    InAllocation, InFrames
<1>3. CASE call'.op \in {"none", "free"}
  BY <1>1, <1>3 DEF PutInside, GetInside, GetRead, MallocGiven
<1>4. QED
  BY <1>2, <1>3

\* n_malloc has found pages, or maps one: it is for the bytes asked.
LEMMA CallMalloc ==
    ASSUME CallInv, UNCHANGED live,
           call'.op = "malloc", call'.first # 0, call'.bytes \in Sizes
    PROVE  CallInv'
  BY DEF CallInv, PutInside, GetInside, GetRead, MallocGiven, LiveGiven

\* A put_data begins inside an allocation.
LEMMA CallPutBegin ==
    ASSUME TypeOK, CallInv,
           NEW n \in Sizes, NEW v \in VPages, NEW o \in Offsets,
           NEW d \in [1..n -> Bytes], PutBegin(v, o, d)
    PROVE  CallInv'
<1> SUFFICES ASSUME Clients = "aligned" PROVE CallInv'
  BY DEF CallInv
<1>1. UNCHANGED <<page_table, memory, live>>
  BY DEF PutBegin, tableVars
<1>2. CASE UNCHANGED call
  BY <1>1, <1>2, CallUndisturbed
<1>3. CASE ~UNCHANGED call
  <2>1. call'.op = "put" /\ call'.page = v /\ call'.data = d
    BY <1>3 DEF PutBegin, NoCall
  <2>2. InAllocation(v, 0, Len(d))
    BY DEF PutBegin, Access
  <2>3. InAllocation(v, 0, Len(d))'
    BY <1>1, <2>2 DEF InAllocation
  <2>4. PutInside'
    BY <2>1, <2>3 DEF PutInside, InAllocation
  <2>5. QED
    BY <1>1, <2>1, <2>4
       DEF CallInv, GetInside, GetRead, MallocGiven, LiveGiven
<1>4. QED
  BY <1>2, <1>3

\* A page of a put_data: the rest is inside the same allocation.
LEMMA CallPutPage ==
    ASSUME TypeOK, TablesAgree, LiveInv, AlignedInv, CallInv, PutPage
    PROVE  CallInv'
<1> SUFFICES ASSUME Clients = "aligned" PROVE CallInv'
  BY DEF CallInv
<1> DEFINE v == call.page
           len == Len(call.data)
<1>1. UNCHANGED <<page_table, live>> /\ call.op = "put" /\ call.data # <<>>
  BY DEF PutPage, tableVars
<1>2. /\ v \in Nat /\ call.data \in Seq(Cell) /\ len \in Nat \ {0}
      /\ PGSIZE \in Nat \ {0}
  BY <1>1, ConstantsAssumption DEF TypeOK, CallType
<1>3. PICK a \in live : /\ v >= a.page
                        /\ (v - a.page) * PGSIZE + 0 + len <= a.bytes
  BY <1>1 DEF CallInv, PutInside, InAllocation
<1>4. LiveGiven'
  BY <1>1 DEF CallInv, LiveGiven
<1>5. CASE call'.op = "none" \/ call' = call
  <2>1. PutInside' /\ GetInside' /\ GetRead' /\ MallocGiven'
    BY <1>1, <1>5
       DEF CallInv, PutInside, GetInside, GetRead, MallocGiven, InAllocation
  <2>2. QED
    BY <1>4, <2>1 DEF CallInv
<1>6. CASE ~(call'.op = "none" \/ call' = call)
  <2>1. call' = Moved(Wrap(v + 1), call.left,
                      SubSeq(call.data, Chunk(len) + 1, len))
    BY <1>6, NoCallTypes DEF PutPage, DataReturns
  <2>2. /\ call'.op = "put" /\ call'.page = Wrap(v + 1)
        /\ call'.data = SubSeq(call.data, Chunk(len) + 1, len)
    BY <1>1, <2>1 DEF Moved
  <2>3. ASSUME call'.data # <<>>
        PROVE  len > PGSIZE /\ Len(call'.data) = len - PGSIZE
    <3> HIDE DEF len
    <3>1. CASE len < PGSIZE
      <4>1. SubSeq(call.data, len + 1, len) = <<>>
        BY <1>2 DEF len
      <4>2. QED
        BY <2>2, <2>3, <3>1, <4>1 DEF Chunk
    <3>2. CASE len = PGSIZE
      <4>1. SubSeq(call.data, len + 1, len) = <<>>
        BY <1>2 DEF len
      <4>2. QED
        BY <2>2, <2>3, <3>2, <4>1 DEF Chunk
    <3>3. CASE len > PGSIZE
      <4>1. Len(SubSeq(call.data, PGSIZE + 1, len)) = len - PGSIZE
        BY <1>2, <3>3 DEF len
      <4>2. QED
        BY <1>2, <2>2, <3>3, <4>1 DEF Chunk
    <3>4. QED
      BY <1>2, <3>1, <3>2, <3>3
  <2>4. PutInside'
    <3>1. SUFFICES ASSUME call'.data # <<>>
                   PROVE  \E b \in live' :
                             /\ call'.page >= b.page
                             /\ (call'.page - b.page) * PGSIZE + 0
                                  + Len(call'.data) <= b.bytes
      BY DEF PutInside, InAllocation
    <3>2. len > PGSIZE /\ Len(call'.data) = len - PGSIZE
      BY <2>3, <3>1
    <3>3. /\ v + 1 \in VPages /\ v + 1 >= a.page
          /\ ((v + 1) - a.page) * PGSIZE + 0 + (len - PGSIZE) <= a.bytes
      BY <1>2, <1>3, <3>2, AccessInside
    <3>4. call'.page = v + 1
      BY <2>2, <3>3, WrapIdentity
    <3>5. QED
      BY <1>1, <1>3, <3>2, <3>3, <3>4 DEF InAllocation
  <2>5. QED
    BY <1>4, <2>2, <2>4 DEF CallInv, GetInside, GetRead, MallocGiven
<1>7. QED
  BY <1>5, <1>6

\* A get_data begins inside an allocation, with nothing read.
LEMMA CallGetBegin ==
    ASSUME TypeOK, CallInv,
           NEW n \in Sizes, NEW v \in VPages, NEW o \in Offsets,
           GetBegin(v, o, n)
    PROVE  CallInv'
<1> SUFFICES ASSUME Clients = "aligned" PROVE CallInv'
  BY DEF CallInv
<1>1. UNCHANGED <<page_table, memory, live>>
  BY DEF GetBegin, tableVars
<1>2. CASE UNCHANGED call
  BY <1>1, <1>2, CallUndisturbed
<1>3. CASE ~UNCHANGED call
  <2>1. /\ call'.op = "get" /\ call'.page = v /\ call'.first = v
        /\ call'.left = n /\ call'.data = <<>>
    BY <1>3 DEF GetBegin, NoCall
  <2>2. n \in Nat /\ v \in Nat /\ PGSIZE \in Nat
    BY ConstantsAssumption DEF VPages
  <2>3. Len(call'.data) = 0 /\ Len(call'.data) + call'.left = n
    BY <2>1, <2>2
  <2>4. (v - v) * PGSIZE = 0
    BY <2>2
  <2>5. InAllocation(v, 0, n)
    BY DEF GetBegin, Access
  <2>6. GetInside'
    BY <1>1, <2>1, <2>2, <2>3, <2>4, <2>5 DEF GetInside, InAllocation
  <2>7. GetRead'
    BY <2>3 DEF GetRead
  <2>8. QED
    BY <1>1, <2>1, <2>6, <2>7
       DEF CallInv, PutInside, MallocGiven, LiveGiven
<1>4. QED
  BY <1>2, <1>3

\* The next page of a get_data comes behind those it has read.
LEMMA GetNext ==
    ASSUME TypeOK, GetInside, call.op = "get", call.left > 0, LiveInv,
           Clients # "any"
    PROVE  /\ call.page \in VPages /\ Mapped(call.page)
           /\ call.left > PGSIZE => call.page + 1 \in VPages
           /\ call.first \in Nat /\ call.page \in Nat
           /\ call.page * PGSIZE = call.first * PGSIZE + Len(call.data)
           /\ call.first * PGSIZE \in Nat
<1> DEFINE v == call.page
           f == call.first
           len == Len(call.data)
           left == call.left
<1>1. /\ v \in Nat /\ f \in Nat /\ len \in Nat /\ left \in Nat \ {0}
      /\ PGSIZE \in Nat
  BY ConstantsAssumption DEF TypeOK, CallType, VPages
<1>2. f <= v /\ len = (v - f) * PGSIZE
  BY DEF GetInside
<1>3. PICK a \in live : f >= a.page
                        /\ (f - a.page) * PGSIZE + 0 + (len + left) <= a.bytes
  BY DEF GetInside, InAllocation
<1>4. a.page \in Nat /\ a.bytes \in Nat
  BY LivePages
<1> HIDE DEF v, f, len, left
<1>5. /\ f * PGSIZE \in Nat /\ v * PGSIZE \in Nat /\ a.page * PGSIZE \in Nat
      /\ (f - a.page) * PGSIZE = f * PGSIZE - a.page * PGSIZE
      /\ (v - f) * PGSIZE = v * PGSIZE - f * PGSIZE
  BY <1>1, <1>2, <1>3, <1>4, PagesInOrder
<1>6. v >= a.page
  BY <1>1, <1>2, <1>3, <1>4
<1>7. (v - a.page) * PGSIZE = v * PGSIZE - a.page * PGSIZE
  BY <1>1, <1>4, <1>6, PagesInOrder
<1>8. (v - a.page) * PGSIZE + 0 + left <= a.bytes
  BY <1>1, <1>2, <1>3, <1>4, <1>5, <1>7
<1>9. v \in VPages /\ Mapped(v) /\ (left > PGSIZE => v + 1 \in VPages)
  BY <1>1, <1>6, <1>8, AccessInside
<1>10. v * PGSIZE = f * PGSIZE + len
  BY <1>1, <1>2, <1>5
<1>11. QED
  BY <1>1, <1>5, <1>9, <1>10 DEF v, f, len, left

\* A page of a get_data: it reads what the frame holds.
LEMMA CallGetPage ==
    ASSUME TypeOK, TablesAgree, LiveInv, AlignedInv, CallInv, GetPage
    PROVE  CallInv'
<1> SUFFICES ASSUME Clients = "aligned" PROVE CallInv'
  BY DEF CallInv
<1> DEFINE v == call.page
           f == call.first
           len == Len(call.data)
           left == call.left
           n == Chunk(left)
           pa == translate(v, 0)
           more == [i \in 1..n |-> memory[pa + i - 1]]
<1>1. /\ UNCHANGED <<page_table, memory, live>>
      /\ call.op = "get" /\ left > 0 /\ call.off = 0
  BY DEF GetPage, tableVars, AlignedInv
<1>2. /\ v \in Nat /\ f \in Nat /\ len \in Nat /\ left \in Nat \ {0}
      /\ PGSIZE \in Nat \ {0} /\ call.data \in Seq(Cell)
  BY <1>1, ConstantsAssumption DEF TypeOK, CallType, VPages
<1>3. GetInside /\ GetRead
  BY DEF CallInv
<1>4. /\ v \in VPages /\ Mapped(v) /\ (left > PGSIZE => v + 1 \in VPages)
      /\ v * PGSIZE = f * PGSIZE + len /\ f * PGSIZE \in Nat
  BY <1>1, <1>3, GetNext
<1>5. pa = page_table[v] * PGSIZE /\ pa # 0
  BY <1>4, TranslateMapped
<1>6. ~(pa + n > num_physical_pages * PGSIZE)
  BY <1>2, <1>4, ChunkInMemory
<1>7. call' = Moved(Wrap(v + 1), left - n, call.data \o more)
  BY <1>1, <1>5, <1>6 DEF GetPage
<1>8. /\ call'.op = "get" /\ call'.page = Wrap(v + 1) /\ call'.first = f
      /\ call'.left = left - n /\ call'.data = call.data \o more
  BY <1>1, <1>7 DEF Moved
<1>9. /\ n \in Nat \ {0} /\ n <= PGSIZE /\ n <= left
      /\ left - n > 0 => left > PGSIZE /\ n = PGSIZE
  BY <1>2 DEF Chunk
<1>10. /\ Len(call'.data) = len + n
       /\ \A i \in 1 .. len : call'.data[i] = call.data[i]
       /\ \A i \in (len + 1) .. (len + n) :
             call'.data[i] = memory[pa + (i - len) - 1]
  <2> HIDE DEF n
  <2> DEFINE T == Cell \cup {memory[pa + i - 1] : i \in 1 .. n}
  <2>1. /\ more \in Seq(T) /\ Len(more) = n
        /\ \A i \in 1 .. n : more[i] = memory[pa + i - 1]
    <3> HIDE DEF pa
    <3>1. \A i \in 1 .. n : memory[pa + i - 1] \in T
      OBVIOUS
    <3> HIDE DEF T
    <3>2. more \in [1 .. n -> T]
      BY <3>1
    <3>3. more \in Seq(T)
      BY <1>9, <3>2
    <3>4. DOMAIN more = 1 .. n
      OBVIOUS
    <3>5. Len(more) = n
      BY <1>9, <3>3, <3>4
    <3>6. \A i \in 1 .. n : more[i] = memory[pa + i - 1]
      OBVIOUS
    <3>7. QED
      BY <3>3, <3>5, <3>6
  <2>2. call.data \in Seq(T)
    BY <1>2
  <2> HIDE DEF more, pa, T
  <2>3. /\ Len(call.data \o more) = len + n
        /\ \A i \in 1 .. len : (call.data \o more)[i] = call.data[i]
        /\ \A i \in (len + 1) .. (len + n) :
              (call.data \o more)[i] = more[i - len]
    <3> DEFINE both == call.data \o more
    <3>1. /\ Len(both) = len + n
          /\ \A i \in 1 .. len + n : both[i] =
                IF i <= len THEN call.data[i] ELSE more[i - len]
      BY <2>1, <2>2, ConcatProperties
    <3> HIDE DEF both
    <3>2. \A i \in 1 .. len : i \in 1 .. len + n /\ i <= len
      BY <1>2, <1>9
    <3>3. \A i \in (len + 1) .. (len + n) : i \in 1 .. len + n /\ ~(i <= len)
      BY <1>2, <1>9
    <3>4. QED
      BY <3>1, <3>2, <3>3 DEF both
  <2>4. \A i \in (len + 1) .. (len + n) : i - len \in 1 .. n
    BY <1>2, <1>9
  <2>5. QED
    BY <1>8, <2>1, <2>3, <2>4
<1> HIDE DEF n, more, pa
<1>11. GetInside'
  <2>1. Len(call'.data) + call'.left = len + left
    BY <1>2, <1>8, <1>9, <1>10
  <2>2. len + left \in Sizes /\ InAllocation(f, 0, len + left)
    BY <1>1, <1>3 DEF GetInside
  <2>3. ASSUME call'.left > 0
        PROVE  call'.first <= call'.page
               /\ Len(call'.data) = (call'.page - call'.first) * PGSIZE
    <3>1. left > PGSIZE /\ n = PGSIZE
      BY <1>8, <1>9, <2>3
    <3>2. call'.page = v + 1
      BY <1>4, <1>8, <3>1, WrapIdentity
    <3>3. f <= v
      BY <1>1, <1>3 DEF GetInside
    <3>4. /\ (v + 1) * PGSIZE = v * PGSIZE + PGSIZE
          /\ ((v + 1) - f) * PGSIZE = (v + 1) * PGSIZE - f * PGSIZE
      <4>1. v + 1 \in Nat /\ f <= v + 1
        BY <1>2, <3>3
      <4>2. QED
        BY <1>2, <4>1, PagesInOrder
    <3>5. ((v + 1) - f) * PGSIZE = len + PGSIZE
      BY <1>2, <1>4, <3>4
    <3>6. f <= v + 1
      BY <1>2, <3>3
    <3>7. QED
      BY <1>8, <1>10, <3>1, <3>2, <3>5, <3>6
  <2>4. QED
    BY <1>1, <1>8, <2>1, <2>2, <2>3 DEF GetInside, InAllocation
<1>12. \A i \in 1 .. (len + n) : call'.data[i] = InFrames(f * PGSIZE + i - 1)
  <2> TAKE i \in 1 .. (len + n)
  <2>1. CASE i \in 1 .. len
    BY <1>1, <1>3, <1>10, <2>1 DEF GetRead
  <2>2. CASE i \in (len + 1) .. (len + n)
    <3> DEFINE o == (i - len) - 1
    <3> HIDE DEF v, f, len, left
    <3>1. o \in Offsets /\ f * PGSIZE + i - 1 = v * PGSIZE + o
      <4> DEFINE B == f * PGSIZE
      <4>1. o \in Offsets
        BY <1>2, <1>9, <2>2 DEF Offsets
      <4>2. B \in Nat /\ v * PGSIZE = B + len
        BY <1>4
      <4> HIDE DEF B
      <4>3. B + i - 1 = (B + len) + o
        BY <1>2, <2>2, <4>2
      <4>4. QED
        BY <4>1, <4>2, <4>3 DEF B
    <3>2. /\ (v * PGSIZE + o) \div PGSIZE = v
          /\ (v * PGSIZE + o) % PGSIZE = o
      BY <1>2, <3>1, PartsOfAddress
    <3>3. call'.data[i] = memory[pa + (i - len) - 1]
      BY <1>10, <2>2
    <3>4. pa + (i - len) - 1 = page_table[v] * PGSIZE + o
      <4>1. pa \in Nat
        <5>1. page_table[v] \in Nat
          BY <1>4 DEF TypeOK, PPages
        <5>2. QED
          BY <1>5, <5>1, PagesInOrder
      <4>2. QED
        BY <1>2, <1>5, <2>2, <4>1
    <3> HIDE DEF o
    <3>5. InFrames(v * PGSIZE + o) = memory[page_table[v] * PGSIZE + o]
      BY <3>2 DEF InFrames
    <3>6. QED
      BY <3>1, <3>3, <3>4, <3>5
  <2>3. i \in 1 .. len \/ i \in (len + 1) .. (len + n)
    BY <1>2, <1>9
  <2>4. QED
    BY <2>1, <2>2, <2>3
<1>13. GetRead'
  BY <1>1, <1>8, <1>10, <1>12 DEF GetRead, InFrames
<1>14. QED
  BY <1>1, <1>8, <1>11, <1>13 DEF CallInv, PutInside, MallocGiven, LiveGiven

\* A call that is over, or frees, leaves no more to say than LiveGiven.
LEMMA CallOver ==
    ASSUME CallInv, live' \subseteq live, call'.op \in {"none", "free"}
    PROVE  CallInv'
  BY DEF CallInv, PutInside, GetInside, GetRead, MallocGiven, LiveGiven

LEMMA CallStep ==
    TypeOK /\ TablesAgree /\ LiveInv /\ AlignedInv /\ CallInv /\ [Next]_vars
        => CallInv'
<1> SUFFICES ASSUME TypeOK, TablesAgree, LiveInv, AlignedInv, CallInv,
                    [Next]_vars, Clients = "aligned"
             PROVE  CallInv'
  BY DEF CallInv
<1>1. ASSUME NEW n \in Sizes, MallocBegin(n)
      PROVE  CallInv'
  <2>1. UNCHANGED live
    BY <1>1 DEF MallocBegin
  <2>2. call'.op = "none" \/ (/\ call'.op = "malloc" /\ call'.first # 0
                              /\ call'.bytes \in Sizes)
    BY <1>1, NoCallTypes DEF MallocBegin, MallocReturns, NoCall
  <2>3. QED
    BY <2>1, <2>2, CallOver, CallMalloc
<1>2. CASE MallocPage
  <2>1. UNCHANGED live /\ call.op = "malloc"
    BY <1>2 DEF MallocPage
  <2>2. call'.op = "none" \/ (/\ call'.op = "malloc"
                              /\ call'.first = call.first
                              /\ call'.bytes = call.bytes)
    BY <1>2, <2>1, NoCallTypes DEF MallocPage, MallocReturns, Moved
  <2>3. call.first # 0 /\ call.bytes \in Sizes
    BY <2>1 DEF CallInv, MallocGiven
  <2>4. QED
    BY <2>1, <2>2, <2>3, CallOver, CallMalloc
<1>3. CASE MallocEnd
  <2>1. call'.op = "none" /\ call.op = "malloc"
    BY <1>3, NoCallTypes DEF MallocEnd, MallocReturns
  <2>2. LiveGiven'
    BY <1>3, <2>1 DEF MallocEnd, Tracked, CallInv, MallocGiven, LiveGiven
  <2>3. QED
    BY <2>1, <2>2 DEF CallInv, PutInside, GetInside, GetRead, MallocGiven
<1>4. ASSUME NEW n \in Sizes, NEW v \in VPages, NEW o \in Offsets,
             FreeBegin(v, o, n)
      PROVE  CallInv'
  <2>1. live' \subseteq live
    BY <1>4 DEF FreeBegin
  <2>2. call'.op \in {"none", "free"}
    BY <1>4 DEF FreeBegin, Idle, NoCall
  <2>3. QED
    BY <2>1, <2>2, CallOver
<1>5. CASE FreePage
  BY <1>5, CallOver DEF FreePage, Moved
<1>6. CASE FreeEnd
  BY <1>6, CallOver, NoCallTypes DEF FreeEnd
<1>7. ASSUME NEW n \in Sizes, NEW v \in VPages, NEW o \in Offsets,
             NEW d \in [1..n -> Bytes], PutBegin(v, o, d)
      PROVE  CallInv'
  BY <1>7, CallPutBegin
<1>8. CASE PutPage
  BY <1>8, CallPutPage
<1>9. CASE PutEnd
  BY <1>9, CallOver, NoCallTypes DEF PutEnd, DataReturns
<1>10. ASSUME NEW n \in Sizes, NEW v \in VPages, NEW o \in Offsets,
              GetBegin(v, o, n)
       PROVE  CallInv'
  BY <1>10, CallGetBegin
<1>11. CASE GetPage
  BY <1>11, CallGetPage
<1>12. CASE GetEnd
  BY <1>12, CallOver, NoCallTypes DEF GetEnd, DataReturns
<1>13. CASE UNCHANGED vars
  BY <1>13, CallUndisturbed DEF vars, tableVars
<1>14. QED
  BY <1>1, <1>2, <1>3, <1>4, <1>5, <1>6, <1>7, <1>8, <1>9, <1>10, <1>11,
     <1>12, <1>13 DEF Next

\* What holds in every reachable state.
RefinementInv == TypeOK /\ TablesAgree /\ LiveInv /\ AlignedInv /\ CallInv

LEMMA RefinementInvInit == Init => RefinementInv
<1> SUFFICES ASSUME Init PROVE RefinementInv
  OBVIOUS
<1>1. call.op = "none" /\ live = {} /\ fault = "none"
  BY NoCallTypes DEF Init
<1>2. AlignedInv /\ CallInv
  BY <1>1 DEF AlignedInv, CallInv, PutInside, GetInside, GetRead, MallocGiven,
              LiveGiven
<1>3. QED
  BY <1>2, TypeInit, TablesInit, LiveInit DEF RefinementInv

LEMMA RefinementInvStep == RefinementInv /\ [Next]_vars => RefinementInv'
  BY TypeStep, TablesStep, LiveStep, AlignedStep, CallStep DEF RefinementInv

-----------------------------------------------------------------------------
(***************************************************************************)
(* The contents of the live allocations                                    *)
(***************************************************************************)

\* What a put_data that has begun, or else a frame, says of a byte.
Value(b) == IF b \in Pending
              THEN call.data[b - (call.page * PGSIZE + call.off) + 1]
              ELSE InFrames(b)

LEMMA ContentsAre ==
    /\ contents = [b \in LiveBytes |-> Value(b)]
    /\ LiveBytes = UNION {BytesOf(a) : a \in live}
    /\ call.op # "put" => \A b : Value(b) = InFrames(b)
  BY DEF contents, Value, LiveBytes, BytesOf, Pending

\* The contents are what they were if every byte is.
LEMMA SameContents ==
    ASSUME UNCHANGED live, \A b \in LiveBytes : Value(b)' = Value(b)
    PROVE  contents' = contents
<1>1. LiveBytes' = LiveBytes
  BY DEF LiveBytes
<1>2. contents' = [b \in LiveBytes' |-> Value(b)']
  BY DEF contents, Value
<1>3. contents = [b \in LiveBytes |-> Value(b)]
  BY ContentsAre
<1>4. QED
  BY <1>1, <1>2, <1>3

\* A call that is no put_data may move pages that are in no live allocation.
LEMMA ContentsUndisturbed ==
    ASSUME TypeOK, LiveInv, Clients # "any", UNCHANGED <<live, memory>>,
           \A w \in VPages : ~NotLive(w) => page_table'[w] = page_table[w],
           call.op # "put", call'.op # "put"
    PROVE  contents' = contents
<1>1. ASSUME NEW b \in LiveBytes
      PROVE  Value(b)' = Value(b)
  <2>1. PICK a \in live : b \in BytesOf(a)
    BY ContentsAre
  <2>2. b \div PGSIZE \in Pages(a) /\ b \div PGSIZE \in VPages
    BY <2>1, ByteOfLive DEF Mapped
  <2>3. page_table'[b \div PGSIZE] = page_table[b \div PGSIZE]
    BY <2>2 DEF NotLive
  <2>4. Value(b) = InFrames(b)
    BY ContentsAre
  <2>5. Value(b)' = InFrames(b)'
    BY DEF Value, Pending
  <2>6. QED
    BY <2>3, <2>4, <2>5 DEF InFrames
<1>2. QED
  BY <1>1, SameContents

\* Every byte of a live allocation is in the frame of its page, in memory.
LEMMA ByteInFrame ==
    ASSUME TypeOK, LiveInv, Clients # "any", NEW b \in LiveBytes
    PROVE  /\ b \in Nat /\ b \div PGSIZE \in VPages
           /\ page_table[b \div PGSIZE] \in PPages \ {0}
           /\ page_table[b \div PGSIZE] * PGSIZE + (b % PGSIZE) \in PhysBytes
<1> DEFINE v == b \div PGSIZE
           p == page_table[v]
           o == b % PGSIZE
<1>1. PICK a \in live : b \in BytesOf(a)
  BY ContentsAre
<1>2. b \in Nat /\ v \in VPages /\ p # 0
  BY <1>1, ByteOfLive DEF Mapped
<1>3. p \in PPages /\ o \in Offsets
  BY <1>2, AddressParts DEF TypeOK
<1> HIDE DEF p, o
<1>4. ~(p * PGSIZE + (o + 1) > num_physical_pages * PGSIZE)
  <2>1. o + 1 \in Nat /\ o + 1 <= PGSIZE
    BY <1>3, ConstantsAssumption DEF Offsets
  <2>2. QED
    BY <1>3, <2>1, FrameInMemory
<1>5. p * PGSIZE \in Nat /\ num_physical_pages * PGSIZE \in Nat
  BY <1>3, PagesInOrder, ConstantsAssumption DEF PPages
<1>6. p * PGSIZE + o \in PhysBytes
  BY <1>3, <1>4, <1>5 DEF PhysBytes, Offsets
<1>7. QED
  BY <1>2, <1>3, <1>6 DEF p, o

LEMMA ContentsType ==
    TypeOK /\ LiveInv /\ Clients # "any" /\ call.op # "put"
        => contents \in [LiveBytes -> Cell]
<1> SUFFICES ASSUME TypeOK, LiveInv, Clients # "any", call.op # "put"
             PROVE  contents \in [LiveBytes -> Cell]
  OBVIOUS
<1>1. ASSUME NEW b \in LiveBytes
      PROVE  Value(b) \in Cell
  BY ByteInFrame, ContentsAre DEF TypeOK, InFrames
<1>2. QED
  BY <1>1, ContentsAre

-----------------------------------------------------------------------------
(***************************************************************************)
(* The steps                                                               *)
(***************************************************************************)

Stutters == UNCHANGED <<live, contents, ret>>
AbstractStep == Abstract!Next \/ Stutters

\* The constants and definitions of VirtualMemory are those of MyVm.
LEMMA AbstractDefs ==
    /\ Abstract!LiveBytes = LiveBytes /\ Abstract!LiveBytes' = LiveBytes'
    /\ \A a : Abstract!BytesOf(a) = BytesOf(a) /\ Abstract!PagesOf(a) = Pages(a)
    /\ Abstract!NoRet = NoRet
  BY DEF Abstract!LiveBytes, Abstract!BytesOf, Abstract!PagesOf, LiveBytes,
         BytesOf, Pages, PageCount, Abstract!NoRet, NoRet

\* An n_malloc that fails.
LEMMA NullReturned ==
    ASSUME MallocReturns(0)
    PROVE  call'.op = "none" /\ ret' = [NoRet EXCEPT !.op = "malloc"]
<1>1. \A r \in RetType : r.page = 0 =>
         [r EXCEPT !.op = "malloc", !.page = 0] = [r EXCEPT !.op = "malloc"]
  BY DEF RetType
<1>2. NoRet.page = 0 /\ NoRet \in RetType
  BY NoCallTypes DEF NoRet
<1>3. QED
  BY <1>1, <1>2, NoCallTypes DEF MallocReturns

\* A search for pages that fails returns NULL, one that succeeds nothing yet.
LEMMA MallocBeginSimulates ==
    ASSUME RefinementInv, Clients = "aligned", NEW n \in Sizes, MallocBegin(n)
    PROVE  AbstractStep
<1>1. UNCHANGED <<live, memory, page_table>> /\ call.op # "put"
  BY DEF MallocBegin, Idle
<1>2. /\ call'.op # "put"
      /\ UNCHANGED ret \/ ret' = [NoRet EXCEPT !.op = "malloc"]
  <2>1. CASE MallocReturns(0)
    BY <2>1, NullReturned
  <2>2. CASE ~MallocReturns(0)
    BY <2>2 DEF MallocBegin, NoCall
  <2>3. QED
    BY <2>1, <2>2
<1>3. contents' = contents
  BY <1>1, <1>2, ContentsUndisturbed DEF RefinementInv
<1>4. QED
  BY <1>1, <1>2, <1>3, AbstractDefs
     DEF AbstractStep, Stutters, Abstract!Next, Abstract!MallocFails

\* The page that n_malloc maps is in no live allocation.
LEMMA MallocPageSimulates ==
    ASSUME RefinementInv, Clients = "aligned", MallocPage
    PROVE  AbstractStep
<1> DEFINE v == call.page
<1>1. UNCHANGED <<live, memory>> /\ call.op = "malloc" /\ call.left > 0
  BY DEF MallocPage
<1>2. v \in Nat /\ call.left \in Nat
  BY <1>1 DEF RefinementInv, TypeOK, CallType
<1>3. v \in VPages /\ page_table[v] = 0
  <2>1. v \in v .. (v + call.left - 1)
    BY <1>1, <1>2
  <2>2. QED
    BY <1>1, <2>1 DEF RefinementInv, TablesAgree, PagesToMapAreFree
<1>4. NotLive(v)
  BY <1>3 DEF RefinementInv, LiveInv, LiveMapped, Mapped, NotLive
<1>5. \A w \in VPages : w # v => page_table'[w] = page_table[w]
  BY DEF MallocPage, map_page, RefinementInv, TypeOK
<1>6. /\ call'.op # "put"
      /\ UNCHANGED ret \/ ret' = [NoRet EXCEPT !.op = "malloc"]
  <2>1. CASE MallocReturns(0)
    BY <2>1, NullReturned
  <2>2. CASE ~MallocReturns(0)
    BY <1>1, <2>2 DEF MallocPage, Moved
  <2>3. QED
    BY <2>1, <2>2
<1>7. contents' = contents
  BY <1>1, <1>4, <1>5, <1>6, ContentsUndisturbed DEF RefinementInv
<1>8. QED
  BY <1>1, <1>6, <1>7, AbstractDefs
     DEF AbstractStep, Stutters, Abstract!Next, Abstract!MallocFails

\* The allocation that n_malloc returns takes pages no other has, and the
\* bytes of the others stay.
LEMMA MallocEndSimulates ==
    ASSUME RefinementInv, RefinementInv', Clients = "aligned", MallocEnd
    PROVE  Abstract!Malloc(call.bytes) /\ call.bytes \in Sizes
<1> DEFINE a == [page |-> call.first, bytes |-> call.bytes]
<1>1. /\ call.op = "malloc" /\ call.left = 0 /\ call'.op = "none"
      /\ UNCHANGED <<page_table, memory>>
      /\ live' = live \cup {a}
      /\ ret' = [NoRet EXCEPT !.op = "malloc", !.page = a.page]
  BY NoCallTypes DEF MallocEnd, MallocReturns, Tracked, tableVars
<1>2. /\ call.first \in VPages \ {0} /\ call.bytes \in Sizes
      /\ call.bytes \in Nat
  BY <1>1 DEF RefinementInv, CallInv, MallocGiven, TypeOK, CallType
<1>3. call.first \in 1 .. (num_virtual_pages - 1)
  BY <1>2, ConstantsAssumption DEF VPages
<1>4. \A v \in Pages(a) : Mapped(v) /\ NotLive(v)
  <2>1. /\ call.page + call.left = call.first + PageCount(call.bytes)
        /\ \A v \in call.first .. (call.page - 1) : Mapped(v) /\ NotLive(v)
    BY <1>1 DEF RefinementInv, LiveInv, MallocOnTheWay
  <2>2. call.page \in Nat /\ PageCount(call.bytes) \in Nat
    BY <1>1, <1>2, DivisionNat DEF RefinementInv, TypeOK, CallType
  <2>3. call.page = call.first + PageCount(call.bytes)
    BY <1>1, <2>1, <2>2
  <2>4. a.page = call.first /\ a.bytes = call.bytes
    OBVIOUS
  <2> HIDE DEF a
  <2>5. call.first + PageCount(call.bytes) - 1 = call.page - 1
    BY <1>3, <2>2, <2>3
  <2>6. Pages(a) = call.first .. (call.page - 1)
    BY <2>4, <2>5 DEF Pages
  <2>7. QED
    BY <2>1, <2>6
<1>5. Pages(a) \subseteq 1 .. (num_virtual_pages - 1)
  <2>1. \A v \in Pages(a) : v \in VPages \ {0}
    BY <1>4 DEF Mapped, RefinementInv, TablesAgree, TablesExist
  <2>2. QED
    BY <2>1, ConstantsAssumption DEF VPages
<1>6. \A b \in live : Pages(a) \cap Pages(b) = {}
  BY <1>4 DEF NotLive
<1>7. contents' \in [LiveBytes' -> Cell]
  <2>1. (TypeOK /\ LiveInv /\ Clients # "any" /\ call.op # "put"
           => contents \in [LiveBytes -> Cell])'
    BY ContentsType, PTL
  <2>2. QED
    BY <1>1, <2>1 DEF RefinementInv
<1>8. ASSUME NEW b \in LiveBytes
      PROVE  contents'[b] = contents[b]
  <2>1. Value(b) = InFrames(b) /\ contents[b] = Value(b)
    BY <1>1, ContentsAre
  <2>2. b \in LiveBytes'
    BY <1>1 DEF LiveBytes
  <2>3. contents'[b] = InFrames(b)'
    BY <1>1, <2>2 DEF contents, Pending
  <2>4. QED
    BY <1>1, <2>1, <2>3 DEF InFrames
<1>9. /\ a \in [page : 1 .. (num_virtual_pages - 1), bytes : {call.bytes}]
      /\ Pages(a) \subseteq 1 .. (num_virtual_pages - 1)
      /\ \A b \in live : Pages(a) \cap Pages(b) = {}
      /\ live' = live \cup {a}
      /\ ret' = [NoRet EXCEPT !.op = "malloc", !.page = a.page]
      /\ contents' \in [LiveBytes' -> Cell]
      /\ \A b \in LiveBytes : contents'[b] = contents[b]
  BY <1>1, <1>3, <1>5, <1>6, <1>7, <1>8
<1> HIDE DEF a
<1>10. Abstract!Malloc(call.bytes)
  BY <1>9, AbstractDefs DEF Abstract!Malloc, Cell
<1>11. QED
  BY <1>2, <1>10

\* A live allocation is gone when the call to free it begins; of nothing, when
\* it returns, which it does at once.
LEMMA FreeBeginSimulates ==
    ASSUME RefinementInv, Clients = "aligned", NEW n \in Sizes,
           NEW v \in VPages, NEW o \in Offsets, FreeBegin(v, o, n)
    PROVE  \E a \in live : Abstract!Free(a) \/ Abstract!FreeNothing(a)
<1> DEFINE a == [page |-> v, bytes |-> n]
<1>1. /\ o = 0 /\ a \in live /\ live' = live \ {a}
      /\ UNCHANGED <<page_table, memory>> /\ call.op = "none"
  BY DEF FreeBegin, Idle, MayFree, tableVars
<1>2. v # 0 /\ inited
  BY <1>1 DEF RefinementInv, CallInv, LiveGiven, AlignedInv
<1>3. call'.op # "put"
  BY <1>1 DEF FreeBegin, NoCall
<1>4. /\ contents = [b \in LiveBytes |-> InFrames(b)]
      /\ contents' = [b \in LiveBytes' |-> InFrames(b)]
  <2>1. contents = [b \in LiveBytes |-> InFrames(b)]
    BY <1>1, ContentsAre
  <2>2. contents' = [b \in LiveBytes' |-> InFrames(b)']
    BY <1>3 DEF contents, Pending
  <2>3. QED
    BY <1>1, <2>1, <2>2 DEF InFrames
<1>5. CASE n = 0
  <2>1. ret' = [NoRet EXCEPT !.op = "free"]
    BY <1>5 DEF FreeBegin
  <2>2. BytesOf(a) = {}
    <3>1. a.bytes = 0 /\ v * PGSIZE \in Nat /\ a.page = v
      BY <1>5, PagesInOrder DEF VPages
    <3>2. QED
      BY <3>1 DEF BytesOf
  <2>3. LiveBytes' = LiveBytes
    BY <1>1, <2>2 DEF LiveBytes, BytesOf
  <2>4. contents' = contents
    BY <1>4, <2>3
  <2>5. Abstract!FreeNothing(a)
    BY <1>1, <1>5, <2>1, <2>4, AbstractDefs DEF Abstract!FreeNothing
  <2>6. QED
    BY <1>1, <2>5
<1>6. CASE n # 0
  <2>1. UNCHANGED ret
    BY <1>2, <1>6 DEF FreeBegin
  <2>2. LiveBytes' \subseteq LiveBytes
    BY <1>1 DEF LiveBytes
  <2>3. contents' = [b \in LiveBytes' |-> contents[b]]
    BY <1>4, <2>2
  <2>4. Abstract!Free(a)
    BY <1>1, <2>1, <2>3, AbstractDefs DEF Abstract!Free
  <2>5. QED
    BY <1>1, <2>4
<1>7. QED
  BY <1>5, <1>6

\* The page that n_free unmaps is in no live allocation any more.
LEMMA FreePageSimulates ==
    ASSUME RefinementInv, Clients = "aligned", FreePage
    PROVE  Stutters
<1> DEFINE v == call.page
<1>1. /\ UNCHANGED <<live, memory, ret>> /\ call.op = "free"
      /\ call.left \in Nat \ {0} /\ v \in Nat
  BY DEF FreePage, RefinementInv, TypeOK, CallType
<1>2. NotLive(v)
  <2>1. v \in v .. (v + call.left - 1)
    BY <1>1
  <2>2. QED
    BY <1>1, <2>1 DEF RefinementInv, LiveInv, FreeOnTheWay
<1>3. \A w \in VPages : w # v => page_table'[w] = page_table[w]
  BY DEF FreePage, RefinementInv, TypeOK
<1>4. call'.op # "put"
  BY <1>1 DEF FreePage, Moved
<1>5. contents' = contents
  BY <1>1, <1>2, <1>3, <1>4, ContentsUndisturbed DEF RefinementInv
<1>6. QED
  BY <1>1, <1>5 DEF Stutters

\* A put_data takes effect when it begins; one of nothing is refused.
LEMMA PutBeginSimulates ==
    ASSUME RefinementInv, Clients = "aligned", NEW n \in Sizes,
           NEW v \in VPages, NEW o \in Offsets, NEW d \in [1..n -> Bytes],
           PutBegin(v, o, d)
    PROVE  \/ Abstract!Put(v * PGSIZE + o, d)
           \/ 0 \in Sizes /\ Abstract!AccessNothing("put", v, o)
<1> DEFINE b == v * PGSIZE + o
<1>1. /\ UNCHANGED <<live, page_table, memory>> /\ call.op = "none"
      /\ o = 0 /\ InAllocation(v, 0, Len(d))
  BY DEF PutBegin, Idle, Access, tableVars
<1>2. n \in Nat /\ Len(d) = n /\ v \in Nat
  BY ConstantsAssumption DEF VPages
<1>3. PICK a \in live : v >= a.page /\ (v - a.page) * PGSIZE + 0 + n <= a.bytes
  BY <1>1, <1>2 DEF InAllocation
<1>4. v # 0 /\ inited
  <2>1. a.page \in Nat \ {0}
    BY LivePages DEF RefinementInv, CallInv, LiveGiven
  <2>2. QED
    BY <1>2, <1>3, <2>1 DEF RefinementInv, AlignedInv
<1>5. contents = [c \in LiveBytes |-> InFrames(c)]
  BY <1>1, ContentsAre
<1>6. CASE n = 0
  <2>1. /\ UNCHANGED call
        /\ ret' = [op |-> "put", page |-> v, off |-> o, ok |-> FALSE,
                   data |-> <<>>]
    BY <1>2, <1>6 DEF PutBegin, Refused
  <2>2. contents' = contents
    BY <1>1, <2>1, ContentsUndisturbed DEF RefinementInv
  <2>3. QED
    BY <1>1, <1>6, <2>1, <2>2 DEF Abstract!AccessNothing
<1>7. CASE n # 0
  <2>1. /\ UNCHANGED ret
        /\ call'.op = "put" /\ call'.page = v /\ call'.off = o /\ call'.data = d
    BY <1>2, <1>4, <1>7 DEF PutBegin, Refused, NoCall
  <2>2. v * PGSIZE \in Nat /\ b = v * PGSIZE
    BY <1>1, <1>2, PagesInOrder
  <2>3. b .. (b + Len(d) - 1) \subseteq LiveBytes
    <3>1. n \in Nat \ {0}
      BY <1>2, <1>7
    <3>2. (v * PGSIZE) .. (v * PGSIZE + n - 1) \subseteq BytesOf(a)
      BY <1>2, <1>3, <3>1, AccessInside DEF RefinementInv
    <3>3. QED
      BY <1>2, <2>2, <3>2 DEF LiveBytes, BytesOf
  <2>4. LiveBytes' = LiveBytes
    BY <1>1 DEF LiveBytes
  <2>5. Pending' = b .. (b + Len(d) - 1)
    BY <2>1 DEF Pending
  <2>6. \A c : InFrames(c)' = InFrames(c)
    BY <1>1 DEF InFrames
  <2>7. contents' = [c \in LiveBytes |->
                       IF c \in b .. (b + Len(d) - 1)
                         THEN d[c - b + 1] ELSE InFrames(c)]
    BY <2>1, <2>4, <2>5, <2>6 DEF contents
  <2>8. contents' = [c \in LiveBytes |->
                       IF c \in b .. (b + Len(d) - 1)
                         THEN d[c - b + 1] ELSE contents[c]]
    BY <1>5, <2>7
  <2> HIDE DEF b
  <2>9. Abstract!Put(b, d)
    BY <1>1, <2>1, <2>3, <2>8, AbstractDefs DEF Abstract!Put
  <2>10. QED
    BY <2>9 DEF b
<1>8. QED
  BY <1>6, <1>7

\* A page of a put_data moves bytes from what is pending to the frames.
LEMMA PutPageSimulates ==
    ASSUME RefinementInv, Clients = "aligned", PutPage
    PROVE  Stutters
<1> DEFINE v == call.page
           len == Len(call.data)
           n == Chunk(len)
           p == page_table[v]
           rest == SubSeq(call.data, n + 1, len)
<1>1. /\ UNCHANGED <<live, page_table>> /\ call.op = "put" /\ call.off = 0
      /\ call.data # <<>>
  BY DEF PutPage, tableVars, RefinementInv, AlignedInv
<1>2. /\ v \in Nat /\ len \in Nat \ {0} /\ PGSIZE \in Nat \ {0}
      /\ call.data \in Seq(Cell)
  BY <1>1, ConstantsAssumption DEF RefinementInv, TypeOK, CallType
<1>3. PICK a \in live : /\ v >= a.page
                        /\ (v - a.page) * PGSIZE + 0 + len <= a.bytes
  BY <1>1 DEF RefinementInv, CallInv, PutInside, InAllocation
<1>4. /\ v \in VPages /\ Mapped(v) /\ v * PGSIZE \in Nat
      /\ len > PGSIZE => v + 1 \in VPages
  BY <1>2, <1>3, AccessInside DEF RefinementInv
<1>5. translate(v, 0) = p * PGSIZE /\ translate(v, 0) # 0
  BY <1>4, TranslateMapped DEF RefinementInv
<1>6. ~(translate(v, 0) + n > num_physical_pages * PGSIZE)
  BY <1>2, <1>4, ChunkInMemory DEF RefinementInv
<1>7. /\ memory' = [x \in PhysBytes |->
                      IF x \in (p * PGSIZE) .. (p * PGSIZE + n - 1)
                        THEN call.data[x - (p * PGSIZE) + 1] ELSE memory[x]]
      /\ call' = Moved(Wrap(v + 1), call.left, rest)
      /\ UNCHANGED ret
  BY <1>1, <1>5, <1>6 DEF PutPage
<1>8. call'.op = "put" /\ call'.page = Wrap(v + 1) /\ call'.off = 0
      /\ call'.data = rest
  BY <1>1, <1>7 DEF Moved
<1>9. n \in Nat \ {0} /\ n <= PGSIZE /\ n <= len
      /\ (n < len => n = PGSIZE /\ len > PGSIZE)
  BY <1>2 DEF Chunk
<1>10. Len(rest) = len - n
       /\ \A i \in 1 .. (len - n) : rest[i] = call.data[n + i]
  <2> HIDE DEF n
  <2>1. CASE n = len
    BY <1>2, <1>9, <2>1
  <2>2. CASE n < len
    BY <1>2, <1>9, <2>2
  <2>3. QED
    BY <1>9, <2>1, <2>2
<1>11. p \in Nat \ {0} /\ p * PGSIZE \in Nat
  <2>1. p \in Nat \ {0}
    BY <1>4 DEF Mapped, RefinementInv, TypeOK, PPages
  <2> HIDE DEF p
  <2>2. QED
    BY <2>1, PagesInOrder
<1> DEFINE B == v * PGSIZE
<1>12. Pending = B .. (B + len - 1)
  BY <1>1, <1>4 DEF Pending
<1>13. /\ Wrap(v + 1) * PGSIZE \in Nat
       /\ n < len => Wrap(v + 1) = v + 1 /\ Wrap(v + 1) * PGSIZE = B + n
  <2>1. Wrap(v + 1) * PGSIZE \in Nat
    BY <1>4, NextPage, PagesInOrder
  <2>2. n < len => Wrap(v + 1) = v + 1
    BY <1>4, <1>9, WrapIdentity
  <2>3. (v + 1) * PGSIZE = v * PGSIZE + PGSIZE
    BY <1>2, PagesInOrder
  <2>4. QED
    BY <1>9, <2>1, <2>2, <2>3
<1>14. Pending' = (B + n) .. (B + len - 1)
  <2> DEFINE W == Wrap(v + 1) * PGSIZE
  <2> HIDE DEF n, B, rest, len
  <2>1. Pending' = W .. (W + Len(rest) - 1)
    <3>1. W + 0 = W
      BY <1>13
    <3> HIDE DEF W
    <3>2. Pending' = (W + 0) .. (W + 0 + Len(rest) - 1)
      BY <1>8 DEF Pending, W
    <3>3. QED
      BY <3>1, <3>2
  <2> HIDE DEF W
  <2>2. CASE n = len
    BY <1>2, <1>4, <1>9, <1>10, <1>13, <2>1, <2>2 DEF W, B
  <2>3. CASE n < len
    BY <1>2, <1>4, <1>9, <1>10, <1>13, <2>1, <2>3 DEF W, B
  <2>4. QED
    BY <1>2, <1>9, <2>2, <2>3
<1> HIDE DEF n, len, rest, p, B
<1>15. ASSUME NEW c \in LiveBytes
       PROVE  Value(c)' = Value(c)
  <2> DEFINE w == c \div PGSIZE
             r == c % PGSIZE
             q == page_table[w]
             loc == q * PGSIZE + r
  <2>1. /\ c \in Nat /\ w \in VPages /\ q \in PPages \ {0}
        /\ loc \in PhysBytes /\ r \in Offsets /\ c = w * PGSIZE + r
    BY ByteInFrame, AddressParts DEF RefinementInv
  <2>2. InFrames(c) = memory[loc] /\ InFrames(c)' = memory'[loc]
    BY <1>1 DEF InFrames
  <2>3. memory'[loc] = IF loc \in (p * PGSIZE) .. (p * PGSIZE + n - 1)
                         THEN call.data[loc - (p * PGSIZE) + 1]
                         ELSE memory[loc]
    BY <1>7, <2>1
  <2>4. B \in Nat /\ Pending \subseteq Nat
    BY <1>4, <1>12 DEF B
  <2>5. CASE c \in B .. (B + n - 1)
    <3> DEFINE o == c - B
    <3>1. o \in 0 .. (n - 1) /\ o \in Offsets /\ c = B + o
      BY <1>9, <1>2, <2>1, <2>4, <2>5 DEF Offsets
    <3>2. w = v /\ r = o
      BY <1>2, <3>1, PartsOfAddress DEF B
    <3>3. q = p /\ loc = p * PGSIZE + o
      BY <3>2 DEF p
    <3> HIDE DEF o, loc
    <3>4. /\ loc \in (p * PGSIZE) .. (p * PGSIZE + n - 1)
          /\ loc - (p * PGSIZE) = o
      BY <1>9, <1>11, <3>1, <3>3
    <3>5. c \in Pending /\ c \notin Pending'
      BY <1>2, <1>9, <1>12, <1>14, <2>4, <2>5
    <3>6. Value(c) = call.data[o + 1]
      BY <1>1, <1>4, <3>5 DEF Value, B, o
    <3>7. Value(c)' = call.data[o + 1]
      BY <2>2, <2>3, <3>4, <3>5 DEF Value
    <3>8. QED
      BY <3>6, <3>7
  <2>6. CASE c \in (B + n) .. (B + len - 1)
    <3>1. c \in Pending /\ c \in Pending' /\ n < len
      BY <1>2, <1>9, <1>12, <1>14, <2>1, <2>4, <2>6
    <3>2. Value(c) = call.data[c - B + 1]
      BY <1>1, <1>4, <3>1 DEF Value, B
    <3>3. call'.page * PGSIZE + call'.off = B + n
      BY <1>8, <1>9, <1>13, <2>4, <3>1
    <3>4. Value(c)' = rest[c - (B + n) + 1]
      BY <1>8, <3>1, <3>3 DEF Value
    <3>5. c - (B + n) + 1 \in 1 .. (len - n)
          /\ n + (c - (B + n) + 1) = c - B + 1
      BY <1>2, <1>9, <2>1, <2>4, <2>6
    <3>6. QED
      BY <1>10, <3>2, <3>4, <3>5
  <2>7. CASE c \notin Pending
    <3>1. c \notin Pending'
      BY <1>2, <1>9, <1>12, <1>14, <2>1, <2>4, <2>7
    <3>2. loc \notin (p * PGSIZE) .. (p * PGSIZE + n - 1)
      <4> SUFFICES ASSUME loc \in (p * PGSIZE) .. (p * PGSIZE + n - 1)
                   PROVE  FALSE
        OBVIOUS
      <4> DEFINE o == loc - (p * PGSIZE)
      <4>1. o \in Offsets /\ o \in 0 .. (n - 1) /\ loc = p * PGSIZE + o
        BY <1>2, <1>9, <1>11 DEF Offsets
      <4>2. q \in Nat
        BY <2>1 DEF PPages
      <4>3. loc \div PGSIZE = q /\ loc % PGSIZE = r
        BY <2>1, <4>2, PartsOfAddress
      <4> HIDE DEF o, loc
      <4>4. p = q /\ o = r
        BY <1>11, <4>1, <4>3, PartsOfAddress
      <4>5. w = v
        BY <1>4, <1>11, <2>1, <4>4
           DEF RefinementInv, TablesAgree, FramesNotShared, p
      <4>6. c = B + o
        BY <2>1, <4>4, <4>5 DEF B
      <4>7. QED
        BY <1>2, <1>9, <1>12, <2>4, <2>7, <4>1, <4>6
    <3>3. Value(c) = memory[loc] /\ Value(c)' = memory'[loc]
      BY <2>2, <2>7, <3>1 DEF Value
    <3>4. QED
      BY <2>3, <3>2, <3>3
  <2>8. c \in B .. (B + n - 1) \/ c \in (B + n) .. (B + len - 1)
        \/ c \notin Pending
    BY <1>2, <1>9, <1>12, <2>1, <2>4
  <2>9. QED
    BY <2>5, <2>6, <2>7, <2>8
<1>16. contents' = contents
  BY <1>1, <1>15, SameContents
<1>17. QED
  BY <1>1, <1>7, <1>16 DEF Stutters

\* When a put_data returns, nothing is pending any more.
LEMMA PutEndSimulates ==
    ASSUME RefinementInv, Clients = "aligned", PutEnd
    PROVE  /\ Abstract!PutReturns(call.first, call.off)
           /\ call.first \in VPages /\ call.off \in Offsets
<1>1. /\ UNCHANGED <<live, page_table, memory>> /\ call'.op = "none"
      /\ call.data = <<>> /\ call.op = "put"
      /\ ret' = [op |-> "put", page |-> call.first, off |-> call.off,
                 ok |-> TRUE, data |-> <<>>]
  BY NoCallTypes DEF PutEnd, DataReturns, tableVars
<1>2. /\ call.first \in VPages /\ call.off \in Offsets /\ call.off \in Nat
      /\ call.page \in Nat
  BY DEF RefinementInv, TypeOK, CallType, Offsets
<1>3. Pending = {}
  <2>1. Len(call.data) = 0 /\ call.page * PGSIZE \in Nat
    BY <1>1, <1>2, PagesInOrder
  <2>2. QED
    BY <1>2, <2>1 DEF Pending
<1>4. ASSUME NEW b \in LiveBytes
      PROVE  Value(b)' = Value(b)
  BY <1>1, <1>3 DEF Value, Pending, InFrames
<1>5. contents' = contents
  BY <1>1, <1>4, SameContents
<1>6. QED
  BY <1>1, <1>2, <1>5 DEF Abstract!PutReturns

\* A get_data does nothing when it begins but refuse to read nothing.
LEMMA GetBeginSimulates ==
    ASSUME RefinementInv, Clients = "aligned", NEW n \in Sizes,
           NEW v \in VPages, NEW o \in Offsets, GetBegin(v, o, n)
    PROVE  \/ Stutters
           \/ 0 \in Sizes /\ Abstract!AccessNothing("get", v, o)
<1>1. /\ UNCHANGED <<live, page_table, memory>> /\ call.op = "none"
      /\ o = 0 /\ InAllocation(v, 0, n)
  BY DEF GetBegin, Idle, Access, tableVars
<1>2. PICK a \in live : v >= a.page
  BY <1>1 DEF InAllocation
<1>3. v # 0 /\ inited
  <2>1. a.page \in Nat \ {0}
    BY LivePages DEF RefinementInv, CallInv, LiveGiven
  <2>2. QED
    BY <1>2, <2>1 DEF RefinementInv, AlignedInv, VPages
<1>4. call'.op # "put"
  BY <1>1 DEF GetBegin, NoCall
<1>5. contents' = contents
  BY <1>1, <1>4, ContentsUndisturbed DEF RefinementInv
<1>6. CASE n = 0
  BY <1>1, <1>5, <1>6 DEF GetBegin, Refused, Abstract!AccessNothing
<1>7. CASE n # 0
  BY <1>1, <1>3, <1>5, <1>7 DEF GetBegin, Refused, Stutters
<1>8. QED
  BY <1>6, <1>7

\* Nor does it while it reads: it finds all its pages.
LEMMA GetPageSimulates ==
    ASSUME RefinementInv, Clients = "aligned", GetPage
    PROVE  Stutters
<1>1. /\ UNCHANGED <<live, page_table, memory>> /\ call.op = "get"
      /\ call.off = 0 /\ call.left > 0
  BY DEF GetPage, tableVars, RefinementInv, AlignedInv
<1>2. call.left \in Nat
  BY DEF RefinementInv, TypeOK, CallType
<1>3. call.page \in VPages /\ Mapped(call.page)
  BY <1>1, GetNext DEF RefinementInv, CallInv
<1>4. /\ translate(call.page, 0) # 0
      /\ ~(translate(call.page, 0) + Chunk(call.left)
             > num_physical_pages * PGSIZE)
  BY <1>2, <1>3, TranslateMapped, ChunkInMemory DEF RefinementInv
<1>5. UNCHANGED ret /\ call'.op # "put"
  BY <1>1, <1>4 DEF GetPage, Moved
<1>6. contents' = contents
  BY <1>1, <1>5, ContentsUndisturbed DEF RefinementInv
<1>7. QED
  BY <1>1, <1>5, <1>6 DEF Stutters

\* What a get_data returns is what its bytes hold when it returns.
LEMMA ReadContents ==
    ASSUME RefinementInv, Clients = "aligned", call.op = "get", call.left = 0
    PROVE  /\ call.off = 0 /\ call.first * PGSIZE \in Nat
           /\ Len(call.data) \in Sizes /\ Len(call.data) \in Nat
           /\ (call.first * PGSIZE)
                 .. (call.first * PGSIZE + Len(call.data) - 1)
                 \subseteq LiveBytes
           /\ \A i \in 1 .. Len(call.data) :
                 call.data[i] = contents[call.first * PGSIZE + i - 1]
<1> DEFINE f == call.first
           len == Len(call.data)
           B == f * PGSIZE
<1>1. f \in Nat /\ len \in Nat /\ B \in Nat /\ call.off = 0
  <2>1. f \in Nat /\ len \in Nat /\ call.off = 0
    BY DEF RefinementInv, AlignedInv, TypeOK, CallType, VPages
  <2> HIDE DEF f
  <2>2. QED
    BY <2>1, PagesInOrder
<1>2. len \in Sizes /\ InAllocation(f, 0, len)
  <2>1. len + call.left \in Sizes /\ InAllocation(f, 0, len + call.left)
    BY DEF RefinementInv, CallInv, GetInside
  <2>2. len + call.left = len
    BY <1>1
  <2>3. QED
    BY <2>1, <2>2
<1>3. PICK a \in live : /\ f >= a.page
                        /\ (f - a.page) * PGSIZE + 0 + len <= a.bytes
  BY <1>2 DEF InAllocation
<1>4. B .. (B + len - 1) \subseteq LiveBytes
  <2>1. CASE len = 0
    <3> HIDE DEF B, len
    <3>1. B .. (B + len - 1) = {}
      BY <1>1, <2>1
    <3>2. QED
      BY <3>1
  <2>2. CASE len # 0
    <3>1. len \in Nat \ {0}
      BY <1>1, <2>2
    <3>2. B .. (B + len - 1) \subseteq BytesOf(a)
      BY <1>1, <1>3, <3>1, AccessInside DEF RefinementInv
    <3>3. QED
      BY <3>2, ContentsAre
  <2>3. QED
    BY <2>1, <2>2
<1>5. ASSUME NEW i \in 1 .. len
      PROVE  call.data[i] = contents[B + i - 1]
  <2>1. B + i - 1 \in B .. (B + len - 1)
    <3> HIDE DEF B, len
    <3>1. QED
      BY <1>1
  <2>2. contents[B + i - 1] = InFrames(B + i - 1)
    BY <1>4, <2>1, ContentsAre
  <2>3. QED
    BY <2>2 DEF RefinementInv, CallInv, GetRead
<1>6. QED
  BY <1>1, <1>2, <1>4, <1>5

LEMMA GetEndSimulates ==
    ASSUME RefinementInv, Clients = "aligned", GetEnd
    PROVE  /\ Abstract!Get(call.first, call.off, Len(call.data))
           /\ call.first \in VPages /\ call.off \in Offsets
           /\ Len(call.data) \in Sizes
<1> DEFINE B == call.first * PGSIZE
           len == Len(call.data)
<1>1. /\ UNCHANGED <<live, page_table, memory>> /\ call.op = "get"
      /\ call.left = 0 /\ call'.op = "none"
      /\ ret' = [op |-> "get", page |-> call.first, off |-> call.off,
                 ok |-> TRUE, data |-> call.data]
  BY NoCallTypes DEF GetEnd, DataReturns, tableVars
<1>2. /\ call.first \in VPages /\ call.off \in Offsets
      /\ call.data \in Seq(Cell)
  BY DEF RefinementInv, TypeOK, CallType
<1>3. /\ call.off = 0 /\ B \in Nat /\ len \in Sizes /\ len \in Nat
      /\ B .. (B + len - 1) \subseteq LiveBytes
      /\ \A i \in 1 .. len : call.data[i] = contents[B + i - 1]
  BY <1>1, ReadContents
<1>4. contents' = contents
  BY <1>1, ContentsUndisturbed DEF RefinementInv
<1>5. B + call.off = B
  BY <1>3
<1> HIDE DEF B
<1>6. call.data = [i \in 1 .. len |-> contents[B + i - 1]]
  BY <1>2, <1>3
<1>7. Abstract!Get(call.first, call.off, len)
  BY <1>1, <1>3, <1>4, <1>5, <1>6, AbstractDefs DEF Abstract!Get, B
<1>8. QED
  BY <1>2, <1>3, <1>7

\* Every step of my_vm.c is one of VirtualMemory or changes nothing there.
LEMMA StepSimulates ==
    RefinementInv /\ RefinementInv' /\ Clients = "aligned" /\ [Next]_vars
        => [Abstract!Next]_(Abstract!vars)
<1> SUFFICES ASSUME RefinementInv, RefinementInv', Clients = "aligned",
                    [Next]_vars
             PROVE  AbstractStep
  BY DEF AbstractStep, Stutters, Abstract!vars
<1>1. ASSUME NEW n \in Sizes, MallocBegin(n)
      PROVE  AbstractStep
  BY <1>1, MallocBeginSimulates
<1>2. CASE MallocPage
  BY <1>2, MallocPageSimulates
<1>3. CASE MallocEnd
  BY <1>3, MallocEndSimulates DEF AbstractStep, Abstract!Next
<1>4. ASSUME NEW n \in Sizes, NEW v \in VPages, NEW o \in Offsets,
             FreeBegin(v, o, n)
      PROVE  AbstractStep
  BY <1>4, FreeBeginSimulates DEF AbstractStep, Abstract!Next
<1>5. CASE FreePage
  BY <1>5, FreePageSimulates DEF AbstractStep
<1>6. CASE FreeEnd
  <2>1. UNCHANGED <<live, memory, page_table>> /\ call.op = "free"
        /\ call'.op = "none" /\ ret' = [NoRet EXCEPT !.op = "free"]
    BY <1>6, NoCallTypes DEF FreeEnd, tableVars
  <2>2. contents' = contents
    BY <2>1, ContentsUndisturbed DEF RefinementInv
  <2>3. QED
    BY <2>1, <2>2, AbstractDefs
       DEF AbstractStep, Abstract!Next, Abstract!FreeReturns
<1>7. ASSUME NEW n \in Sizes, NEW v \in VPages, NEW o \in Offsets,
             NEW d \in [1..n -> Bytes], PutBegin(v, o, d)
      PROVE  AbstractStep
  BY <1>7, PutBeginSimulates DEF AbstractStep, Abstract!Next, VPages, Offsets
<1>8. CASE PutPage
  BY <1>8, PutPageSimulates DEF AbstractStep
<1>9. CASE PutEnd
  BY <1>9, PutEndSimulates DEF AbstractStep, Abstract!Next, VPages, Offsets
<1>10. ASSUME NEW n \in Sizes, NEW v \in VPages, NEW o \in Offsets,
              GetBegin(v, o, n)
       PROVE  AbstractStep
  BY <1>10, GetBeginSimulates DEF AbstractStep, Abstract!Next, VPages, Offsets
<1>11. CASE GetPage
  BY <1>11, GetPageSimulates DEF AbstractStep
<1>12. CASE GetEnd
  BY <1>12, GetEndSimulates DEF AbstractStep, Abstract!Next, VPages, Offsets
<1>13. CASE UNCHANGED vars
  <2>1. contents' = contents
    BY <1>13 DEF vars, tableVars, contents, LiveBytes, Pending, InFrames
  <2>2. QED
    BY <1>13, <2>1 DEF vars, AbstractStep, Stutters
<1>14. QED
  BY <1>1, <1>2, <1>3, <1>4, <1>5, <1>6, <1>7, <1>8, <1>9, <1>10, <1>11,
     <1>12, <1>13 DEF Next

LEMMA InitSimulates == Init => Abstract!Init
<1> SUFFICES ASSUME Init PROVE Abstract!Init
  OBVIOUS
<1>1. live = {} /\ ret = NoRet
  BY DEF Init
<1>2. LiveBytes = {}
  BY <1>1 DEF LiveBytes
<1>3. contents = << >>
  BY <1>2, ContentsAre
<1>4. QED
  BY <1>1, <1>3, AbstractDefs DEF Abstract!Init

\* For clients that free what they got, once, and access it from the start of
\* a page on, my_vm.c does what VirtualMemory promises: allocations are its
\* own, bytes keep the value last put whatever happens to frames, TLB entries
\* and other allocations, and every call takes effect at one instant
\* (my_vm.c:138-219, 396-532, 536-647).
THEOREM MemoryKeepsItsPromise ==
    Clients = "aligned" /\ Spec => ImplementsVirtualMemory
<1> SUFFICES ASSUME Clients = "aligned"
             PROVE  Spec => Abstract!Spec
  BY DEF ImplementsVirtualMemory
<1>1. Init => RefinementInv /\ Abstract!Init
  BY RefinementInvInit, InitSimulates
<1>2. RefinementInv /\ [Next]_vars
         => RefinementInv' /\ [Abstract!Next]_(Abstract!vars)
  BY RefinementInvStep, StepSimulates
<1>3. QED
  BY <1>1, <1>2, PTL DEF Spec, Abstract!Spec

\* Under the same clients a get_data that succeeds returns what memory is
\* meant to hold: with an offset it does not (my_vm.c:193-201, 617-647).
THEOREM AlignedReadsReturnWrites ==
    Clients = "aligned" /\ Spec => []ReadsReturnWrites
<1> SUFFICES ASSUME Clients = "aligned"
             PROVE  Spec => []ReadsReturnWrites
  OBVIOUS
<1>1. RefinementInv => ReadsReturnWrites
  <2> SUFFICES ASSUME RefinementInv, call.op = "get", call.left = 0,
                      NEW i \in 1 .. Len(call.data)
               PROVE  call.data[i]
                        = contents[call.first * PGSIZE + call.off + i - 1]
    BY DEF ReadsReturnWrites
  <2>1. /\ call.off = 0 /\ call.first * PGSIZE \in Nat
        /\ call.data[i] = contents[call.first * PGSIZE + i - 1]
    BY ReadContents
  <2>2. call.first * PGSIZE + call.off + i - 1 = call.first * PGSIZE + i - 1
    BY <2>1
  <2>3. QED
    BY <2>1, <2>2
<1>2. QED
  BY <1>1, RefinementInvInit, RefinementInvStep, PTL DEF Spec
=============================================================================
