-------------------------- MODULE QueueNodesProofs --------------------------
(***************************************************************************)
(* Proofs about QueueNodes, for any threads and any finite set of          *)
(* addresses: types, no use after free, no leak, the place of the tail,    *)
(* and the refinement of RunQueue. All rest on one inductive invariant,    *)
(* NodesInv: the nodes that the head leads to form a chain that ends in    *)
(* NULL.                                                                   *)
(*                                                                         *)
(* List is read off the state by recursive functions. Chain says of any    *)
(* sequence that the pointers run along it; ListIs shows that there is     *)
(* only one such sequence and that it is List, so that each step is        *)
(* proved by naming the sequence the step leaves behind.                   *)
(***************************************************************************)
EXTENDS QueueNodes, FiniteSetTheorems, SequenceTheorems,
        WellFoundedInduction, TLAPS

NodeType == [data : Threads, next : Pointers]

NodesTyped ==
    /\ takes \in {"first", "shortest"}
    /\ Allocated \subseteq Nodes
    /\ node \in [Allocated -> NodeType]
    /\ head \in Pointers
    /\ tail \in Pointers
    /\ DOMAIN unlinked \subseteq Nodes
    /\ unlinked \in [DOMAIN unlinked -> Threads]
    /\ quantums_elapsed \in [Threads -> 0 .. MaxQuantums]
    /\ out \in Threads

Members(c) == {c[i] : i \in 1 .. Len(c)}

\* The head leads along c, through nodes that are allocated, to NULL.
Chain(c) ==
    /\ \A i \in 1 .. Len(c) : c[i] \in Allocated
    /\ \A i, j \in 1 .. Len(c) : c[i] = c[j] => i = j
    /\ head = IF Len(c) = 0 THEN NULL ELSE c[1]
    /\ \A i \in 1 .. Len(c) :
          node[c[i]].next = IF i = Len(c) THEN NULL ELSE c[i + 1]

\* With q_dequeue the list and the nodes to be freed are all there is.
Accounts(c) ==
    takes = "first" =>
        /\ Allocated = Members(c) \cup DOMAIN unlinked
        /\ Members(c) \cap DOMAIN unlinked = {}
        /\ \A n \in DOMAIN unlinked : node[n].data = unlinked[n]
        /\ Len(c) # 0 => tail = c[Len(c)]

\* Without it nothing is freed, and the tail is the last node or not in the
\* list.
Strays(c) ==
    takes = "shortest" =>
        /\ DOMAIN unlinked = {}
        /\ Len(c) # 0 => tail \in Allocated
        /\ \A i \in 1 .. Len(c) - 1 : c[i] # tail

Shape(c) == c \in Seq(Nodes) /\ Chain(c) /\ Accounts(c) /\ Strays(c)
NodesInv == NodesTyped /\ fault = "none" /\ Shape(List)

-----------------------------------------------------------------------------
(***************************************************************************)
(* The recursive functions                                                 *)
(***************************************************************************)

\* A nonempty set of natural numbers has a least element.
LEMMA LeastNatural ==
    ASSUME NEW S \in SUBSET Nat, S # {}
    PROVE  \E n \in S : \A m \in S : n <= m
<1> DEFINE R == {ss \in Nat \X Nat : ss[1] < ss[2]}
<1>1. IsWellFoundedOn(R, Nat)
  BY NatLessThanWellFounded, Zenon DEF OpToRel
<1>2. \A x, y \in Nat : <<x, y>> \in R <=> x < y
  OBVIOUS
<1> HIDE DEF R
<1>3. PICK n \in S : \A m \in S : ~(<<m, n>> \in R)
  BY <1>1, WFMin
<1>4. ASSUME NEW m \in S PROVE n <= m
  <2>1. n \in Nat /\ m \in Nat /\ ~(m < n)
    BY <1>2, <1>3
  <2>2. QED
    BY <2>1
<1>5. QED
  BY <1>4

\* The sizes of two intervals.
LEMMA IntervalSize ==
    ASSUME NEW n \in Nat
    PROVE  Cardinality(1 .. n) = n /\ Cardinality(0 .. n - 1) = n
<1>1. Cardinality(1 .. n) = IF 1 > n THEN 0 ELSE n - 1 + 1
  BY FS_Interval
<1>2. 0 \in Int /\ n - 1 \in Int
  OBVIOUS
<1>3. Cardinality(0 .. n - 1) = IF 0 > n - 1 THEN 0 ELSE (n - 1) - 0 + 1
  BY <1>2, FS_Interval
<1>4. QED
  BY <1>1, <1>3

\* There are no more nodes in a list than addresses.
LEMMA ChainFits ==
    ASSUME NEW c \in Seq(Nodes), Chain(c)
    PROVE  Len(c) \in Nat /\ Cardinality(Nodes) \in Nat
           /\ Len(c) <= Cardinality(Nodes)
<1>1. c \in [1 .. Len(c) -> Nodes] /\ Len(c) \in Nat
  BY LenProperties
<1>2. c \in Injection(1 .. Len(c), Nodes)
  BY <1>1 DEF Injection, IsInjective, Chain
<1>3. IsFiniteSet(Nodes) /\ Cardinality(Nodes) \in Nat
  BY NodesAssumption, FS_CardinalityType
<1>4. Cardinality(1 .. Len(c)) = Len(c)
  BY <1>1, IntervalSize
<1>5. Cardinality(1 .. Len(c)) <= Cardinality(Nodes)
  BY <1>2, <1>3, FS_Injection
<1>6. QED
  BY <1>1, <1>3, <1>4, <1>5

\* The pointers followed from the head, in closed form: NodeAt is this
\* function.
Follow(c) ==
    [i \in 0 .. Cardinality(Nodes) |-> IF i < Len(c) THEN c[i + 1] ELSE NULL]

\* Following the pointers leads along the chain and then to NULL.
LEMMA NodeAtIs ==
    ASSUME NEW c \in Seq(Nodes), Chain(c), Allocated \subseteq Nodes
    PROVE  NodeAt = Follow(c)
<1> DEFINE N == Cardinality(Nodes)
           Q(f) == f = [i \in 0 .. N |->
                          IF i = 0 THEN head
                          ELSE IF f[i - 1] \in Allocated
                                 THEN node[f[i - 1]].next
                          ELSE NULL]
<1>0. NodeAt = CHOOSE f : Q(f)
  BY DEF NodeAt
<1>1. N \in Nat /\ Len(c) \in Nat /\ Len(c) <= N
  BY ChainFits
<1>2. \A i \in 1 .. Len(c) : c[i] \in Allocated
  BY DEF Chain
<1>3. NULL \notin Allocated
  BY NodesAssumption
<1>h. \A i \in 0 .. N :
        Follow(c)[i] = IF i < Len(c) THEN c[i + 1] ELSE NULL
  BY DEF Follow
<1>4. ASSUME NEW i \in 0 .. N
      PROVE  Follow(c)[i] =
               IF i = 0 THEN head
               ELSE IF Follow(c)[i - 1] \in Allocated
                      THEN node[Follow(c)[i - 1]].next
               ELSE NULL
  <2>1. CASE i = 0
    <3>1. Follow(c)[i] = head
      BY <2>1, <1>h, <1>1 DEF Chain
    <3>2. QED
      BY <2>1, <3>1
  <2>2. CASE i # 0 /\ i - 1 < Len(c)
    <3>1. i \in 1 .. Len(c) /\ i - 1 \in 0 .. N /\ (i - 1) + 1 = i
      BY <2>2, <1>1
    <3>2. Follow(c)[i - 1] = c[i]
      BY <3>1, <2>2, <1>h
    <3>3. c[i] \in Allocated
      BY <3>1, <1>2
    <3>4. node[c[i]].next = IF i = Len(c) THEN NULL ELSE c[i + 1]
      BY <3>1 DEF Chain
    <3>5. Follow(c)[i] = IF i = Len(c) THEN NULL ELSE c[i + 1]
      BY <3>1, <1>h, <1>1
    <3>6. QED
      BY <2>2, <3>2, <3>3, <3>4, <3>5
  <2>3. CASE i # 0 /\ ~(i - 1 < Len(c))
    <3>1. i - 1 \in 0 .. N /\ ~(i < Len(c))
      BY <2>3, <1>1
    <3>2. Follow(c)[i - 1] = NULL /\ Follow(c)[i] = NULL
      BY <3>1, <2>3, <1>h
    <3>3. QED
      BY <2>3, <3>2, <1>3
  <2>4. QED
    BY <2>1, <2>2, <2>3
<1>5. Q(Follow(c))
  BY <1>4 DEF Follow
<1>6. Q(NodeAt)
  <2> HIDE DEF Q
  <2>1. QED
    BY <1>0, <1>5, Zenon
<1>7. NodeAt = [i \in 0 .. N |-> NodeAt[i]]
  BY <1>6
<1>d. \A i \in 0 .. N :
        NodeAt[i] = IF i = 0 THEN head
                    ELSE IF NodeAt[i - 1] \in Allocated
                           THEN node[NodeAt[i - 1]].next
                    ELSE NULL
  BY <1>6
<1> DEFINE D == {i \in 0 .. N : NodeAt[i] # Follow(c)[i]}
<1>8. D = {}
  <2>1. SUFFICES ASSUME D # {} PROVE FALSE
    OBVIOUS
  <2>2. D \in SUBSET Nat
    BY <1>1
  <2>3. PICK i \in D : \A m \in D : i <= m
    BY <2>1, <2>2, LeastNatural
  <2>4. i \in 0 .. N /\ NodeAt[i] # Follow(c)[i]
    BY <2>3
  <2>5. i # 0
    BY <2>4, <1>d, <1>4
  <2>6. i - 1 \in 0 .. N /\ ~(i <= i - 1)
    BY <2>4, <2>5, <1>1
  <2>7. NodeAt[i - 1] = Follow(c)[i - 1]
    BY <2>6, <2>3
  <2>8. NodeAt[i] = Follow(c)[i]
    BY <2>4, <2>5, <2>7, <1>d, <1>4
  <2>9. QED
    BY <2>4, <2>8
<1>9. \A i \in 0 .. N : NodeAt[i] = Follow(c)[i]
  BY <1>8
<1>10. Follow(c) = [i \in 0 .. N |-> Follow(c)[i]]
  BY DEF Follow
<1>11. QED
  BY <1>7, <1>9, <1>10

\* The list is the chain, the only one there is.
LEMMA ListIs ==
    \A c \in Seq(Nodes) : Chain(c) /\ Allocated \subseteq Nodes => List = c
<1>1. SUFFICES ASSUME NEW c \in Seq(Nodes), Chain(c), Allocated \subseteq Nodes
               PROVE  List = c
  OBVIOUS
<1> DEFINE N == Cardinality(Nodes)
<1>2. N \in Nat /\ Len(c) \in Nat /\ Len(c) <= N
  BY <1>1, ChainFits
<1>3. NodeAt = Follow(c)
  BY <1>1, NodeAtIs
<1>4. c \in [1 .. Len(c) -> Nodes] /\ \A i \in 1 .. Len(c) : c[i] # NULL
  BY NodesAssumption, LenProperties
<1>5. DOMAIN NodeAt = 0 .. N
  BY <1>3 DEF Follow
<1>6. \A i \in 0 .. N : NodeAt[i] = IF i < Len(c) THEN c[i + 1] ELSE NULL
  BY <1>3 DEF Follow
<1>7. {i \in DOMAIN NodeAt : NodeAt[i] # NULL} = 0 .. Len(c) - 1
  <2>1. ASSUME NEW i \in 0 .. N
        PROVE  NodeAt[i] # NULL <=> i < Len(c)
    <3>1. CASE i < Len(c)
      <4>1. i + 1 \in 1 .. Len(c)
        BY <3>1, <1>2
      <4>2. QED
        BY <4>1, <3>1, <1>4, <1>6
    <3>2. CASE ~(i < Len(c))
      BY <3>2, <1>6
    <3>3. QED
      BY <3>1, <3>2
  <2>2. \A i : i \in 0 .. Len(c) - 1 <=> i \in 0 .. N /\ i < Len(c)
    BY <1>2
  <2>3. QED
    BY <2>1, <2>2, <1>5
<1>8. Cardinality({i \in DOMAIN NodeAt : NodeAt[i] # NULL}) = Len(c)
  <2>1. Cardinality(0 .. Len(c) - 1) = Len(c)
    BY <1>2, IntervalSize
  <2>2. QED
    BY <2>1, <1>7
<1>9. List = [i \in 1 .. Len(c) |-> NodeAt[i - 1]]
  BY <1>8 DEF List
<1>10. ASSUME NEW i \in 1 .. Len(c) PROVE NodeAt[i - 1] = c[i]
  <2>1. i - 1 \in 0 .. N /\ i - 1 < Len(c) /\ (i - 1) + 1 = i
    BY <1>2
  <2>2. QED
    BY <2>1, <1>6
<1>11. c = [i \in 1 .. Len(c) |-> c[i]]
  BY <1>4
<1>12. QED
  BY <1>9, <1>10, <1>11

\* The same after a step.
LEMMA ListIsNext ==
    \A c \in Seq(Nodes) : Chain(c)' /\ Allocated' \subseteq Nodes => List' = c
<1>1. (\A c \in Seq(Nodes) :
          Chain(c) /\ Allocated \subseteq Nodes => List = c)'
  BY ListIs, PTL
<1>2. QED
  BY <1>1

\* Place i is the first of the places 1 to n where k is the least.
IsFirstLeast(k, n, i) ==
    /\ i \in 1 .. n
    /\ \A j \in 1 .. n : k[i] <= k[j]
    /\ \A j \in 1 .. i - 1 : k[i] < k[j]

\* There is such a place when there is a place.
LEMMA FirstLeastExists ==
    ASSUME NEW n \in Nat \ {0}, NEW k, \A j \in 1 .. n : k[j] \in Nat
    PROVE  \E i : IsFirstLeast(k, n, i)
<1> DEFINE K == {k[j] : j \in 1 .. n}
<1>1. PICK x \in K : \A y \in K : x <= y
  <2>1. K \in SUBSET Nat /\ k[1] \in K
    OBVIOUS
  <2>2. QED
    BY <2>1, LeastNatural
<1> DEFINE I == {j \in 1 .. n : k[j] = x}
<1>2. PICK i \in I : \A j \in I : i <= j
  <2>1. I \in SUBSET Nat /\ I # {}
    BY <1>1
  <2>2. QED
    BY <2>1, LeastNatural
<1>3. i \in 1 .. n /\ k[i] = x /\ x \in Nat
  BY <1>1, <1>2
<1>4. \A j \in 1 .. n : x <= k[j]
  BY <1>1
<1>5. ASSUME NEW j \in 1 .. i - 1 PROVE x < k[j]
  <2>1. j \in 1 .. n /\ ~(i <= j)
    BY <1>3
  <2>2. k[j] # x
    BY <2>1, <1>2
  <2>3. x <= k[j] /\ k[j] \in Nat
    BY <2>1, <1>4
  <2>4. QED
    BY <2>2, <2>3, <1>3
<1>6. IsFirstLeast(k, n, i)
  BY <1>3, <1>4, <1>5 DEF IsFirstLeast
<1>7. QED
  BY <1>6

\* There is only one.
LEMMA FirstLeastUnique ==
    ASSUME NEW n \in Nat, NEW k, \A j \in 1 .. n : k[j] \in Nat,
           NEW i, IsFirstLeast(k, n, i), NEW j, IsFirstLeast(k, n, j)
    PROVE  i = j
<1>1. i \in 1 .. n /\ j \in 1 .. n /\ k[i] \in Nat /\ k[j] \in Nat
  BY DEF IsFirstLeast
<1>2. k[i] <= k[j] /\ k[j] <= k[i]
  BY <1>1 DEF IsFirstLeast
<1>3. ~(i < j)
  <2>1. SUFFICES ASSUME i < j PROVE FALSE
    OBVIOUS
  <2>2. i \in 1 .. j - 1
    BY <1>1, <2>1
  <2>3. k[j] < k[i]
    BY <2>2 DEF IsFirstLeast
  <2>4. QED
    BY <2>3, <1>1, <1>2
<1>4. ~(j < i)
  <2>1. SUFFICES ASSUME j < i PROVE FALSE
    OBVIOUS
  <2>2. j \in 1 .. i - 1
    BY <1>1, <2>1
  <2>3. k[i] < k[j]
    BY <2>2 DEF IsFirstLeast
  <2>4. QED
    BY <2>3, <1>1, <1>2
<1>5. QED
  BY <1>1, <1>3, <1>4

\* One turn of the scan.
LEMMA FirstLeastNext ==
    ASSUME NEW n \in Nat \ {0}, NEW k, \A j \in 1 .. n : k[j] \in Nat,
           n > 1, NEW i, IsFirstLeast(k, n - 1, i)
    PROVE  IsFirstLeast(k, n, IF k[n] < k[i] THEN n ELSE i)
<1>1. i \in 1 .. n - 1 /\ i \in 1 .. n /\ n \in 1 .. n
  BY DEF IsFirstLeast
<1>2. k[n] \in Nat /\ k[i] \in Nat /\ \A j \in 1 .. n : k[j] \in Nat
  BY <1>1
<1>3. \A j \in 1 .. n - 1 : k[i] <= k[j]
  BY DEF IsFirstLeast
<1>4. \A j \in 1 .. i - 1 : k[i] < k[j]
  BY DEF IsFirstLeast
<1>5. \A j \in 1 .. n : j = n \/ j \in 1 .. n - 1
  OBVIOUS
<1>6. CASE k[n] < k[i]
  <2>1. ASSUME NEW j \in 1 .. n - 1 PROVE k[n] < k[j]
    <3>1. k[i] <= k[j] /\ k[j] \in Nat
      BY <1>2, <1>3, <1>5
    <3>2. QED
      BY <3>1, <1>2, <1>6
  <2>2. ASSUME NEW j \in 1 .. n PROVE k[n] <= k[j]
    BY <2>1, <1>2, <1>5
  <2>3. QED
    BY <2>1, <2>2, <1>1, <1>6 DEF IsFirstLeast
<1>7. CASE ~(k[n] < k[i])
  <2>1. ASSUME NEW j \in 1 .. n PROVE k[i] <= k[j]
    BY <1>2, <1>3, <1>5, <1>7
  <2>2. QED
    BY <2>1, <1>1, <1>4, <1>7 DEF IsFirstLeast
<1>8. QED
  BY <1>6, <1>7

\* The quantums charged to the threads along a list.
Keys(c) == [j \in 1 .. Len(c) |-> Quantums(c[j])]

\* The threads in the nodes of a chain, and their quantums, are typed.
LEMMA KeysTyped ==
    ASSUME NEW c \in Seq(Nodes), Chain(c), NodesTyped
    PROVE  \A j \in 1 .. Len(c) : /\ node[c[j]] \in NodeType
                                   /\ node[c[j]].data \in Threads
                                   /\ Keys(c)[j] = Quantums(c[j])
                                   /\ Quantums(c[j]) \in Nat
<1>1. SUFFICES ASSUME NEW j \in 1 .. Len(c)
               PROVE  /\ node[c[j]] \in NodeType
                      /\ node[c[j]].data \in Threads
                      /\ Quantums(c[j]) \in Nat
  BY DEF Keys
<1>2. c[j] \in Allocated
  BY DEF Chain
<1>3. node[c[j]] \in NodeType
  BY <1>2 DEF NodesTyped
<1>4. node[c[j]].data \in Threads
  BY <1>3 DEF NodeType
<1>5. quantums_elapsed[node[c[j]].data] \in 0 .. MaxQuantums
  BY <1>4 DEF NodesTyped
<1>6. QED
  BY <1>3, <1>4, <1>5, NodesAssumption DEF Quantums

\* The scan of q_dequeue_shortest_runtime ends at the first of the nodes whose
\* threads were charged the fewest quantums.
LEMMA ShortestIs ==
    ASSUME NEW c \in Seq(Nodes), Len(c) # 0, Chain(c), NodesTyped
    PROVE  IsFirstLeast(Keys(c), Len(c), ShortestOf(c))
<1> DEFINE L == Len(c)
           k == Keys(c)
           Q(f) == f = [i \in 1 .. L |->
                          IF i = 1 THEN 1
                          ELSE IF Shorter(c[i], c[f[i - 1]]) THEN i
                          ELSE f[i - 1]]
           g == [i \in 1 .. L |-> CHOOSE b : IsFirstLeast(k, i, b)]
<1>0. ShortestOf(c) = (CHOOSE f : Q(f))[L]
  BY DEF ShortestOf
<1>1. L \in Nat \ {0} /\ L \in 1 .. L
  BY LenProperties
<1>2. \A j \in 1 .. L : k[j] = Quantums(c[j]) /\ k[j] \in Nat
  BY KeysTyped
<1> HIDE DEF k, L
<1>3. \A i \in 1 .. L : IsFirstLeast(k, i, g[i])
  <2>1. SUFFICES ASSUME NEW i \in 1 .. L PROVE IsFirstLeast(k, i, g[i])
    OBVIOUS
  <2>2. i \in Nat \ {0} /\ \A j \in 1 .. i : k[j] \in Nat
    BY <1>1, <1>2
  <2>3. \E b : IsFirstLeast(k, i, b)
    BY <2>2, FirstLeastExists
  <2>4. QED
    BY <2>3
<1>4. ASSUME NEW i \in 1 .. L, NEW b, i # 1 => IsFirstLeast(k, i - 1, b)
      PROVE  IsFirstLeast(k, i, IF i = 1 THEN 1
                                ELSE IF Shorter(c[i], c[b]) THEN i
                                ELSE b)
  <2>1. i \in Nat \ {0} /\ \A j \in 1 .. i : j \in 1 .. L
    BY <1>1
  <2>2. CASE i = 1
    <3>1. k[1] \in Nat
      BY <2>1, <2>2, <1>2
    <3>2. IsFirstLeast(k, 1, 1)
      BY <3>1 DEF IsFirstLeast
    <3>3. QED
      BY <3>2, <2>2
  <2>3. CASE i # 1
    <3>1. i > 1 /\ IsFirstLeast(k, i - 1, b) /\ \A j \in 1 .. i : k[j] \in Nat
      BY <2>1, <2>3, <1>2, <1>4
    <3>2. b \in 1 .. L
      <4>1. b \in 1 .. i - 1
        BY <3>1 DEF IsFirstLeast
      <4>2. QED
        BY <4>1, <1>1
    <3>3. Shorter(c[i], c[b]) <=> k[i] < k[b]
      BY <3>2, <1>2 DEF Shorter
    <3>4. IsFirstLeast(k, i, IF k[i] < k[b] THEN i ELSE b)
      BY <2>1, <3>1, FirstLeastNext
    <3>5. QED
      BY <2>3, <3>3, <3>4
  <2>4. QED
    BY <2>2, <2>3
<1>5. ASSUME NEW i \in 1 .. L
      PROVE  g[i] = IF i = 1 THEN 1
                    ELSE IF Shorter(c[i], c[g[i - 1]]) THEN i
                    ELSE g[i - 1]
  <2> HIDE DEF g
  <2>1. i # 1 => i - 1 \in 1 .. L
    BY <1>1
  <2>2. i # 1 => IsFirstLeast(k, i - 1, g[i - 1])
    BY <2>1, <1>3
  <2>3. IsFirstLeast(k, i, IF i = 1 THEN 1
                           ELSE IF Shorter(c[i], c[g[i - 1]]) THEN i
                           ELSE g[i - 1])
    BY <2>2, <1>4
  <2>4. i \in Nat /\ \A j \in 1 .. i : k[j] \in Nat
    BY <1>1, <1>2
  <2>5. IsFirstLeast(k, i, g[i])
    BY <1>3
  <2>6. QED
    BY <2>3, <2>4, <2>5, FirstLeastUnique
<1>6. Q(g)
  <2>1. g = [i \in 1 .. L |-> g[i]]
    OBVIOUS
  <2> HIDE DEF g
  <2>2. QED
    BY <2>1, <1>5
<1> DEFINE f == CHOOSE h : Q(h)
<1>7. Q(f)
  <2> HIDE DEF Q, g
  <2>1. QED
    BY <1>6, Zenon
<1> HIDE DEF f, g
<1>8. \A i \in 1 .. L : f[i] = IF i = 1 THEN 1
                               ELSE IF Shorter(c[i], c[f[i - 1]]) THEN i
                               ELSE f[i - 1]
  BY <1>7
<1> HIDE DEF Q
<1> DEFINE D == {i \in 1 .. L : ~IsFirstLeast(k, i, f[i])}
<1>9. D = {}
  <2>1. SUFFICES ASSUME D # {} PROVE FALSE
    OBVIOUS
  <2>2. D \in SUBSET Nat
    OBVIOUS
  <2>3. PICK i \in D : \A m \in D : i <= m
    BY <2>1, <2>2, LeastNatural
  <2>4. i \in 1 .. L /\ ~IsFirstLeast(k, i, f[i])
    BY <2>3
  <2>5. i # 1 => IsFirstLeast(k, i - 1, f[i - 1])
    <3>1. SUFFICES ASSUME i # 1 PROVE IsFirstLeast(k, i - 1, f[i - 1])
      OBVIOUS
    <3>2. i - 1 \in 1 .. L /\ ~(i <= i - 1)
      BY <2>4, <3>1, <1>1
    <3>3. QED
      BY <3>2, <2>3
  <2>6. IsFirstLeast(k, i, IF i = 1 THEN 1
                           ELSE IF Shorter(c[i], c[f[i - 1]]) THEN i
                           ELSE f[i - 1])
    BY <2>4, <2>5, <1>4
  <2>7. QED
    BY <2>4, <2>6, <1>8
<1>10. IsFirstLeast(k, L, f[L])
  BY <1>1, <1>9
<1>11. ShortestOf(c) = f[L]
  BY <1>0 DEF f
<1>12. QED
  BY <1>10, <1>11 DEF k, L

-----------------------------------------------------------------------------
(***************************************************************************)
(* The steps                                                               *)
(***************************************************************************)

\* What the invariant says of the list, for the steps: the list is a chain c.
LEMMA TheList ==
    ASSUME NodesInv
    PROVE  /\ NodesTyped
           /\ fault = "none"
           /\ List \in Seq(Nodes)
           /\ Shape(List)
           /\ Chain(List)
           /\ Len(List) \in Nat
           /\ q_is_empty <=> Len(List) = 0
<1>1. NodesTyped /\ Shape(List) /\ Chain(List) /\ List \in Seq(Nodes)
  BY DEF NodesInv, Shape
<1>2. Len(List) \in Nat
  BY <1>1, LenProperties
<1>3. Len(List) # 0 => head \in Allocated
  BY <1>1, <1>2 DEF Chain
<1>4. NULL \notin Allocated
  BY <1>1, NodesAssumption DEF NodesTyped
<1>5. q_is_empty <=> Len(List) = 0
  BY <1>1, <1>3, <1>4 DEF Chain, q_is_empty
<1>6. QED
  BY <1>1, <1>2, <1>5 DEF NodesInv

\* A step establishes the invariant by leaving a chain behind.
LEMMA NextList ==
    ASSUME NEW d \in Seq(Nodes), NodesTyped', fault' = "none",
           Chain(d)', Accounts(d)', Strays(d)'
    PROVE  List' = d /\ NodesInv'
<1>1. List' = d
  BY ListIsNext DEF NodesTyped
<1>2. Chain(List)' /\ Accounts(List)' /\ Strays(List)'
  BY <1>1 DEF Chain, Accounts, Strays, Members
<1>3. QED
  BY <1>1, <1>2 DEF NodesInv, Shape

\* A chain without its node i: i is unlinked by passing it over.
Dropping(c, i) ==
    [j \in 1 .. Len(c) - 1 |-> IF j < i THEN c[j] ELSE c[j + 1]]

\* It is a sequence, a node shorter.
LEMMA DroppingIs ==
    ASSUME NEW c \in Seq(Nodes), Len(c) # 0, NEW i \in 1 .. Len(c)
    PROVE  /\ Dropping(c, i) \in Seq(Nodes)
           /\ Len(c) - 1 \in Nat
           /\ Len(Dropping(c, i)) = Len(c) - 1
           /\ \A j \in 1 .. Len(c) - 1 :
                 Dropping(c, i)[j] = IF j < i THEN c[j] ELSE c[j + 1]
<1>1. Len(c) \in Nat /\ \A j \in 1 .. Len(c) : c[j] \in Nodes
  BY LenProperties, ElementOfSeq
<1>2. Len(c) - 1 \in Nat
  BY <1>1
<1>3. \A j \in 1 .. Len(c) - 1 : (IF j < i THEN c[j] ELSE c[j + 1]) \in Nodes
  BY <1>1, <1>2
<1>4. Dropping(c, i) \in Seq(Nodes)
  BY <1>2, <1>3, IsASeq DEF Dropping
<1>5. DOMAIN Dropping(c, i) = 1 .. Len(Dropping(c, i))
      /\ Len(Dropping(c, i)) \in Nat
  BY <1>4, LenProperties
<1>6. DOMAIN Dropping(c, i) = 1 .. Len(c) - 1
  BY DEF Dropping
<1>7. Len(Dropping(c, i)) = Len(c) - 1
  BY <1>2, <1>5, <1>6
<1>8. QED
  BY <1>2, <1>4, <1>7 DEF Dropping

\* Without its first node.
LEMMA DroppingFirst ==
    ASSUME NEW c \in Seq(Nodes), Len(c) # 0
    PROVE  /\ Dropping(c, 1) \in Seq(Nodes)
           /\ Len(Dropping(c, 1)) = Len(c) - 1
           /\ \A j \in 1 .. Len(c) - 1 : Dropping(c, 1)[j] = c[j + 1]
<1>1. Len(c) \in Nat /\ 1 \in 1 .. Len(c)
  BY LenProperties
<1>2. /\ Dropping(c, 1) \in Seq(Nodes)
      /\ Len(Dropping(c, 1)) = Len(c) - 1
      /\ \A j \in 1 .. Len(c) - 1 :
            Dropping(c, 1)[j] = IF j < 1 THEN c[j] ELSE c[j + 1]
  BY <1>1, DroppingIs
<1>3. \A j \in 1 .. Len(c) - 1 : ~(j < 1)
  BY <1>1
<1>4. QED
  BY <1>2, <1>3

\* Its nodes are those of the chain but one.
LEMMA DroppingMembers ==
    ASSUME NEW c \in Seq(Nodes), Len(c) # 0, NEW i \in 1 .. Len(c),
           \A j, k \in 1 .. Len(c) : c[j] = c[k] => j = k
    PROVE  /\ Members(Dropping(c, i)) = Members(c) \ {c[i]}
           /\ \A j, k \in 1 .. Len(Dropping(c, i)) :
                 Dropping(c, i)[j] = Dropping(c, i)[k] => j = k
<1> DEFINE d == Dropping(c, i)
           L == Len(c)
<1>1. /\ Len(d) = L - 1 /\ L \in Nat \ {0}
      /\ \A j \in 1 .. L - 1 : d[j] = IF j < i THEN c[j] ELSE c[j + 1]
  BY DroppingIs, LenProperties
<1> HIDE DEF d, L
<1>2. \A j, k \in 1 .. L : c[j] = c[k] => j = k
  BY DEF L
<1>3. i \in 1 .. L
  BY DEF L
<1>4. ASSUME NEW j \in 1 .. L - 1
      PROVE  \E k \in 1 .. L : k # i /\ d[j] = c[k]
  <2>1. CASE j < i
    BY <2>1, <1>1, <1>3
  <2>2. CASE ~(j < i)
    <3>1. j + 1 \in 1 .. L /\ j + 1 # i /\ d[j] = c[j + 1]
      BY <2>2, <1>1, <1>3
    <3>2. QED
      BY <3>1
  <2>3. QED
    BY <2>1, <2>2
<1>5. ASSUME NEW k \in 1 .. L, k # i
      PROVE  \E j \in 1 .. L - 1 : d[j] = c[k]
  <2>1. CASE k < i
    BY <2>1, <1>1, <1>3
  <2>2. CASE ~(k < i)
    <3>1. k - 1 \in 1 .. L - 1 /\ ~(k - 1 < i) /\ (k - 1) + 1 = k
      BY <2>2, <1>1, <1>3, <1>5
    <3>2. d[k - 1] = c[k]
      BY <3>1, <1>1
    <3>3. QED
      BY <3>1, <3>2
  <2>3. QED
    BY <2>1, <2>2
<1>6. ASSUME NEW j \in 1 .. L - 1, NEW k \in 1 .. L - 1, d[j] = d[k]
      PROVE  j = k
  <2>1. j \in 1 .. L /\ k \in 1 .. L /\ j + 1 \in 1 .. L /\ k + 1 \in 1 .. L
    BY <1>1
  <2>2. d[j] = (IF j < i THEN c[j] ELSE c[j + 1])
        /\ d[k] = (IF k < i THEN c[k] ELSE c[k + 1])
    BY <1>1
  <2>3. CASE j < i /\ k < i
    BY <2>1, <2>2, <2>3, <1>2, <1>6
  <2>4. CASE ~(j < i) /\ ~(k < i)
    <3>1. j + 1 = k + 1
      BY <2>1, <2>2, <2>4, <1>2, <1>6
    <3>2. QED
      BY <3>1
  <2>5. CASE j < i /\ ~(k < i)
    <3>1. j = k + 1
      BY <2>1, <2>2, <2>5, <1>2, <1>6
    <3>2. QED
      BY <3>1, <2>5, <1>3
  <2>6. CASE ~(j < i) /\ k < i
    <3>1. j + 1 = k
      BY <2>1, <2>2, <2>6, <1>2, <1>6
    <3>2. QED
      BY <3>1, <2>6, <1>3
  <2>7. QED
    BY <2>3, <2>4, <2>5, <2>6
<1>7. Members(d) = Members(c) \ {c[i]}
  <2>1. ASSUME NEW x \in Members(d) PROVE x \in Members(c) \ {c[i]}
    <3>1. PICK j \in 1 .. L - 1 : x = d[j]
      BY <2>1, <1>1 DEF Members
    <3>2. PICK k \in 1 .. L : k # i /\ x = c[k]
      BY <3>1, <1>4
    <3>3. QED
      BY <3>2, <1>2, <1>3 DEF Members, L
  <2>2. ASSUME NEW x \in Members(c) \ {c[i]} PROVE x \in Members(d)
    <3>1. PICK k \in 1 .. L : x = c[k]
      BY <2>2 DEF Members, L
    <3>2. k # i
      BY <2>2, <3>1
    <3>3. PICK j \in 1 .. L - 1 : d[j] = x
      BY <3>1, <3>2, <1>5
    <3>4. QED
      BY <3>3, <1>1 DEF Members
  <2>3. QED
    BY <2>1, <2>2
<1>8. QED
  BY <1>1, <1>6, <1>7 DEF d

\* The list after q_enqueue linked new behind the tail.
Enqueued(t, new) ==
    /\ List' = IF Len(List) # 0 /\ tail \notin Members(List)
                 THEN List ELSE Append(List, new)
    /\ tail' = new
    /\ node'[new].data = t
    /\ \A n \in Allocated : node'[n].data = node[n].data

\* q_enqueue appends a node, or loses it behind a tail that is not in the list.
LEMMA EnqueueStep ==
    ASSUME NodesInv, NEW t \in Threads, q_enqueue(t)
    PROVE  NodesInv' /\ \E new \in Nodes \ Allocated : Enqueued(t, new)
<1>0. PICK c : c = List
  OBVIOUS
<1> DEFINE L == Len(c)
<1>1. /\ NodesTyped /\ fault = "none"
      /\ c \in Seq(Nodes) /\ Shape(c) /\ Chain(c)
      /\ L \in Nat /\ (q_is_empty <=> L = 0)
  BY <1>0, TheList
<1>2. /\ \A i \in 1 .. L : c[i] \in Allocated /\ c[i] \in Nodes
      /\ \A i, j \in 1 .. L : c[i] = c[j] => i = j
      /\ head = IF L = 0 THEN NULL ELSE c[1]
      /\ \A i \in 1 .. L :
            node[c[i]].next = IF i = L THEN NULL ELSE c[i + 1]
  BY <1>1, ElementOfSeq DEF Chain
<1>3. L # 0 => tail \in Allocated
  <2>1. CASE takes = "first"
    BY <2>1, <1>1, <1>2 DEF Shape, Accounts
  <2>2. CASE takes = "shortest"
    BY <2>2, <1>1 DEF Shape, Strays
  <2>3. QED
    BY <2>1, <2>2, <1>1 DEF NodesTyped
<1>4. PICK new \in Nodes \ Allocated :
        /\ L = 0 => head' = new /\ node' = With(node, new, NewNode(t))
        /\ L # 0 => /\ node' = With([node EXCEPT ![tail].next = new],
                                    new, NewNode(t))
                    /\ head' = head
        /\ tail' = new
        /\ UNCHANGED <<takes, unlinked, quantums_elapsed, out, fault>>
  BY <1>1, <1>3 DEF q_enqueue, TailAfter
<1> DEFINE stray == L # 0 /\ tail \notin Members(c)
           linked == [node EXCEPT ![tail].next = new]
<1>5. /\ Allocated' = Allocated \cup {new}
      /\ node' \in [Allocated' -> NodeType]
      /\ node'[new].data = t /\ node'[new].next = NULL
      /\ \A n \in Allocated :
            /\ node'[n].data = node[n].data
            /\ node'[n].next = IF L # 0 /\ n = tail THEN new ELSE node[n].next
  <2>1. node \in [Allocated -> NodeType] /\ new \notin Allocated
    BY <1>1 DEF NodesTyped
  <2>2. NewNode(t) \in NodeType /\ NewNode(t).data = t /\ NewNode(t).next = NULL
    BY DEF NewNode, NodeType, Pointers
  <2>3. CASE L = 0
    <3>1. node' = With(node, new, NewNode(t))
      BY <2>3, <1>4
    <3>2. /\ node' \in [Allocated \cup {new} -> NodeType]
          /\ node'[new] = NewNode(t)
          /\ \A n \in Allocated : n # new => node'[n] = node[n]
      BY <3>1, <2>1, <2>2 DEF With
    <3>3. Allocated' = Allocated \cup {new}
      BY <3>2 DEF Allocated
    <3>4. QED
      BY <2>1, <2>2, <2>3, <3>2, <3>3
  <2>4. CASE L # 0
    <3>1. node' = With(linked, new, NewNode(t)) /\ tail \in Allocated
      BY <2>4, <1>3, <1>4
    <3>2. /\ linked \in [Allocated -> NodeType]
          /\ \A n \in Allocated :
                /\ linked[n].data = node[n].data
                /\ linked[n].next = IF n = tail THEN new ELSE node[n].next
      BY <2>1, <3>1 DEF NodeType, Pointers
    <3> HIDE DEF linked
    <3>3. /\ node' \in [Allocated \cup {new} -> NodeType]
          /\ node'[new] = NewNode(t)
          /\ \A n \in Allocated : n # new => node'[n] = linked[n]
      BY <3>1, <3>2, <2>2 DEF With
    <3>4. Allocated' = Allocated \cup {new}
      BY <3>3 DEF Allocated
    <3>5. QED
      BY <2>1, <2>2, <2>4, <3>2, <3>3, <3>4
  <2>5. QED
    BY <2>3, <2>4
<1>6. NodesTyped' /\ fault' = "none"
  <2>1. Allocated' \subseteq Nodes
    BY <1>1, <1>5 DEF NodesTyped
  <2>2. head' \in Pointers /\ tail' \in Pointers
    BY <1>1, <1>4 DEF NodesTyped, Pointers
  <2>3. QED
    BY <2>1, <2>2, <1>1, <1>4, <1>5 DEF NodesTyped
<1>7. new \notin Members(c)
  BY <1>2 DEF Members
<1>8. CASE stray
  <2>1. L # 0 /\ takes = "shortest" /\ takes' = "shortest"
    BY <1>1, <1>2, <1>4, <1>8 DEF NodesTyped, Shape, Accounts, Members
  <2>2. \A i \in 1 .. L : c[i] # tail
    BY <1>8 DEF Members
  <2>3. \A i \in 1 .. L : node'[c[i]].next = node[c[i]].next
    BY <2>2, <1>2, <1>5
  <2>4. Chain(c)'
    BY <2>1, <2>3, <1>2, <1>4, <1>5 DEF Chain
  <2>5. \A i \in 1 .. L - 1 : c[i] # new
    BY <1>1, <1>2
  <2>6. Accounts(c)' /\ Strays(c)'
    BY <2>1, <2>5, <1>1, <1>4, <1>5 DEF Accounts, Strays, Shape
  <2>7. List' = c /\ NodesInv'
    BY <2>4, <2>6, <1>1, <1>6, NextList
  <2>8. Enqueued(t, new)
    BY <2>7, <1>0, <1>4, <1>5, <1>8 DEF Enqueued
  <2>9. QED
    BY <2>7, <2>8
<1>9. CASE ~stray
  <2>0. PICK d : d = Append(c, new)
    OBVIOUS
  <2>1. /\ d \in Seq(Nodes) /\ Len(d) = L + 1
        /\ \A i \in 1 .. L : d[i] = c[i]
        /\ d[L + 1] = new
    BY <2>0, <1>1, AppendProperties
  <2>2. L # 0 => tail = c[L]
    <3>1. SUFFICES ASSUME L # 0 PROVE tail = c[L]
      OBVIOUS
    <3>2. PICK i \in 1 .. L : tail = c[i]
      BY <3>1, <1>9 DEF Members
    <3>3. CASE takes = "first"
      BY <3>1, <3>3, <1>1 DEF Shape, Accounts
    <3>4. CASE takes = "shortest"
      <4>1. ~(i \in 1 .. L - 1)
        BY <3>2, <3>4, <1>1 DEF Shape, Strays
      <4>2. i = L
        BY <4>1, <1>1
      <4>3. QED
        BY <3>2, <4>2
    <3>5. QED
      BY <3>3, <3>4, <1>1 DEF NodesTyped
  <2>3. \A i \in 1 .. L + 1 : i = L + 1 \/ i \in 1 .. L
    BY <1>1
  <2>4. \A i \in 1 .. L + 1 : d[i] \in Allocated'
    BY <2>1, <2>3, <1>2, <1>5
  <2>5. ASSUME NEW i \in 1 .. L + 1, NEW j \in 1 .. L + 1, d[i] = d[j]
        PROVE  i = j
    <3>1. \A k \in 1 .. L : d[k] = c[k] /\ c[k] # new
      BY <2>1, <1>2
    <3>2. QED
      BY <3>1, <2>1, <2>3, <2>5, <1>2
  <2>6. head' = d[1]
    <3>1. CASE L = 0
      BY <3>1, <2>1, <1>4
    <3>2. CASE L # 0
      <4>1. 1 \in 1 .. L
        BY <3>2, <1>1
      <4>2. QED
        BY <3>2, <4>1, <2>1, <1>2, <1>4
    <3>3. QED
      BY <3>1, <3>2
  <2>7. ASSUME NEW i \in 1 .. L + 1
        PROVE  node'[d[i]].next = IF i = L + 1 THEN NULL ELSE d[i + 1]
    <3>1. CASE i = L + 1
      BY <3>1, <2>1, <1>5
    <3>2. CASE i = L /\ L # 0
      <4>1. i \in 1 .. L /\ i # L + 1
        BY <3>2, <1>1
      <4>2. d[i] = tail /\ tail \in Allocated
        BY <3>2, <4>1, <2>1, <2>2, <1>3
      <4>3. node'[d[i]].next = new
        BY <3>2, <4>2, <1>5
      <4>4. QED
        BY <3>2, <4>1, <4>3, <2>1
    <3>3. CASE i # L /\ i # L + 1
      <4>1. i \in 1 .. L /\ i + 1 \in 1 .. L /\ L # 0 /\ L \in 1 .. L
        BY <3>3, <1>1
      <4>2. d[i] = c[i] /\ d[i + 1] = c[i + 1] /\ c[i] # tail
        BY <3>3, <4>1, <2>1, <2>2, <1>2
      <4>3. node'[c[i]].next = c[i + 1]
        BY <3>3, <4>1, <4>2, <1>2, <1>5
      <4>4. QED
        BY <3>3, <4>2, <4>3
    <3>4. QED
      BY <3>1, <3>2, <3>3, <2>3, <1>1
  <2>8. L + 1 # 0 /\ L + 1 \in 1 .. L + 1
    BY <1>1
  <2>9. Chain(d)'
    BY <2>1, <2>4, <2>5, <2>6, <2>7, <2>8 DEF Chain
  <2>10. Members(d) = Members(c) \cup {new}
    <3>1. ASSUME NEW x \in Members(d) PROVE x \in Members(c) \cup {new}
      BY <3>1, <2>1, <2>3 DEF Members
    <3>2. ASSUME NEW x \in Members(c) PROVE x \in Members(d)
      <4>1. PICK i \in 1 .. L : x = c[i]
        BY <3>2 DEF Members
      <4>2. i \in 1 .. L + 1 /\ d[i] = x
        BY <4>1, <2>1, <1>1
      <4>3. QED
        BY <4>2, <2>1 DEF Members
    <3>3. new \in Members(d)
      BY <2>1, <2>8 DEF Members
    <3>4. QED
      BY <3>1, <3>2, <3>3
  <2>11. Accounts(d)'
    <3>1. SUFFICES ASSUME takes' = "first"
                   PROVE  /\ Allocated' = Members(d) \cup DOMAIN unlinked'
                          /\ Members(d) \cap DOMAIN unlinked' = {}
                          /\ \A n \in DOMAIN unlinked' :
                                node'[n].data = unlinked'[n]
                          /\ Len(d) # 0 => tail' = d[Len(d)]
      BY DEF Accounts, Members
    <3>2. /\ Allocated = Members(c) \cup DOMAIN unlinked
          /\ Members(c) \cap DOMAIN unlinked = {}
          /\ \A n \in DOMAIN unlinked : node[n].data = unlinked[n]
      BY <3>1, <1>1, <1>4 DEF Shape, Accounts
    <3>3. Allocated' = Members(d) \cup DOMAIN unlinked'
      BY <3>2, <2>10, <1>4, <1>5
    <3>4. Members(d) \cap DOMAIN unlinked' = {}
      BY <3>2, <2>10, <1>4
    <3>5. \A n \in DOMAIN unlinked' : node'[n].data = unlinked'[n]
      BY <3>2, <1>4, <1>5
    <3>6. tail' = d[Len(d)]
      BY <2>1, <1>4
    <3>7. QED
      BY <3>3, <3>4, <3>5, <3>6
  <2>12. Strays(d)'
    <3>1. \A i \in 1 .. (L + 1) - 1 : d[i] # new
      BY <2>1, <1>1, <1>2
    <3>2. QED
      BY <3>1, <2>1, <1>1, <1>4, <1>5 DEF Strays, Shape
  <2>13. List' = d /\ NodesInv'
    BY <2>1, <2>9, <2>11, <2>12, <1>6, NextList
  <2>14. Enqueued(t, new)
    BY <2>0, <2>13, <1>0, <1>4, <1>5, <1>9 DEF Enqueued
  <2>15. QED
    BY <2>13, <2>14
<1>10. QED
  BY <1>8, <1>9

\* The head moves to the second node.
LEMMA DropHead ==
    ASSUME NEW c \in Seq(Nodes), Chain(c), Len(c) # 0,
           node' = node, head' = node[c[1]].next,
           NEW d, d = Dropping(c, 1)
    PROVE  Chain(d)'
<1> DEFINE L == Len(c)
<1>1. L \in Nat \ {0} /\ 1 \in 1 .. L
  BY LenProperties
<1>2. /\ Len(d) = L - 1
      /\ \A j \in 1 .. L - 1 : d[j] = c[j + 1]
  BY DroppingFirst
<1>3. \A j, k \in 1 .. L - 1 : d[j] = d[k] => j = k
  BY <1>1, <1>2, DroppingMembers DEF Chain
<1>4. ASSUME NEW j \in 1 .. L - 1
      PROVE  /\ d[j] \in Allocated'
             /\ node'[d[j]].next = IF j = L - 1 THEN NULL ELSE d[j + 1]
  <2>1. j + 1 \in 1 .. L /\ d[j] = c[j + 1]
    BY <1>1, <1>2
  <2>2. d[j] \in Allocated /\ Allocated' = Allocated
    BY <2>1 DEF Chain, Allocated
  <2>3. node[d[j]].next = IF j + 1 = L THEN NULL ELSE c[(j + 1) + 1]
    BY <2>1 DEF Chain
  <2>4. CASE j = L - 1
    BY <2>2, <2>3, <2>4, <1>1
  <2>5. CASE j # L - 1
    <3>1. j + 1 \in 1 .. L - 1 /\ j + 1 # L
      BY <2>5, <1>1
    <3>2. d[j + 1] = c[(j + 1) + 1]
      BY <3>1, <1>2
    <3>3. QED
      BY <3>1, <3>2, <2>2, <2>3, <2>5
  <2>6. QED
    BY <2>4, <2>5
<1>5. head' = IF L - 1 = 0 THEN NULL ELSE d[1]
  <2>1. node[c[1]].next = IF 1 = L THEN NULL ELSE c[1 + 1]
    BY <1>1 DEF Chain
  <2>2. CASE L = 1
    BY <2>1, <2>2
  <2>3. CASE L # 1
    <3>1. 1 \in 1 .. L - 1 /\ L - 1 # 0
      <4> HIDE DEF L
      <4>1. QED
        BY <2>3, <1>1
    <3>2. d[1] = c[1 + 1]
      BY <3>1, <1>2
    <3>3. QED
      BY <2>1, <2>3, <3>1, <3>2
  <2>4. QED
    BY <2>2, <2>3
<1>6. QED
  BY <1>2, <1>3, <1>4, <1>5 DEF Chain

\* q_dequeue takes out the first node, which stays allocated until it is freed.
LEMMA DequeueStep ==
    ASSUME NodesInv, q_dequeue
    PROVE  /\ NodesInv'
           /\ Len(List) # 0
           /\ List' = Dropping(List, 1)
           /\ out' = node[List[1]].data
           /\ UNCHANGED <<node, tail, quantums_elapsed>>
<1>0. PICK c : c = List
  OBVIOUS
<1> DEFINE L == Len(c)
<1>1. /\ NodesTyped /\ fault = "none"
      /\ c \in Seq(Nodes) /\ Shape(c) /\ Chain(c)
      /\ L \in Nat /\ (q_is_empty <=> L = 0)
  BY <1>0, TheList
<1>2. takes = "first" /\ L # 0
  BY <1>1 DEF q_dequeue
<1>3. head = c[1] /\ c[1] \in Allocated /\ 1 \in 1 .. L
  BY <1>1, <1>2 DEF Chain
<1>4. /\ head' = node[c[1]].next
      /\ unlinked' = With(unlinked, c[1], node[c[1]].data)
      /\ out' = node[c[1]].data
      /\ UNCHANGED <<takes, node, tail, quantums_elapsed, fault>>
  BY <1>3 DEF q_dequeue
<1>5. PICK d : d = Dropping(c, 1)
  OBVIOUS
<1>6. /\ d \in Seq(Nodes) /\ Len(d) = L - 1
      /\ \A j \in 1 .. L - 1 : d[j] = c[j + 1]
  BY <1>1, <1>2, <1>5, DroppingFirst
<1>7. Members(d) = Members(c) \ {c[1]}
  BY <1>1, <1>2, <1>3, <1>5, DroppingMembers DEF Chain
<1>8. Chain(d)'
  BY <1>1, <1>2, <1>4, <1>5, DropHead
<1>9. /\ node \in [Allocated -> NodeType] /\ Allocated \subseteq Nodes
      /\ node[c[1]] \in NodeType
      /\ node[c[1]].data \in Threads /\ node[c[1]].next \in Pointers
  BY <1>1, <1>3 DEF NodesTyped, NodeType
<1>10. /\ DOMAIN unlinked' = DOMAIN unlinked \cup {c[1]}
       /\ unlinked' \in [DOMAIN unlinked' -> Threads]
       /\ unlinked'[c[1]] = node[c[1]].data
       /\ \A n \in DOMAIN unlinked : n # c[1] => unlinked'[n] = unlinked[n]
  <2>1. unlinked \in [DOMAIN unlinked -> Threads]
    BY <1>1 DEF NodesTyped
  <2>2. QED
    BY <2>1, <1>4, <1>9 DEF With
<1>11. NodesTyped' /\ fault' = "none"
  <2>1. DOMAIN unlinked' \subseteq Nodes
    BY <1>1, <1>3, <1>9, <1>10 DEF NodesTyped
  <2>2. Allocated' = Allocated
    BY <1>4 DEF Allocated
  <2>3. QED
    BY <2>1, <2>2, <1>1, <1>4, <1>9, <1>10 DEF NodesTyped
<1>12. Accounts(d)'
  <2>1. /\ Allocated = Members(c) \cup DOMAIN unlinked
        /\ Members(c) \cap DOMAIN unlinked = {}
        /\ \A n \in DOMAIN unlinked : node[n].data = unlinked[n]
        /\ tail = c[L]
    BY <1>1, <1>2 DEF Shape, Accounts
  <2>2. c[1] \in Members(c)
    BY <1>3 DEF Members
  <2>3. Allocated' = Members(d) \cup DOMAIN unlinked'
    BY <2>1, <2>2, <1>4, <1>7, <1>10 DEF Allocated
  <2>4. Members(d) \cap DOMAIN unlinked' = {}
    BY <2>1, <1>7, <1>10
  <2>5. \A n \in DOMAIN unlinked' : node'[n].data = unlinked'[n]
    BY <2>1, <1>4, <1>10
  <2>6. Len(d) # 0 => tail' = d[Len(d)]
    <3>1. SUFFICES ASSUME L - 1 # 0 PROVE tail' = d[L - 1]
      BY <1>6
    <3>2. L - 1 \in 1 .. L - 1 /\ (L - 1) + 1 = L
      <4> HIDE DEF L
      <4>1. QED
        BY <3>1, <1>1, <1>2
    <3>3. QED
      BY <3>2, <2>1, <1>4, <1>6
  <2>7. QED
    BY <2>3, <2>4, <2>5, <2>6 DEF Accounts, Members
<1>13. Strays(d)'
  BY <1>2, <1>4 DEF Strays
<1>14. NodesInv' /\ List' = d
  BY <1>6, <1>8, <1>11, <1>12, <1>13, NextList
<1>15. QED
  BY <1>0, <1>2, <1>4, <1>5, <1>14

\* The second half of q_dequeue frees a node that is not in the list.
LEMMA FreeStep ==
    ASSUME NodesInv, NEW n \in DOMAIN unlinked, q_dequeue_free(n)
    PROVE  /\ NodesInv'
           /\ List' = List
           /\ n \notin Members(List)
           /\ \A m \in Allocated \ {n} : node'[m] = node[m]
           /\ UNCHANGED <<head, tail, quantums_elapsed, out>>
<1>0. PICK c : c = List
  OBVIOUS
<1> DEFINE L == Len(c)
<1>1. /\ NodesTyped /\ fault = "none"
      /\ c \in Seq(Nodes) /\ Shape(c) /\ Chain(c)
      /\ L \in Nat /\ (q_is_empty <=> L = 0)
  BY <1>0, TheList
<1>2. takes = "first"
  BY <1>1 DEF NodesTyped, Shape, Strays
<1>3. /\ Allocated = Members(c) \cup DOMAIN unlinked
      /\ Members(c) \cap DOMAIN unlinked = {}
      /\ \A m \in DOMAIN unlinked : node[m].data = unlinked[m]
      /\ L # 0 => tail = c[L]
  BY <1>1, <1>2 DEF Shape, Accounts
<1>4. n \in Allocated /\ n \notin Members(c)
  BY <1>3
<1>5. /\ node' = Without(node, n)
      /\ unlinked' = Without(unlinked, n)
      /\ UNCHANGED <<takes, head, tail, quantums_elapsed, out, fault>>
  BY <1>4 DEF q_dequeue_free, Freed
<1>6. /\ Allocated' = Allocated \ {n}
      /\ \A m \in Allocated \ {n} : node'[m] = node[m]
      /\ node' \in [Allocated' -> NodeType]
  <2>1. node \in [Allocated -> NodeType]
    BY <1>1 DEF NodesTyped
  <2>2. Allocated' = Allocated \ {n}
    BY <1>5 DEF Allocated, Without
  <2>3. QED
    BY <2>1, <2>2, <1>5 DEF Without, Allocated
<1>7. /\ DOMAIN unlinked' = DOMAIN unlinked \ {n}
      /\ \A m \in DOMAIN unlinked \ {n} : unlinked'[m] = unlinked[m]
      /\ unlinked' \in [DOMAIN unlinked' -> Threads]
  <2>1. unlinked \in [DOMAIN unlinked -> Threads]
    BY <1>1 DEF NodesTyped
  <2>2. QED
    BY <2>1, <1>5 DEF Without
<1>8. NodesTyped' /\ fault' = "none"
  BY <1>1, <1>5, <1>6, <1>7 DEF NodesTyped
<1>9. \A i \in 1 .. L : c[i] \in Allocated' /\ node'[c[i]] = node[c[i]]
  BY <1>3, <1>4, <1>6 DEF Members
<1>10. Chain(c)'
  BY <1>1, <1>5, <1>9 DEF Chain
<1>11. Accounts(c)'
  <2>1. Allocated' = Members(c) \cup DOMAIN unlinked'
    BY <1>3, <1>4, <1>6, <1>7
  <2>2. \A m \in DOMAIN unlinked' : node'[m].data = unlinked'[m]
    BY <1>3, <1>6, <1>7
  <2>3. QED
    BY <2>1, <2>2, <1>3, <1>5, <1>7 DEF Accounts, Members
<1>12. Strays(c)'
  BY <1>2, <1>5 DEF Strays
<1>13. NodesInv' /\ List' = c
  BY <1>1, <1>8, <1>10, <1>11, <1>12, NextList
<1>14. QED
  BY <1>0, <1>4, <1>5, <1>6, <1>13

\* Charging a thread changes no node.
LEMMA ChargeStep ==
    ASSUME NodesInv, NEW t \in Threads, Charge(t)
    PROVE  NodesInv' /\ List' = List
<1>0. PICK c : c = List
  OBVIOUS
<1>1. /\ NodesTyped /\ fault = "none"
      /\ c \in Seq(Nodes) /\ Shape(c) /\ Chain(c)
  BY <1>0, TheList
<1>2. UNCHANGED <<takes, node, head, tail, unlinked, out, fault>>
  BY DEF Charge
<1>3. Chain(c)' /\ Accounts(c)' /\ Strays(c)'
  BY <1>1, <1>2 DEF Shape, Chain, Accounts, Strays, Allocated, Members
<1>4. quantums_elapsed' \in [Threads -> 0 .. MaxQuantums]
  BY <1>1, NodesAssumption DEF NodesTyped, Charge
<1>5. NodesTyped'
  BY <1>1, <1>2, <1>4 DEF NodesTyped, Allocated
<1>6. QED
  BY <1>0, <1>1, <1>2, <1>3, <1>5, NextList

\* The pointer of the node before i moves past i.
LEMMA DropInside ==
    ASSUME NEW c \in Seq(Nodes), Chain(c), NEW i \in 1 .. Len(c), i # 1,
           node \in [Allocated -> NodeType], head' = head,
           node' = [node EXCEPT ![c[i - 1]].next = node[c[i]].next],
           NEW d, d = Dropping(c, i)
    PROVE  Chain(d)'
<1> DEFINE L == Len(c)
<1>1. L \in Nat /\ L # 0 /\ i \in 1 .. L
  BY LenProperties
<1>2. /\ Len(d) = L - 1
      /\ \A j \in 1 .. L - 1 : d[j] = IF j < i THEN c[j] ELSE c[j + 1]
  BY <1>1, DroppingIs
<1>3. \A j, k \in 1 .. L - 1 : d[j] = d[k] => j = k
  BY <1>1, <1>2, DroppingMembers DEF Chain
<1>4. /\ \A j \in 1 .. L : c[j] \in Allocated
      /\ \A j, k \in 1 .. L : c[j] = c[k] => j = k
      /\ head = IF L = 0 THEN NULL ELSE c[1]
      /\ \A j \in 1 .. L :
            node[c[j]].next = IF j = L THEN NULL ELSE c[j + 1]
  BY DEF Chain
<1> HIDE DEF L
<1>5. i - 1 \in 1 .. L /\ 1 \in 1 .. L - 1 /\ 1 < i
  BY <1>1
<1>6. /\ Allocated' = Allocated
      /\ \A n \in Allocated :
            node'[n].next = IF n = c[i - 1] THEN node[c[i]].next
                                            ELSE node[n].next
  <2>1. c[i - 1] \in Allocated
    BY <1>4, <1>5
  <2>2. QED
    BY <2>1 DEF Allocated, NodeType
<1>7. ASSUME NEW j \in 1 .. L - 1
      PROVE  /\ d[j] \in Allocated'
             /\ node'[d[j]].next = IF j = L - 1 THEN NULL ELSE d[j + 1]
  <2>1. j \in 1 .. L /\ j + 1 \in 1 .. L /\ j # L
        /\ (j # L - 1 => j + 1 \in 1 .. L - 1 /\ j + 1 # L)
    BY <1>1
  <2>2. CASE j < i - 1
    <3>1. j < i /\ j + 1 < i /\ j # i - 1 /\ j # L - 1
      BY <2>2, <2>1, <1>1
    <3>2. d[j] = c[j] /\ d[j + 1] = c[j + 1]
      BY <3>1, <2>1, <1>2
    <3>3. c[j] \in Allocated /\ c[j] # c[i - 1] /\ node[c[j]].next = c[j + 1]
      BY <3>1, <2>1, <1>4, <1>5
    <3>4. QED
      BY <3>1, <3>2, <3>3, <1>6
  <2>3. CASE j = i - 1
    <3>1. j < i /\ ~(j + 1 < i) /\ j + 1 = i
      BY <2>3, <2>1, <1>1
    <3>2. d[j] = c[i - 1]
      BY <3>1, <2>3, <1>2
    <3>3. node'[d[j]].next = IF i = L THEN NULL ELSE c[i + 1]
      BY <3>2, <1>1, <1>4, <1>5, <1>6
    <3>4. d[j] \in Allocated'
      BY <3>2, <1>4, <1>5, <1>6
    <3>5. CASE j = L - 1
      <4>1. i = L
        BY <3>1, <3>5, <1>1
      <4>2. QED
        BY <4>1, <3>3, <3>4, <3>5
    <3>6. CASE j # L - 1
      <4>1. i # L /\ d[j + 1] = c[i + 1]
        BY <3>1, <3>6, <2>1, <1>1, <1>2
      <4>2. QED
        BY <4>1, <3>3, <3>4, <3>6
    <3>7. QED
      BY <3>5, <3>6
  <2>4. CASE j > i - 1
    <3>1. ~(j < i) /\ ~(j + 1 < i) /\ j + 1 # i - 1
      BY <2>4, <2>1, <1>1
    <3>2. d[j] = c[j + 1]
      BY <3>1, <1>2
    <3>3. /\ c[j + 1] \in Allocated /\ c[j + 1] # c[i - 1]
          /\ node[c[j + 1]].next = IF j + 1 = L THEN NULL ELSE c[(j + 1) + 1]
      BY <3>1, <2>1, <1>4, <1>5
    <3>4. CASE j = L - 1
      <4>1. j + 1 = L
        BY <3>4, <1>1
      <4>2. QED
        BY <4>1, <3>2, <3>3, <3>4, <1>6
    <3>5. CASE j # L - 1
      <4>1. j + 1 # L /\ d[j + 1] = c[(j + 1) + 1]
        BY <3>1, <3>5, <2>1, <1>2
      <4>2. QED
        BY <4>1, <3>2, <3>3, <3>5, <1>6
    <3>6. QED
      BY <3>4, <3>5
  <2>5. QED
    BY <2>2, <2>3, <2>4, <2>1, <1>1
<1>8. head' = d[1] /\ L - 1 # 0
  BY <1>1, <1>2, <1>4, <1>5
<1>9. Len(d) = L - 1
  BY <1>2
<1>10. QED
  BY <1>3, <1>7, <1>8, <1>9 DEF Chain

\* q_dequeue_shortest_runtime passes over the first of the nodes whose threads
\* were charged the fewest quantums. A thread queued twice has the same quantums
\* at both places, so that only the head has the id of the head.
LEMMA ShortestStep ==
    ASSUME NodesInv, q_dequeue_shortest_runtime
    PROVE  /\ NodesInv'
           /\ Len(List) # 0
           /\ IsFirstLeast(Keys(List), Len(List), ShortestOf(List))
           /\ List' = Dropping(List, ShortestOf(List))
           /\ out' = node[List[ShortestOf(List)]].data
           /\ \A n \in Allocated : node'[n].data = node[n].data
           /\ UNCHANGED <<tail, quantums_elapsed>>
<1>0. PICK c : c = List
  OBVIOUS
<1>i. PICK i : i = ShortestOf(c)
  OBVIOUS
<1> DEFINE L == Len(c)
<1>1. /\ NodesTyped /\ fault = "none"
      /\ c \in Seq(Nodes) /\ Shape(c) /\ Chain(c)
      /\ L \in Nat /\ (q_is_empty <=> L = 0)
  BY <1>0, TheList
<1>2. takes = "shortest" /\ L # 0
  BY <1>1 DEF q_dequeue_shortest_runtime
<1>3. /\ \A j \in 1 .. L : c[j] \in Allocated
      /\ \A j, k \in 1 .. L : c[j] = c[k] => j = k
      /\ head = c[1] /\ DOMAIN c = 1 .. L
  BY <1>1, <1>2, LenProperties DEF Chain
<1>4. IsFirstLeast(Keys(c), L, i)
  BY <1>1, <1>2, <1>i, ShortestIs
<1>5. i \in 1 .. L /\ 1 \in 1 .. L
  BY <1>1, <1>2, <1>4 DEF IsFirstLeast
<1>6. node \in [Allocated -> NodeType] /\ Allocated \subseteq Nodes
  BY <1>1 DEF NodesTyped
<1> DEFINE isHead == node[c[i]].data = node[c[1]].data
<1>7. isHead <=> i = 1
  <2>1. SUFFICES ASSUME isHead, i # 1 PROVE FALSE
    OBVIOUS
  <2>2. /\ Keys(c)[i] = Quantums(c[i]) /\ Keys(c)[1] = Quantums(c[1])
        /\ Quantums(c[i]) \in Nat /\ Quantums(c[1]) \in Nat
    BY <1>1, <1>5, KeysTyped
  <2>3. Quantums(c[i]) = Quantums(c[1])
    BY <2>1 DEF Quantums
  <2>4. 1 \in 1 .. i - 1
    BY <2>1, <1>5
  <2>5. Keys(c)[i] < Keys(c)[1]
    BY <2>4, <1>4 DEF IsFirstLeast
  <2>6. QED
    BY <2>2, <2>3, <2>5
<1>8. /\ out' = node[c[i]].data
      /\ head' = IF i = 1 THEN node[c[1]].next ELSE head
      /\ node' = IF i = 1 THEN node
                 ELSE [node EXCEPT ![c[i - 1]].next = node[c[i]].next]
      /\ UNCHANGED <<takes, tail, unlinked, quantums_elapsed, fault>>
  <2>1. ~(\E j \in DOMAIN List : List[j] \notin Allocated)
    BY <1>0, <1>3
  <2>2. /\ out' = node[List[ShortestOf(List)]].data
        /\ head' = IF node[List[ShortestOf(List)]].data = node[head].data
                     THEN node[List[ShortestOf(List)]].next ELSE head
        /\ node' = IF node[List[ShortestOf(List)]].data = node[head].data
                     THEN node
                     ELSE [node EXCEPT
                             ![IF ShortestOf(List) = 1
                                 THEN node[List[ShortestOf(List)]].next
                                 ELSE List[ShortestOf(List) - 1]].next
                               = node[List[ShortestOf(List)]].next]
        /\ UNCHANGED <<takes, tail, unlinked, quantums_elapsed, fault>>
    BY <2>1 DEF q_dequeue_shortest_runtime, AfterTaking
  <2>3. List = c /\ ShortestOf(List) = i /\ head = c[1]
    BY <1>0, <1>i, <1>3
  <2>4. CASE i = 1
    BY <2>2, <2>3, <2>4
  <2>5. CASE i # 1
    <3>1. ~isHead
      BY <2>5, <1>7
    <3>2. QED
      BY <2>2, <2>3, <2>5, <3>1
  <2>6. QED
    BY <2>4, <2>5
<1>9. PICK d : d = Dropping(c, i)
  OBVIOUS
<1>10. /\ d \in Seq(Nodes) /\ Len(d) = L - 1
       /\ \A j \in 1 .. L - 1 : d[j] = IF j < i THEN c[j] ELSE c[j + 1]
  BY <1>1, <1>2, <1>5, <1>9, DroppingIs
<1>11. Chain(d)'
  <2>1. CASE i = 1
    BY <2>1, <1>1, <1>2, <1>8, <1>9, DropHead
  <2>2. CASE i # 1
    <3>1. head' = head
          /\ node' = [node EXCEPT ![c[i - 1]].next = node[c[i]].next]
      BY <2>2, <1>8
    <3>2. QED
      BY <2>2, <3>1, <1>1, <1>5, <1>6, <1>9, DropInside
  <2>3. QED
    BY <2>1, <2>2
<1>12. /\ node' \in [Allocated -> NodeType]
       /\ \A n \in Allocated : node'[n].data = node[n].data
       /\ head' \in Pointers
  <2>1. node[c[i]] \in NodeType /\ node[c[i]].next \in Pointers
    BY <1>3, <1>5, <1>6 DEF NodeType
  <2>2. head' \in Pointers
    BY <2>1, <1>1, <1>8 DEF NodesTyped
  <2>3. CASE i = 1
    BY <2>2, <2>3, <1>6, <1>8
  <2>4. CASE i # 1
    <3>1. c[i - 1] \in Allocated
      <4>1. i - 1 \in 1 .. L
        BY <2>4, <1>5
      <4>2. QED
        BY <4>1, <1>3
    <3>2. node' = [node EXCEPT ![c[i - 1]].next = node[c[i]].next]
      BY <2>4, <1>8
    <3>3. QED
      BY <2>1, <2>2, <3>1, <3>2, <1>6 DEF NodeType
  <2>5. QED
    BY <2>3, <2>4
<1>13. Allocated' = Allocated
  BY <1>12 DEF Allocated
<1>14. NodesTyped' /\ fault' = "none"
  <2>1. out' \in Threads
    BY <1>3, <1>5, <1>6, <1>8 DEF NodeType
  <2>2. QED
    BY <2>1, <1>1, <1>8, <1>12, <1>13 DEF NodesTyped
<1>15. Accounts(d)'
  BY <1>2, <1>8 DEF Accounts
<1>16. Strays(d)'
  <2>1. /\ DOMAIN unlinked = {}
        /\ tail \in Allocated
        /\ \A j \in 1 .. L - 1 : c[j] # tail
    BY <1>1, <1>2 DEF Shape, Strays
  <2>2. ASSUME NEW j \in 1 .. (L - 1) - 1 PROVE d[j] # tail
    <3>1. j \in 1 .. L - 1 /\ j + 1 \in 1 .. L - 1
      <4>1. L \in Nat
        BY <1>1
      <4> HIDE DEF L
      <4>2. QED
        BY <4>1
    <3>2. QED
      BY <3>1, <2>1, <1>10
  <2>3. QED
    BY <2>1, <2>2, <1>8, <1>10, <1>13 DEF Strays
<1>17. NodesInv' /\ List' = d
  BY <1>10, <1>11, <1>14, <1>15, <1>16, NextList
<1>18. QED
  BY <1>0, <1>i, <1>2, <1>4, <1>8, <1>9, <1>12, <1>17

-----------------------------------------------------------------------------
(***************************************************************************)
(* The invariant                                                           *)
(***************************************************************************)

\* It holds of the empty queue of q_init.
LEMMA InitNodesInv == Init => NodesInv /\ List = <<>>
<1>1. SUFFICES ASSUME Init PROVE NodesInv /\ List = <<>>
  OBVIOUS
<1>2. PICK c : c = <<>>
  OBVIOUS
<1>3. c \in Seq(Nodes) /\ Len(c) = 0
  BY <1>2, EmptySeq
<1>4. Allocated = {} /\ DOMAIN unlinked = {}
  BY <1>1 DEF Init, Allocated
<1>5. Chain(c) /\ Accounts(c) /\ Strays(c)
  BY <1>1, <1>3, <1>4 DEF Init, Chain, Accounts, Strays, Members
<1>6. NodesTyped /\ fault = "none"
  BY <1>1, <1>4, NodesAssumption DEF Init, NodesTyped, Pointers, Allocated
<1>7. List = c
  BY <1>3, <1>4, <1>5, ListIs
<1>8. QED
  BY <1>2, <1>3, <1>5, <1>6, <1>7 DEF NodesInv, Shape

\* Every operation keeps it.
LEMMA NextNodesInv == NodesInv /\ [Next]_vars => NodesInv'
<1>1. SUFFICES ASSUME NodesInv, [Next]_vars PROVE NodesInv'
  OBVIOUS
<1>2. ASSUME NEW t \in Threads, q_enqueue(t) PROVE NodesInv'
  BY <1>1, <1>2, EnqueueStep
<1>3. ASSUME NEW t \in Threads, Charge(t) PROVE NodesInv'
  BY <1>1, <1>3, ChargeStep
<1>4. CASE q_dequeue
  BY <1>1, <1>4, DequeueStep
<1>5. ASSUME NEW n \in DOMAIN unlinked, q_dequeue_free(n) PROVE NodesInv'
  BY <1>1, <1>5, FreeStep
<1>6. CASE q_dequeue_shortest_runtime
  BY <1>1, <1>6, ShortestStep
<1>7. CASE UNCHANGED vars
  <2>1. PICK c : c = List
    OBVIOUS
  <2>2. /\ NodesTyped /\ fault = "none" /\ c \in Seq(Nodes) /\ Shape(c)
        /\ Chain(c)
    BY <2>1, <1>1, TheList
  <2>3. Chain(c)' /\ Accounts(c)' /\ Strays(c)'
    BY <2>2, <1>7 DEF vars, Shape, Chain, Accounts, Strays, Allocated, Members
  <2>4. NodesTyped' /\ fault' = "none"
    BY <2>2, <1>7 DEF vars, NodesTyped, Allocated
  <2>5. QED
    BY <2>2, <2>3, <2>4, NextList
<1>8. QED
  BY <1>1, <1>2, <1>3, <1>4, <1>5, <1>6, <1>7 DEF Next

\* So it always holds.
LEMMA NodesInvariant == Spec => []NodesInv
<1>1. Init => NodesInv
  BY InitNodesInv
<1>2. QED
  BY <1>1, NextNodesInv, PTL DEF Spec

\* Nodes hold threads and pointers, and so do the head, the tail and what
\* q_dequeue has yet to free.
THEOREM NodeTypesCorrect == Spec => []TypeOK
<1>1. NodesInv => TypeOK
  BY DEF NodesInv, NodesTyped, TypeOK, NodeType
<1>2. QED
  BY <1>1, NodesInvariant, PTL

\* No operation follows a pointer to a node that was freed, with any number of
\* addresses and however often they are used again.
THEOREM FreedNodesUnused == Spec => []NoUseAfterFree
<1>1. NodesInv => NoUseAfterFree
  BY DEF NodesInv, NoUseAfterFree
<1>2. QED
  BY <1>1, NodesInvariant, PTL

\* Where threads are taken by q_dequeue every node is in the list or about to
\* be freed, never both, and holds the thread that was taken.
THEOREM NodesAccountedFor == Spec => []NoLeak
<1>1. NodesInv => NoLeak
  <2>1. SUFFICES ASSUME NodesInv PROVE NoLeak
    OBVIOUS
  <2>2. Accounts(List) /\ List \in Seq(Nodes)
    BY <2>1 DEF NodesInv, Shape
  <2>3. ListNodes = Members(List)
    BY <2>2, LenProperties DEF ListNodes, Members
  <2>4. QED
    BY <2>2, <2>3 DEF NoLeak, Accounts
<1>2. QED
  BY <1>1, NodesInvariant, PTL

\* There the tail of a queue that is not empty is its last node.
THEOREM TailCorrect == Spec => []TailIsLast
<1>1. NodesInv => TailIsLast
  <2>1. SUFFICES ASSUME NodesInv PROVE TailIsLast
    OBVIOUS
  <2>2. Accounts(List) /\ (q_is_empty <=> Len(List) = 0)
    BY <2>1, TheList DEF Shape
  <2>3. QED
    BY <2>2 DEF TailIsLast, Accounts
<1>2. QED
  BY <1>1, NodesInvariant, PTL

-----------------------------------------------------------------------------
(***************************************************************************)
(* The refinement of RunQueue                                              *)
(***************************************************************************)

\* The threads along a chain.
Items(c) == [i \in 1 .. Len(c) |-> node[c[i]].data]

\* The tail is not in the list that c is.
Stray(c) == Len(c) # 0 /\ tail \notin Members(c)

\* The queue that ThreadWorker works with is what these two say.
LEMMA QueueIs ==
    NodesInv => /\ queue.items = Items(List)
                /\ queue.stray = Stray(List)
                /\ queue = [items |-> Items(List), stray |-> Stray(List)]
<1>1. SUFFICES ASSUME NodesInv
               PROVE  queue = [items |-> Items(List), stray |-> Stray(List)]
  OBVIOUS
<1>2. /\ List \in Seq(Nodes) /\ DOMAIN List = 1 .. Len(List)
      /\ q_is_empty <=> Len(List) = 0
  BY <1>1, TheList, LenProperties
<1>3. ListNodes = Members(List)
  BY <1>2 DEF ListNodes, Members
<1>4. (~q_is_empty /\ tail \notin ListNodes) = Stray(List)
  BY <1>2, <1>3 DEF Stray
<1>5. [i \in DOMAIN List |-> node[List[i]].data] = Items(List)
  BY <1>2 DEF Items
<1>6. QED
  BY <1>4, <1>5 DEF queue

\* The same after a step.
LEMMA QueueIsNext ==
    NodesInv' => queue' = [items |-> Items(List)', stray |-> Stray(List)']
<1>1. (NodesInv => queue = [items |-> Items(List), stray |-> Stray(List)])'
  BY QueueIs, PTL
<1>2. QED
  BY <1>1

\* Its items are a sequence of threads, as long as the list.
LEMMA ItemsTyped ==
    ASSUME NEW c \in Seq(Nodes), Chain(c), NodesTyped
    PROVE  /\ Items(c) \in Seq(Threads)
           /\ Len(Items(c)) = Len(c)
           /\ \A i \in 1 .. Len(c) : Items(c)[i] = node[c[i]].data
<1>1. Len(c) \in Nat
  BY LenProperties
<1>2. \A i \in 1 .. Len(c) : node[c[i]].data \in Threads
  BY KeysTyped
<1>3. Items(c) \in Seq(Threads)
  BY <1>1, <1>2, IsASeq DEF Items
<1>4. DOMAIN Items(c) = 1 .. Len(c)
      /\ DOMAIN Items(c) = 1 .. Len(Items(c)) /\ Len(Items(c)) \in Nat
  BY <1>3, LenProperties DEF Items
<1>5. Len(Items(c)) = Len(c)
  BY <1>1, <1>4
<1>6. QED
  BY <1>3, <1>5 DEF Items

\* q_init makes the empty queue.
LEMMA InitRefined == Init => Abstract!Init
<1>1. SUFFICES ASSUME Init PROVE Abstract!Init
  OBVIOUS
<1>2. NodesInv /\ List = <<>>
  BY <1>1, InitNodesInv
<1>3. Len(List) = 0 /\ List \in Seq(Nodes) /\ Chain(List) /\ NodesTyped
  BY <1>2, EmptySeq, TheList
<1>4. Items(List) \in Seq(Threads) /\ Len(Items(List)) = 0
  BY <1>3, ItemsTyped
<1>5. Items(List) = <<>>
  BY <1>4, EmptySeq
<1>6. queue = [items |-> <<>>, stray |-> FALSE]
  BY <1>2, <1>3, <1>5, QueueIs DEF Stray
<1>7. QED
  BY <1>1, <1>6 DEF Init, Abstract!Init, Abstract!q_init

\* q_enqueue appends to the items, or changes nothing when the tail is astray.
LEMMA EnqueueRefined ==
    ASSUME NodesInv, NEW t \in Threads, q_enqueue(t)
    PROVE  Abstract!Enqueue(t)
<1>0. PICK c : c = List
  OBVIOUS
<1> DEFINE L == Len(c)
<1>1. /\ NodesTyped /\ c \in Seq(Nodes) /\ Chain(c) /\ L \in Nat
  BY <1>0, TheList
<1>2. NodesInv'
  BY EnqueueStep
<1>3. PICK new \in Nodes \ Allocated : Enqueued(t, new)
  BY EnqueueStep
<1>4. /\ List' = IF Stray(c) THEN c ELSE Append(c, new)
      /\ tail' = new
      /\ node'[new].data = t
      /\ \A n \in Allocated : node'[n].data = node[n].data
  BY <1>0, <1>3 DEF Enqueued, Stray
<1>5. \A i \in 1 .. L : c[i] \in Allocated
  BY <1>1 DEF Chain
<1>6. /\ Items(c) \in Seq(Threads) /\ Len(Items(c)) = L
      /\ \A i \in 1 .. L : Items(c)[i] = node[c[i]].data
  BY <1>1, ItemsTyped
<1>7. queue = [items |-> Items(c), stray |-> Stray(c)]
  BY <1>0, QueueIs
<1>8. queue' = [items |-> [i \in 1 .. Len(List') |-> node'[List'[i]].data],
                stray |-> Len(List') # 0
                          /\ tail' \notin {List'[i] : i \in 1 .. Len(List')}]
  BY <1>2, QueueIsNext DEF Items, Stray, Members
<1>9. quantums_elapsed' = quantums_elapsed /\ out' = out
  BY <1>2 DEF q_enqueue, NodesInv, UseAfterFree
<1>10. CASE Stray(c)
  <2>1. [i \in 1 .. L |-> node'[c[i]].data] = Items(c)
    BY <1>4, <1>5 DEF Items
  <2>2. L # 0 /\ new \notin {c[i] : i \in 1 .. L}
    BY <1>5, <1>10 DEF Stray
  <2>3. queue' = queue
    BY <2>1, <2>2, <1>4, <1>7, <1>8, <1>10
  <2>4. queue.stray
    BY <1>7, <1>10
  <2>5. QED
    BY <2>3, <2>4, <1>9 DEF Abstract!Enqueue, Abstract!q_enqueue
<1>11. CASE ~Stray(c)
  <2>1. PICK d : d = Append(c, new)
    OBVIOUS
  <2>2. /\ Len(d) = L + 1 /\ d[L + 1] = new
        /\ \A i \in 1 .. L : d[i] = c[i]
    BY <2>1, <1>1, AppendProperties
  <2>3. List' = d
    BY <2>1, <1>4, <1>11
  <2>4. L + 1 # 0 /\ L + 1 \in 1 .. L + 1
        /\ \A i \in 1 .. L + 1 : i = L + 1 \/ i \in 1 .. L
    BY <1>1
  <2>5. new \in {d[i] : i \in 1 .. Len(d)}
    BY <2>2, <2>4
  <2> DEFINE x == [i \in 1 .. Len(d) |-> node'[d[i]].data]
             y == Append(Items(c), t)
  <2>6. x = y
    <3>1. /\ y \in Seq(Threads) /\ Len(y) = L + 1 /\ y[L + 1] = t
          /\ \A i \in 1 .. L : y[i] = Items(c)[i]
      BY <1>6, AppendProperties
    <3>2. y \in [1 .. L + 1 -> Threads]
      BY <3>1, LenProperties
    <3>3. ASSUME NEW i \in 1 .. L + 1 PROVE node'[d[i]].data = y[i]
      <4>1. CASE i = L + 1
        BY <4>1, <3>1, <2>2, <1>4
      <4>2. CASE i \in 1 .. L
        BY <4>2, <3>1, <2>2, <1>4, <1>5, <1>6
      <4>3. QED
        BY <4>1, <4>2, <2>4
    <3> HIDE DEF y
    <3>4. y = [i \in 1 .. L + 1 |-> y[i]]
      BY <3>2
    <3>5. QED
      BY <3>3, <3>4, <2>2
  <2> HIDE DEF x, y
  <2>7. queue' = [items |-> x, stray |-> FALSE]
    BY <2>3, <2>5, <1>4, <1>8 DEF x
  <2>8. queue = [items |-> Items(c), stray |-> FALSE]
    <3>1. Stray(c) = FALSE
      BY <1>11 DEF Stray
    <3>2. QED
      BY <3>1, <1>7
  <2>9. queue' = [queue EXCEPT !.items = Append(@, t)] /\ ~queue.stray
    <3>1. queue.items = Items(c) /\ queue.stray = FALSE
      BY <2>8
    <3>2. \A a, b, s : [[items |-> a, stray |-> s] EXCEPT !.items = b]
                         = [items |-> b, stray |-> s]
      OBVIOUS
    <3>3. [queue EXCEPT !.items = Append(Items(c), t)]
            = [items |-> Append(Items(c), t), stray |-> FALSE]
      BY <3>2, <2>8, Zenon
    <3>4. QED
      BY <3>1, <3>3, <2>6, <2>7 DEF y
  <2>10. QED
    BY <2>9, <1>9 DEF Abstract!Enqueue, Abstract!q_enqueue
<1>12. QED
  BY <1>10, <1>11

\* The items along a chain without its node i, wherever the data are unchanged.
LEMMA ItemsDropped ==
    ASSUME NEW c \in Seq(Nodes), Chain(c), NodesTyped, Len(c) # 0,
           NEW i \in 1 .. Len(c), NEW d, d = Dropping(c, i),
           \A n \in Allocated : node'[n].data = node[n].data
    PROVE  [j \in 1 .. Len(d) |-> node'[d[j]].data]
             = Abstract!WithoutIndex(Items(c), i)
<1> DEFINE L == Len(c)
<1>1. L \in Nat /\ Len(d) = L - 1
      /\ \A j \in 1 .. L - 1 : d[j] = IF j < i THEN c[j] ELSE c[j + 1]
  BY DroppingIs, LenProperties
<1>2. /\ Len(Items(c)) = L
      /\ \A j \in 1 .. L : Items(c)[j] = node[c[j]].data
  BY ItemsTyped
<1>3. \A j \in 1 .. L : c[j] \in Allocated
  BY DEF Chain
<1> HIDE DEF L
<1>4. ASSUME NEW j \in 1 .. L - 1
      PROVE  node'[d[j]].data
               = IF j < i THEN Items(c)[j] ELSE Items(c)[j + 1]
  <2>1. j \in 1 .. L /\ j + 1 \in 1 .. L
    BY <1>1
  <2>2. node'[c[j]].data = Items(c)[j] /\ node'[c[j + 1]].data = Items(c)[j + 1]
    BY <2>1, <1>2, <1>3
  <2>3. QED
    BY <2>2, <1>1
<1>5. QED
  BY <1>1, <1>2, <1>4 DEF Abstract!WithoutIndex

\* q_dequeue takes the first item.
LEMMA DequeueRefined ==
    ASSUME NodesInv, q_dequeue
    PROVE  Abstract!TakeFirst
<1>0. PICK c : c = List
  OBVIOUS
<1> DEFINE L == Len(c)
<1>1. /\ NodesTyped /\ c \in Seq(Nodes) /\ Chain(c) /\ L \in Nat /\ Shape(c)
  BY <1>0, TheList
<1>2. PICK d : d = Dropping(c, 1)
  OBVIOUS
<1>3. /\ NodesInv' /\ L # 0 /\ List' = d /\ out' = node[c[1]].data
      /\ UNCHANGED <<node, tail, quantums_elapsed>>
  BY <1>0, <1>2, DequeueStep
<1>4. 1 \in 1 .. L
  BY <1>1, <1>3
<1>5. takes = "first" /\ takes' = "first"
  BY <1>3 DEF q_dequeue, UseAfterFree
<1>6. ~Stray(c)
  <2>1. tail = c[L] /\ L \in 1 .. L
    BY <1>1, <1>3, <1>5 DEF Shape, Accounts
  <2>2. QED
    BY <2>1 DEF Stray, Members
<1>7. ~(Len(d) # 0 /\ tail \notin {d[i] : i \in 1 .. Len(d)})
  <2>1. Accounts(List)'
    BY <1>3 DEF NodesInv, Shape
  <2>2. Len(d) # 0 => tail = d[Len(d)]
    BY <2>1, <1>3, <1>5 DEF Accounts
  <2>3. d \in Seq(Nodes)
    BY <1>1, <1>2, <1>3, DroppingFirst
  <2>4. Len(d) \in Nat
    BY <2>3, LenProperties
  <2>5. Len(d) # 0 => Len(d) \in 1 .. Len(d)
    BY <2>4
  <2>6. QED
    BY <2>2, <2>5
<1>8. queue = [items |-> Items(c), stray |-> FALSE]
  BY <1>0, <1>6, QueueIs
<1>9. queue' = [items |-> [i \in 1 .. Len(d) |-> node'[d[i]].data],
                stray |-> FALSE]
  BY <1>3, <1>7, QueueIsNext DEF Items, Stray, Members
<1>10. /\ Items(c) \in Seq(Threads) /\ Len(Items(c)) = L
       /\ \A i \in 1 .. L : Items(c)[i] = node[c[i]].data
  BY <1>1, ItemsTyped
<1>11. Items(c) # <<>>
  BY <1>3, <1>10, EmptySeq
<1>12. Head(Items(c)) = node[c[1]].data
  BY <1>4, <1>10, <1>11
<1>13. [i \in 1 .. Len(d) |-> node'[d[i]].data] = Tail(Items(c))
  <2>1. /\ Len(d) = L - 1
        /\ \A i \in 1 .. L - 1 : d[i] = c[i + 1]
    BY <1>1, <1>2, <1>3, DroppingFirst
  <2>2. /\ Tail(Items(c)) \in Seq(Threads)
        /\ Len(Tail(Items(c))) = L - 1
        /\ \A i \in 1 .. L - 1 : Tail(Items(c))[i] = Items(c)[i + 1]
    BY <1>10, <1>11, HeadTailProperties
  <2> DEFINE z == Tail(Items(c))
  <2>3. z = [i \in 1 .. L - 1 |-> z[i]]
    <3>1. z \in [1 .. L - 1 -> Threads]
      BY <2>2, LenProperties
    <3> HIDE DEF z
    <3>2. QED
      BY <3>1
  <2>4. ASSUME NEW i \in 1 .. L - 1 PROVE node'[d[i]].data = z[i]
    <3>1. i + 1 \in 1 .. L
      <4>1. L \in Nat
        BY <1>1
      <4> HIDE DEF L
      <4>2. QED
        BY <4>1
    <3>2. QED
      BY <3>1, <2>1, <2>2, <1>3, <1>10
  <2> HIDE DEF z
  <2>5. [i \in 1 .. Len(d) |-> node'[d[i]].data] = z
    BY <2>1, <2>3, <2>4
  <2>6. QED
    BY <2>5 DEF z
<1>14. queue' = [items |-> Tail(Items(c)), stray |-> FALSE]
  BY <1>9, <1>13
<1>15. QED
  BY <1>3, <1>8, <1>11, <1>12, <1>14
     DEF Abstract!TakeFirst, Abstract!q_dequeue, Abstract!q_is_empty,
         Abstract!WithItems

\* The scan of the nodes and the choice of ThreadQueue agree on the place.
LEMMA SamePlace ==
    ASSUME NEW c \in Seq(Nodes), Len(c) # 0, Chain(c), NodesTyped
    PROVE  Abstract!FirstLeast(Items(c), quantums_elapsed) = ShortestOf(c)
<1> DEFINE L == Len(c)
           key(i) == quantums_elapsed[Items(c)[i]]
           P(i) == /\ i \in 1 .. L
                   /\ \A j \in 1 .. L : key(i) <= key(j)
                   /\ \A j \in 1 .. i - 1 : key(i) < key(j)
<1>1. L \in Nat
  BY LenProperties
<1>2. Len(Items(c)) = L
      /\ \A j \in 1 .. L : key(j) = Keys(c)[j] /\ Keys(c)[j] \in Nat
  BY ItemsTyped, KeysTyped DEF Quantums
<1>3. IsFirstLeast(Keys(c), L, ShortestOf(c))
  BY ShortestIs
<1> HIDE DEF key, L
<1>4. \A i : P(i) <=> IsFirstLeast(Keys(c), L, i)
  <2>1. SUFFICES ASSUME NEW i PROVE P(i) <=> IsFirstLeast(Keys(c), L, i)
    OBVIOUS
  <2>2. CASE i \in 1 .. L
    <3>1. \A j \in 1 .. i - 1 : j \in 1 .. L
      BY <2>2, <1>1
    <3>2. QED
      BY <2>2, <3>1, <1>2 DEF IsFirstLeast
  <2>3. CASE i \notin 1 .. L
    BY <2>3 DEF IsFirstLeast
  <2>4. QED
    BY <2>2, <2>3
<1>5. Abstract!FirstLeast(Items(c), quantums_elapsed)
        = CHOOSE i \in 1 .. L : /\ \A j \in 1 .. L : key(i) <= key(j)
                                /\ \A j \in 1 .. i - 1 : key(i) < key(j)
  BY <1>2 DEF Abstract!FirstLeast, key
<1> DEFINE p == CHOOSE i \in 1 .. L : /\ \A j \in 1 .. L : key(i) <= key(j)
                                      /\ \A j \in 1 .. i - 1 : key(i) < key(j)
<1>6. P(p)
  <2>1. \E i \in 1 .. L : /\ \A j \in 1 .. L : key(i) <= key(j)
                          /\ \A j \in 1 .. i - 1 : key(i) < key(j)
    BY <1>3, <1>4
  <2>2. QED
    BY <2>1, Zenon
<1> HIDE DEF p, P
<1>7. IsFirstLeast(Keys(c), L, p)
  BY <1>4, <1>6
<1>8. p = ShortestOf(c)
  BY <1>1, <1>2, <1>3, <1>7, FirstLeastUnique
<1>9. QED
  BY <1>5, <1>8 DEF p

\* q_dequeue_shortest_runtime takes the first of the items that were charged
\* the fewest quantums, and leaves the tail astray when that was the last one.
LEMMA ShortestRefined ==
    ASSUME NodesInv, q_dequeue_shortest_runtime
    PROVE  Abstract!TakeShortest
<1>0. PICK c : c = List
  OBVIOUS
<1>i. PICK i : i = ShortestOf(c)
  OBVIOUS
<1> DEFINE L == Len(c)
<1>1. /\ NodesTyped /\ c \in Seq(Nodes) /\ Chain(c) /\ L \in Nat /\ Shape(c)
  BY <1>0, TheList
<1>2. PICK d : d = Dropping(c, i)
  OBVIOUS
<1>3. /\ NodesInv' /\ L # 0 /\ List' = d /\ out' = node[c[i]].data
      /\ IsFirstLeast(Keys(c), L, i)
      /\ \A n \in Allocated : node'[n].data = node[n].data
      /\ tail' = tail /\ quantums_elapsed' = quantums_elapsed
  BY <1>0, <1>i, <1>2, ShortestStep
<1>4. i \in 1 .. L
  BY <1>3 DEF IsFirstLeast
<1>5. i = Abstract!FirstLeast(Items(c), quantums_elapsed)
  BY <1>1, <1>3, <1>i, SamePlace
<1>6. /\ Items(c) \in Seq(Threads) /\ Len(Items(c)) = L
      /\ \A j \in 1 .. L : Items(c)[j] = node[c[j]].data
  BY <1>1, ItemsTyped
<1>7. Items(c) # <<>>
  BY <1>3, <1>6, EmptySeq
<1>8. /\ d \in Seq(Nodes) /\ Len(d) = L - 1
      /\ Members(d) = Members(c) \ {c[i]}
  BY <1>1, <1>2, <1>3, <1>4, DroppingIs, DroppingMembers DEF Chain
<1> DEFINE w == Abstract!WithoutIndex(Items(c), i)
<1>9. [j \in 1 .. Len(d) |-> node'[d[j]].data] = w
  BY <1>1, <1>2, <1>3, <1>4, ItemsDropped
<1>10. w = <<>> <=> Len(d) = 0
  <2>1. DOMAIN w = 1 .. L - 1
    BY <1>6 DEF Abstract!WithoutIndex
  <2>2. L - 1 \in Nat
    <3> HIDE DEF L
    <3>1. QED
      BY <1>1, <1>3
  <2>3. CASE L - 1 = 0
    <3>1. w = [j \in 1 .. 0 |-> node'[d[j]].data] /\ 1 .. 0 = {}
      BY <2>3, <1>8, <1>9
    <3>2. QED
      BY <3>1, <2>3, <1>8
  <2>4. CASE L - 1 # 0
    <3>1. 1 \in 1 .. L - 1
      BY <2>2, <2>4
    <3>2. QED
      BY <3>1, <2>1, <2>4, <1>8
  <2>5. QED
    BY <2>3, <2>4
<1>11. Len(d) # 0 => (tail \notin Members(d) <=> Stray(c) \/ i = L)
  <2>1. /\ \A j \in 1 .. L - 1 : c[j] # tail
        /\ \A j, k \in 1 .. L : c[j] = c[k] => j = k
    BY <1>1, <1>3 DEF Shape, Strays, Chain, q_dequeue_shortest_runtime
  <2>2. L \in 1 .. L /\ \A j \in 1 .. L : j = L \/ j \in 1 .. L - 1
    <3>1. L \in Nat /\ L # 0
      BY <1>1, <1>3
    <3> HIDE DEF L
    <3>2. QED
      BY <3>1
  <2>3. tail \in Members(c) => tail = c[L]
    BY <2>1, <2>2 DEF Members
  <2>4. c[L] = c[i] <=> i = L
    BY <2>1, <2>2, <1>4
  <2>5. CASE tail \in Members(c)
    BY <2>3, <2>4, <2>5, <1>8 DEF Stray
  <2>6. CASE tail \notin Members(c)
    BY <2>6, <1>3, <1>8 DEF Stray
  <2>7. QED
    BY <2>5, <2>6
<1>12. queue = [items |-> Items(c), stray |-> Stray(c)]
  BY <1>0, QueueIs
<1>13. queue' = [items |-> w, stray |-> Len(d) # 0 /\ tail \notin Members(d)]
  BY <1>3, <1>9, QueueIsNext DEF Items, Stray, Members
<1>14. (Len(d) # 0 /\ tail \notin Members(d))
         = ((Stray(c) \/ i = L) /\ w # <<>>)
  <2> HIDE DEF w
  <2>1. QED
    BY <1>10, <1>11
<1>15. queue.items = Items(c) /\ queue.stray = Stray(c)
  BY <1>0, QueueIs
<1>16. queue' = [items |-> w, stray |-> (Stray(c) \/ i = L) /\ w # <<>>]
  BY <1>13, <1>14
<1>17. Items(c)[i] = node[c[i]].data
  BY <1>4, <1>6
<1> HIDE DEF w
<1> DEFINE taken == Abstract!q_dequeue_shortest_runtime(queue, quantums_elapsed)
<1>18. taken.thread = Items(c)[i]
  BY <1>5, <1>15 DEF Abstract!q_dequeue_shortest_runtime
<1>19. taken.queue = [items |-> w, stray |-> (Stray(c) \/ i = L) /\ w # <<>>]
  BY <1>5, <1>6, <1>15 DEF Abstract!q_dequeue_shortest_runtime,
                           Abstract!WithItems, w
<1> HIDE DEF taken
<1>20. QED
  BY <1>3, <1>7, <1>15, <1>16, <1>17, <1>18, <1>19
     DEF Abstract!TakeShortest, Abstract!q_is_empty, taken

\* Freeing a node changes nothing that the queue shows.
LEMMA FreeRefined ==
    ASSUME NodesInv, NEW n \in DOMAIN unlinked, q_dequeue_free(n)
    PROVE  UNCHANGED <<queue, quantums_elapsed, out>>
<1>0. PICK c : c = List
  OBVIOUS
<1>1. /\ c \in Seq(Nodes) /\ Chain(c)
  BY <1>0, TheList
<1>2. /\ NodesInv' /\ List' = c /\ n \notin Members(c)
      /\ \A m \in Allocated \ {n} : node'[m] = node[m]
      /\ UNCHANGED <<head, tail, quantums_elapsed, out>>
  BY <1>0, FreeStep
<1>3. \A i \in 1 .. Len(c) : node'[c[i]] = node[c[i]]
  BY <1>1, <1>2 DEF Chain, Members
<1>4. queue = [items |-> Items(c), stray |-> Stray(c)]
  BY <1>0, QueueIs
<1>5. queue' = [items |-> [i \in 1 .. Len(c) |-> node'[c[i]].data],
                stray |-> Len(c) # 0 /\ tail \notin Members(c)]
  BY <1>2, QueueIsNext DEF Items, Stray, Members
<1>6. [i \in 1 .. Len(c) |-> node'[c[i]].data] = Items(c)
  BY <1>3 DEF Items
<1>7. QED
  BY <1>2, <1>4, <1>5, <1>6 DEF Stray

\* Nor does charging a thread, which the abstract queue's clients do as well.
LEMMA ChargeRefined ==
    ASSUME NodesInv, NEW t \in Threads, Charge(t)
    PROVE  Abstract!Charge(t)
<1>0. PICK c : c = List
  OBVIOUS
<1>1. NodesInv' /\ List' = c
  BY <1>0, ChargeStep
<1>2. UNCHANGED <<node, tail, out>>
  BY DEF Charge
<1>3. queue = [items |-> Items(c), stray |-> Stray(c)]
  BY <1>0, QueueIs
<1>4. queue' = [items |-> Items(c), stray |-> Stray(c)]
  BY <1>1, <1>2, QueueIsNext DEF Items, Stray, Members
<1>5. QED
  BY <1>2, <1>3, <1>4 DEF Charge, Abstract!Charge

\* Nodes and pointers behave like the sequence with a stray bit of ThreadQueue,
\* which ThreadWorker uses for its run queues and lists of blocked threads: also
\* after the tail was left behind, after nodes were used again, and with a
\* thread queued twice.
THEOREM NodesImplementQueue == Spec => ImplementsRunQueue
<1>1. Init => Abstract!Init
  BY InitRefined
<1>2. NodesInv /\ [Next]_vars
        => [Abstract!Next]_<<queue, quantums_elapsed, out>>
  <2>1. SUFFICES ASSUME NodesInv, [Next]_vars
                 PROVE  \/ Abstract!Next
                        \/ UNCHANGED <<queue, quantums_elapsed, out>>
    OBVIOUS
  <2>2. ASSUME NEW t \in Threads, q_enqueue(t) PROVE Abstract!Next
    BY <2>1, <2>2, EnqueueRefined DEF Abstract!Next
  <2>3. ASSUME NEW t \in Threads, Charge(t) PROVE Abstract!Next
    BY <2>1, <2>3, ChargeRefined DEF Abstract!Next
  <2>4. CASE q_dequeue
    BY <2>1, <2>4, DequeueRefined DEF Abstract!Next
  <2>5. ASSUME NEW n \in DOMAIN unlinked, q_dequeue_free(n)
        PROVE  UNCHANGED <<queue, quantums_elapsed, out>>
    BY <2>1, <2>5, FreeRefined
  <2>6. CASE q_dequeue_shortest_runtime
    BY <2>1, <2>6, ShortestRefined DEF Abstract!Next
  <2>7. CASE UNCHANGED vars
    <3>1. PICK c : c = List
      OBVIOUS
    <3>2. NodesInv'
      BY <2>1, NextNodesInv
    <3>3. /\ c \in Seq(Nodes) /\ Chain(c) /\ NodesTyped
      BY <3>1, <2>1, TheList
    <3>4. Chain(c)' /\ Allocated' \subseteq Nodes
      BY <3>3, <2>7 DEF vars, Chain, NodesTyped, Allocated
    <3>5. List' = c
      BY <3>3, <3>4, ListIsNext
    <3>6. queue = [items |-> Items(c), stray |-> Stray(c)]
      BY <3>1, <2>1, QueueIs
    <3>7. queue' = [items |-> Items(c), stray |-> Stray(c)]
      BY <3>2, <3>5, <2>7, QueueIsNext DEF vars, Items, Stray, Members
    <3>8. QED
      BY <3>6, <3>7, <2>7 DEF vars
  <2>8. QED
    BY <2>1, <2>2, <2>3, <2>4, <2>5, <2>6, <2>7 DEF Next
<1>3. QED
  BY <1>1, <1>2, NodesInvariant, PTL
     DEF Spec, ImplementsRunQueue, Abstract!Spec
=============================================================================
