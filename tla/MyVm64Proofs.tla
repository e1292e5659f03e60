---------------------------- MODULE MyVm64Proofs ----------------------------
(***************************************************************************)
(* The tree of tables of my_vm64.c, for every number of levels, entries of *)
(* a table, pages and frames, and clients that call anything: it is a tree *)
(* in which no table is lost, and with it my_vm64.c implements my_vm.c.    *)
(* What is proved about my_vm.c is then true of my_vm64.c.                 *)
(***************************************************************************)
EXTENDS MyVm64, SequenceTheorems, WellFoundedInduction, TLAPS

-----------------------------------------------------------------------------
(***************************************************************************)
(* Induction                                                               *)
(***************************************************************************)

\* A nonempty set of natural numbers has a least element.
LEMMA LeastNatural ==
    ASSUME NEW S \in SUBSET Nat, S # {}
    PROVE  \E n \in S : \A m \in S : n <= m
<1> DEFINE R == {ss \in Nat \X Nat : ss[1] < ss[2]}
<1>1. IsWellFoundedOn(R, Nat)
  BY NatLessThanWellFounded, Zenon DEF OpToRel
<1>2. \A x, y \in Nat : <<x, y>> \in R <=> x < y
  OBVIOUS
<1> HIDE DEF R
<1>3. PICK n \in S : \A m \in S : ~(<<m, n>> \in R)
  BY <1>1, WFMin
<1>4. ASSUME NEW m \in S PROVE n <= m
  <2>1. n \in Nat /\ m \in Nat /\ ~(m < n)
    BY <1>2, <1>3
  <2>2. QED
    BY <2>1
<1>5. QED
  BY <1>4

\* A set of numbers that has 0 and the successors of its members has all.
LEMMA Induction ==
    ASSUME NEW n \in Nat, NEW S, 0 \in S,
           \A i \in 0 .. n : i \in S /\ i + 1 <= n => i + 1 \in S
    PROVE  0 .. n \subseteq S
<1> DEFINE D == {i \in 0 .. n : i \notin S}
<1>1. SUFFICES ASSUME D # {} PROVE FALSE
  OBVIOUS
<1>2. PICK i \in D : \A m \in D : i <= m
  <2>1. D \in SUBSET Nat
    OBVIOUS
  <2>2. QED
    BY <1>1, <2>1, LeastNatural
<1>3. i \in 0 .. n /\ i \notin S /\ i # 0
  BY <1>2
<1>4. i - 1 \in 0 .. n /\ ~(i <= i - 1) /\ (i - 1) + 1 = i
  BY <1>3
<1>5. i - 1 \in S
  BY <1>2, <1>4
<1>6. QED
  BY <1>3, <1>4, <1>5

-----------------------------------------------------------------------------
(***************************************************************************)
(* The parts of a page number                                              *)
(***************************************************************************)

LEMMA Constants64 ==
    /\ NUM_LEVELS \in Nat /\ NUM_LEVELS >= 2
    /\ LastLevel \in Nat /\ LastLevel >= 1 /\ LastLevel + 1 = NUM_LEVELS
    /\ Levels = 0 .. LastLevel
    /\ TableSize \in Nat \ {0}
    /\ num_virtual_pages \in Nat \ {0} /\ num_virtual_pages <= Power[LastLevel]
    /\ NULL = 0 /\ pgdir = 1
  BY ConstantsAssumption64 DEF VM!ConstantsAssumption, Levels, LastLevel,
                               NULL, pgdir

\* Power is the function its equation describes.
LEMMA PowerIs ==
    /\ Power[0] = 1
    /\ \A l \in 0 .. LastLevel : Power[l + 1] = TableSize * Power[l]
<1> DEFINE Step(f, l) == IF l = 0 THEN 1 ELSE TableSize * f[l - 1]
           Q(f, n) == f = [l \in 0 .. n |-> Step(f, l)]
           S == {n \in 0 .. NUM_LEVELS : \E f : Q(f, n)}
<1>1. Power = CHOOSE f : Q(f, NUM_LEVELS)
  BY DEF Power
<1>2. 0 \in S
  <2>1. Q([l \in 0 .. 0 |-> 1], 0)
    OBVIOUS
  <2>2. 0 \in 0 .. NUM_LEVELS
    BY Constants64
  <2> HIDE DEF Q
  <2>3. QED
    BY <2>1, <2>2
<1>3. ASSUME NEW n \in 0 .. NUM_LEVELS, n \in S, n + 1 <= NUM_LEVELS
      PROVE  n + 1 \in S
  <2>1. PICK f : Q(f, n)
    BY <1>3
  <2>n. n \in Nat
    BY Constants64
  <2> DEFINE g == [l \in 0 .. (n + 1) |-> Step(f, l)]
  <2>2. \A l \in 0 .. n : g[l] = f[l]
    BY <2>1, <2>n
  <2>3. \A l \in 0 .. (n + 1) : Step(g, l) = Step(f, l)
    <3>1. \A l \in 0 .. (n + 1) : l # 0 => l - 1 \in 0 .. n
      BY <2>n
    <3> HIDE DEF g
    <3>2. QED
      BY <2>2, <3>1
  <2>4. Q(g, n + 1)
    BY <2>3
  <2>5. n + 1 \in 0 .. NUM_LEVELS
    BY <2>n, <1>3, Constants64
  <2> HIDE DEF Q, g
  <2>6. QED
    BY <2>4, <2>5
<1>4. NUM_LEVELS \in S
  <2> HIDE DEF S
  <2>1. 0 .. NUM_LEVELS \subseteq S
    BY <1>2, <1>3, Induction, Constants64
  <2>2. QED
    BY <2>1, Constants64
<1>5. Q(Power, NUM_LEVELS)
  <2>1. \E f : Q(f, NUM_LEVELS)
    BY <1>4
  <2> HIDE DEF Q
  <2>2. QED
    BY <1>1, <2>1, Zenon
<1>6. \A l \in 0 .. NUM_LEVELS : Power[l] = Step(Power, l)
  BY <1>5
<1>7. ASSUME NEW l \in 0 .. LastLevel
      PROVE  Power[l + 1] = TableSize * Power[l]
  <2>1. l + 1 \in 0 .. NUM_LEVELS /\ l + 1 # 0 /\ (l + 1) - 1 = l
    BY Constants64
  <2>2. QED
    BY <2>1, <1>6
<1>8. QED
  BY <1>6, <1>7, Constants64

LEMMA PowerType == \A l \in 0 .. NUM_LEVELS : Power[l] \in Nat \ {0}
<1> DEFINE S == {l \in 0 .. NUM_LEVELS : Power[l] \in Nat \ {0}}
<1>1. 0 \in S
  BY PowerIs, Constants64
<1>2. ASSUME NEW l \in 0 .. NUM_LEVELS, l \in S, l + 1 <= NUM_LEVELS
      PROVE  l + 1 \in S
  <2>1. l \in 0 .. LastLevel /\ l + 1 \in 0 .. NUM_LEVELS
    BY <1>2, Constants64
  <2>2. Power[l + 1] = TableSize * Power[l] /\ Power[l] \in Nat \ {0}
    BY <1>2, <2>1, PowerIs
  <2>3. \A a, b \in Nat \ {0} : a * b \in Nat \ {0}
    BY Z3T(30)
  <2>4. QED
    BY <2>1, <2>2, <2>3, Constants64
<1>3. 0 .. NUM_LEVELS \subseteq S
  <2> HIDE DEF S
  <2>1. QED
    BY <1>1, <1>2, Induction, Constants64
<1>4. QED
  BY <1>3

\* Division with remainder.
LEMMA Divides ==
    ASSUME NEW v \in Nat, NEW a \in Nat \ {0}
    PROVE  /\ v \div a \in Nat /\ v % a \in 0 .. (a - 1)
           /\ v = (v \div a) * a + (v % a)
  BY Z3T(30)

\* To divide by a product is to divide by its factors.
LEMMA DivideTwice ==
    ASSUME NEW v \in Nat, NEW a \in Nat \ {0}, NEW b \in Nat \ {0}
    PROVE  v \div (a * b) = (v \div b) \div a
<1> DEFINE q == v \div b
           r == v % b
           s == q \div a
           t == q % a
<1>1. q \in Nat /\ r \in 0 .. (b - 1) /\ v = q * b + r
  BY Z3T(30)
<1>2. s \in Nat /\ t \in 0 .. (a - 1) /\ q = s * a + t
  BY <1>1, Z3T(30)
<1> HIDE DEF q, r, s, t
<1>3. v = s * (a * b) + (t * b + r)
  BY <1>1, <1>2, Z3T(30)
<1>4. t * b + r \in 0 .. (a * b - 1)
  <2>1. t * b >= 0 /\ (a - 1 - t) * b >= 0
    BY <1>2, Z3T(30)
  <2>2. t * b <= a * b - b
    BY <2>1, <1>2, Z3T(30)
  <2>3. t * b \in Nat /\ a * b \in Nat
    BY <1>2, Z3T(30)
  <2>4. QED
    BY <2>1, <2>2, <2>3, <1>1
<1>5. \A m \in Nat \ {0}, x \in Nat :
         \A y \in 0 .. (m - 1) : (x * m + y) \div m = x
  BY Z3T(30)
<1>6. a * b \in Nat \ {0}
  BY Z3T(30)
<1>7. v \div (a * b) = s
  <2> DEFINE m == a * b
             y == t * b + r
  <2>1. m \in Nat \ {0} /\ y \in 0 .. (m - 1) /\ v = s * m + y
    BY <1>3, <1>4, <1>6
  <2> HIDE DEF m, y
  <2>2. v \div m = s
    BY <2>1, <1>2, <1>5
  <2>3. QED
    BY <2>2 DEF m
<1>8. QED
  BY <1>7 DEF q, s

\* What is left of a page number from a level on is the index at that level
\* and what is left from the next.
LEMMA IndexFacts ==
    ASSUME NEW v \in VPages, NEW l \in 0 .. LastLevel
    PROVE  /\ IndexAt(v, l) \in Indices
           /\ v \div Power[l] =
                (v \div Power[l + 1]) * TableSize + IndexAt(v, l)
<1>1. v \in Nat /\ Power[l] \in Nat \ {0} /\ TableSize \in Nat \ {0}
  BY PowerType, Constants64 DEF VPages
<1>2. v \div Power[l + 1] = (v \div Power[l]) \div TableSize
  BY <1>1, DivideTwice, PowerIs
<1>3. v \div Power[l] \in Nat
  BY <1>1, Z3T(30)
<1> DEFINE x == v \div Power[l]
<1>4. x % TableSize \in 0 .. (TableSize - 1)
      /\ x = (x \div TableSize) * TableSize + (x % TableSize)
  <2> HIDE DEF x
  <2>1. x \in Nat
    BY <1>3 DEF x
  <2>2. QED
    BY <1>1, <2>1, Divides
<1> HIDE DEF x
<1>5. IndexAt(v, l) = x % TableSize /\ v \div Power[l + 1] = x \div TableSize
  BY <1>2 DEF IndexAt, x
<1>6. QED
  BY <1>4, <1>5, Zenon DEF Indices, x

\* Pages v and w take the same way down to level l.
SameWay(v, w, l) == \A k \in 0 .. (l - 1) : IndexAt(v, k) = IndexAt(w, k)

\* No two pages take the same way to the last level: the levels above it
\* tell all pages apart.
LEMMA WayTellsPage ==
    ASSUME NEW v \in VPages, NEW w \in VPages, SameWay(v, w, LastLevel)
    PROVE  v = w
<1> DEFINE S == {i \in 0 .. LastLevel :
                   v \div Power[LastLevel - i] = w \div Power[LastLevel - i]}
<1>1. 0 \in S
  <2>1. \A x \in VPages : x \div Power[LastLevel] = 0
    <3>1. Power[LastLevel] \in Nat \ {0}
      BY PowerType, Constants64
    <3>2. \A m \in Nat \ {0} : \A x \in 0 .. (m - 1) : x \div m = 0
      BY Z3T(30)
    <3>3. VPages \subseteq 0 .. (Power[LastLevel] - 1)
      BY <3>1, Constants64 DEF VPages
    <3>4. QED
      BY <3>1, <3>2, <3>3
  <2>2. QED
    BY <2>1, Constants64
<1>2. ASSUME NEW i \in 0 .. LastLevel, i \in S, i + 1 <= LastLevel
      PROVE  i + 1 \in S
  <2> DEFINE k == LastLevel - (i + 1)
  <2>1. k \in 0 .. (LastLevel - 1) /\ k \in 0 .. LastLevel
        /\ k + 1 = LastLevel - i /\ i + 1 \in 0 .. LastLevel
    BY <1>2, Constants64
  <2>2. IndexAt(v, k) = IndexAt(w, k)
    BY <2>1 DEF SameWay
  <2>3. v \div Power[k + 1] = w \div Power[k + 1]
    BY <1>2, <2>1
  <2>4. v \div Power[k] = w \div Power[k]
    BY <2>1, <2>2, <2>3, IndexFacts
  <2>5. QED
    BY <2>1, <2>4
<1>3. LastLevel \in S
  <2> HIDE DEF S
  <2>1. 0 .. LastLevel \subseteq S
    BY <1>1, <1>2, Induction, Constants64
  <2>2. QED
    BY <2>1, Constants64
<1>4. v \div Power[0] = w \div Power[0]
  <2>1. LastLevel - LastLevel = 0
    BY Constants64
  <2>2. QED
    BY <1>3, <2>1
<1>5. \A x \in Nat : x \div 1 = x
  BY Z3T(30)
<1>6. v \in Nat /\ w \in Nat
  BY Constants64 DEF VPages
<1>7. QED
  BY <1>4, <1>5, <1>6, PowerIs

-----------------------------------------------------------------------------
(***************************************************************************)
(* The walk                                                                *)
(***************************************************************************)

\* Walk is the function its equation describes.
LEMMA WalkIs ==
    \A v : /\ Walk(v)[0] = IF node = <<>> THEN NULL ELSE pgdir
           /\ \A l \in 0 .. (LastLevel - 1) :
                 Walk(v)[l + 1] = Child(Walk(v)[l], v, l)
<1> SUFFICES ASSUME NEW v
             PROVE  /\ Walk(v)[0] = IF node = <<>> THEN NULL ELSE pgdir
                    /\ \A l \in 0 .. (LastLevel - 1) :
                          Walk(v)[l + 1] = Child(Walk(v)[l], v, l)
  OBVIOUS
<1> DEFINE Step(f, l) == IF l > 0 THEN Child(f[l - 1], v, l - 1)
                         ELSE IF node = <<>> THEN NULL ELSE pgdir
           Q(f, n) == f = [l \in 0 .. n |-> Step(f, l)]
           S == {n \in 0 .. LastLevel : \E f : Q(f, n)}
<1>1. Walk(v) = CHOOSE f : Q(f, LastLevel)
  BY Constants64 DEF Walk
<1>2. 0 \in S
  <2>1. Q([l \in 0 .. 0 |-> IF node = <<>> THEN NULL ELSE pgdir], 0)
    OBVIOUS
  <2>2. 0 \in 0 .. LastLevel
    BY Constants64
  <2> HIDE DEF Q
  <2>3. QED
    BY <2>1, <2>2
<1>3. ASSUME NEW n \in 0 .. LastLevel, n \in S, n + 1 <= LastLevel
      PROVE  n + 1 \in S
  <2>1. PICK f : Q(f, n)
    BY <1>3
  <2>n. n \in Nat
    BY Constants64
  <2> DEFINE g == [l \in 0 .. (n + 1) |-> Step(f, l)]
  <2>2. \A l \in 0 .. n : g[l] = f[l]
    BY <2>1, <2>n
  <2>3. \A l \in 0 .. (n + 1) : Step(g, l) = Step(f, l)
    <3>1. \A l \in 0 .. (n + 1) : l > 0 => l - 1 \in 0 .. n
      BY <2>n
    <3> HIDE DEF g
    <3>2. QED
      BY <2>2, <3>1
  <2>4. Q(g, n + 1)
    BY <2>3
  <2>5. n + 1 \in 0 .. LastLevel
    BY <2>n, <1>3, Constants64
  <2> HIDE DEF Q, g
  <2>6. QED
    BY <2>4, <2>5
<1>4. LastLevel \in S
  <2> HIDE DEF S
  <2>1. 0 .. LastLevel \subseteq S
    BY <1>2, <1>3, Induction, Constants64
  <2>2. QED
    BY <2>1, Constants64
<1>5. Q(Walk(v), LastLevel)
  <2>1. \E f : Q(f, LastLevel)
    BY <1>4
  <2> HIDE DEF Q
  <2>2. QED
    BY <1>1, <2>1, Zenon
<1> HIDE DEF Q
<1>6. \A l \in 0 .. LastLevel : Walk(v)[l] = Step(Walk(v), l)
  BY <1>5 DEF Q
<1>7. ASSUME NEW l \in 0 .. (LastLevel - 1)
      PROVE  Walk(v)[l + 1] = Child(Walk(v)[l], v, l)
  <2>1. l + 1 \in 0 .. LastLevel /\ l + 1 > 0 /\ (l + 1) - 1 = l
    BY Constants64
  <2>2. QED
    BY <2>1, <1>6
<1>8. 0 \in 0 .. LastLevel /\ ~(0 > 0)
  BY Constants64
<1>9. QED
  BY <1>6, <1>7, <1>8

\* Pages that take the same way meet the same tables.
LEMMA SameWayWalk ==
    ASSUME NEW v, NEW w, NEW l \in Levels, SameWay(v, w, l)
    PROVE  Walk(v)[l] = Walk(w)[l]
<1> DEFINE S == {i \in 0 .. l : Walk(v)[i] = Walk(w)[i]}
<1>0. l \in Nat /\ l <= LastLevel
  BY Constants64
<1>1. 0 \in S
  BY <1>0, WalkIs
<1>2. ASSUME NEW i \in 0 .. l, i \in S, i + 1 <= l
      PROVE  i + 1 \in S
  <2>1. i \in 0 .. (LastLevel - 1) /\ i \in 0 .. (l - 1) /\ i + 1 \in 0 .. l
    BY <1>0, <1>2, Constants64
  <2>2. IndexAt(v, i) = IndexAt(w, i)
    BY <2>1 DEF SameWay
  <2>3. Child(Walk(v)[i], v, i) = Child(Walk(w)[i], w, i)
    BY <2>2, <1>2 DEF Child
  <2>4. QED
    BY <2>1, <2>3, WalkIs
<1>3. 0 .. l \subseteq S
  <2> HIDE DEF S
  <2>1. QED
    BY <1>0, <1>1, <1>2, Induction
<1>4. QED
  BY <1>0, <1>3

\* Below a table that is missing there is none.
LEMMA MissingBelow ==
    ASSUME NEW v, NEW l \in Levels, Walk(v)[l] = NULL,
           NEW m \in Levels, l <= m
    PROVE  Walk(v)[m] = NULL
<1> DEFINE S == {i \in 0 .. (m - l) : Walk(v)[l + i] = NULL}
<1>0. l \in Nat /\ m \in Nat /\ m <= LastLevel /\ m - l \in Nat
  BY Constants64
<1>1. 0 \in S
  BY <1>0
<1>2. ASSUME NEW i \in 0 .. (m - l), i \in S, i + 1 <= m - l
      PROVE  i + 1 \in S
  <2>1. l + i \in 0 .. (LastLevel - 1) /\ l + (i + 1) = (l + i) + 1
        /\ i + 1 \in 0 .. (m - l)
    BY <1>0, <1>2, Constants64
  <2>2. Walk(v)[(l + i) + 1] = NULL
    BY <2>1, <1>2, WalkIs DEF Child
  <2>3. QED
    BY <2>1, <2>2
<1>3. 0 .. (m - l) \subseteq S
  <2> HIDE DEF S
  <2>1. QED
    BY <1>0, <1>1, <1>2, Induction
<1>4. m - l \in S /\ l + (m - l) = m
  BY <1>0, <1>3
<1>5. QED
  BY <1>4

\* The last table that a walk finds.
LEMMA ReachedIs ==
    ASSUME node # <<>>, NEW v
    PROVE  /\ Reached(v) \in Levels
           /\ \A l \in Levels : Walk(v)[l] # NULL <=> l <= Reached(v)
<1> DEFINE D == {i \in 0 .. LastLevel : Walk(v)[LastLevel - i] # NULL}
           IsLast(l) == /\ Walk(v)[l] # NULL
                        /\ \A k \in Levels : k > l => Walk(v)[k] = NULL
<1>1. D # {}
  <2>1. Walk(v)[0] # NULL
    BY WalkIs, Constants64
  <2>2. LastLevel \in 0 .. LastLevel /\ LastLevel - LastLevel = 0
    BY Constants64
  <2>3. QED
    BY <2>1, <2>2
<1>2. PICK i \in D : \A j \in D : i <= j
  <2>1. D \in SUBSET Nat
    BY Constants64
  <2>2. QED
    BY <1>1, <2>1, LeastNatural
<1>3. \E l \in Levels : IsLast(l)
  <2>1. LastLevel - i \in Levels
    BY Constants64
  <2>2. ASSUME NEW k \in Levels, k > LastLevel - i, Walk(v)[k] # NULL
        PROVE  FALSE
    <3>1. LastLevel - k \in 0 .. LastLevel /\ LastLevel - (LastLevel - k) = k
          /\ ~(i <= LastLevel - k)
      BY <2>2, Constants64
    <3>2. LastLevel - k \in D
      BY <3>1, <2>2
    <3>3. QED
      BY <3>1, <3>2, <1>2
  <2>3. QED
    BY <1>2, <2>1, <2>2
<1>4. Reached(v) \in Levels /\ IsLast(Reached(v))
  <2>1. Reached(v) = CHOOSE l \in Levels : IsLast(l)
    BY DEF Reached
  <2> HIDE DEF IsLast
  <2>2. QED
    BY <1>3, <2>1
<1>5. ASSUME NEW l \in Levels, l <= Reached(v), Walk(v)[l] = NULL
      PROVE  FALSE
  BY <1>4, <1>5, MissingBelow
<1>6. ASSUME NEW l \in Levels, ~(l <= Reached(v))
      PROVE  Walk(v)[l] = NULL
  <2>1. l > Reached(v)
    BY <1>4, <1>6, Constants64
  <2>2. QED
    BY <1>4, <2>1
<1>7. QED
  BY <1>4, <1>5, <1>6

\* The walk after a step.
LEMMA WalkIsNext ==
    \A v : /\ Walk(v)'[0] = IF node' = <<>> THEN NULL ELSE pgdir
           /\ \A l \in 0 .. (LastLevel - 1) :
                 Walk(v)'[l + 1] = IF Walk(v)'[l] = NULL THEN NULL
                                   ELSE node'[Walk(v)'[l]][IndexAt(v, l)]
<1>1. \A v : /\ Walk(v)[0] = IF node = <<>> THEN NULL ELSE pgdir
             /\ \A l \in 0 .. (LastLevel - 1) :
                   Walk(v)[l + 1] = IF Walk(v)[l] = NULL THEN NULL
                                    ELSE node[Walk(v)[l]][IndexAt(v, l)]
  BY WalkIs DEF Child
<1>2. (\A v : /\ Walk(v)[0] = IF node = <<>> THEN NULL ELSE pgdir
              /\ \A l \in 0 .. (LastLevel - 1) :
                    Walk(v)[l + 1] = IF Walk(v)[l] = NULL THEN NULL
                                     ELSE node[Walk(v)[l]][IndexAt(v, l)])'
  BY <1>1, PTL
<1>3. QED
  BY <1>2

LEMMA SameWayNext ==
    ASSUME NEW v, NEW w, NEW l \in Nat
    PROVE  SameWay(v, w, l + 1) <=> /\ SameWay(v, w, l)
                                    /\ IndexAt(v, l) = IndexAt(w, l)
<1>1. \A k : k \in 0 .. ((l + 1) - 1) <=> k \in 0 .. (l - 1) \/ k = l
  OBVIOUS
<1>2. QED
  BY <1>1 DEF SameWay

-----------------------------------------------------------------------------
(***************************************************************************)
(* The tree                                                                *)
(***************************************************************************)

TreeTyped ==
    /\ node \in Seq([Indices -> Nat])
    /\ \A v \in VPages, l \in Levels : Walk(v)[l] \in 0 .. Len(node)

\* A table is met at one level, by pages that take the same way to it.
TreeApart ==
    \A v, w \in VPages, l, m \in Levels :
        Walk(v)[l] = Walk(w)[m] /\ Walk(v)[l] # NULL
            => l = m /\ SameWay(v, w, l)

\* Every table is met.
TreeCovered ==
    \A n \in DOMAIN node : \E v \in VPages, l \in Levels : Walk(v)[l] = n

Tree == TreeTyped /\ TreeApart /\ TreeCovered

\* The tables on the way to v from level top on, when those below are new.
Way(v, top, l) == IF l = top THEN Walk(v)[top] ELSE Len(node) + (l - top)

\* What a step leaves in the entry for v at level l: the next table, or a
\* frame.
Target(v, top, p, l) == IF l = LastLevel THEN p ELSE Way(v, top, l + 1)

\* The step adds the tables that are missing on the way to v and stores p in
\* the entry of v.
Stores(v, top, p) ==
    /\ node' \in Seq([Indices -> Nat])
    /\ Len(node') = Len(node) + (LastLevel - top)
    /\ \A n \in 1 .. Len(node), i \in Indices :
          node'[n][i] = IF n = Walk(v)[top] /\ i = IndexAt(v, top)
                          THEN Target(v, top, p, top) ELSE node[n][i]
    /\ \A l \in (top + 1) .. LastLevel, i \in Indices :
          node'[Len(node) + (l - top)][i] =
              IF i = IndexAt(v, l) THEN Target(v, top, p, l) ELSE NULL

\* Where the step leads walks that came to a missing table before.
LEMMA WalkStored ==
    ASSUME Tree, NEW v \in VPages, NEW top \in Levels, NEW p,
           \A l \in Levels : Walk(v)[l] # NULL <=> l <= top,
           Stores(v, top, p),
           NEW w \in VPages
    PROVE  \A l \in Levels :
              Walk(w)'[l] = IF l > top /\ SameWay(v, w, l)
                              THEN Len(node) + (l - top) ELSE Walk(w)[l]
<1> DEFINE New(l) == IF l > top /\ SameWay(v, w, l)
                       THEN Len(node) + (l - top) ELSE Walk(w)[l]
           S == {l \in 0 .. LastLevel : Walk(w)'[l] = New(l)}
<1>0. /\ top \in Nat /\ top <= LastLevel /\ 0 \in Levels
      /\ Len(node) \in Nat /\ node # <<>> /\ node' # <<>>
  <2>1. top \in Nat /\ top <= LastLevel /\ 0 \in Levels
    BY Constants64
  <2>2. Len(node) \in Nat /\ Len(node') \in Nat
    BY DEF Tree, TreeTyped, Stores
  <2>3. node # <<>>
    BY <2>1, WalkIs
  <2>4. Len(node) > 0
    BY <2>2, <2>3, EmptySeq DEF Tree, TreeTyped
  <2>5. Len(node') > 0
    BY <2>1, <2>2, <2>4, Constants64 DEF Stores
  <2>6. node' # <<>>
    BY <2>5
  <2>7. QED
    BY <2>1, <2>2, <2>3, <2>6
<1>1. 0 \in S
  <2>1. Walk(w)'[0] = Walk(w)[0] /\ ~(0 > top)
    BY <1>0, WalkIs, WalkIsNext
  <2>2. QED
    BY <2>1, Constants64
<1>2. ASSUME NEW l \in 0 .. LastLevel, l \in S, l + 1 <= LastLevel
      PROVE  l + 1 \in S
  <2>1. /\ l \in Nat /\ l \in Levels /\ l + 1 \in Levels
        /\ l \in 0 .. (LastLevel - 1) /\ l # LastLevel
    BY <1>2, Constants64
  <2> SUFFICES Walk(w)'[l + 1] = New(l + 1)
    BY <2>1, Constants64
  <2>2. /\ Walk(w)[l + 1] = IF Walk(w)[l] = NULL THEN NULL
                            ELSE node[Walk(w)[l]][IndexAt(w, l)]
        /\ Walk(w)'[l + 1] = IF Walk(w)'[l] = NULL THEN NULL
                             ELSE node'[Walk(w)'[l]][IndexAt(w, l)]
    BY <2>1, WalkIs, WalkIsNext DEF Child
  <2>3. Walk(w)'[l] = New(l)
    BY <1>2
  <2>4. SameWay(v, w, l + 1)
           <=> SameWay(v, w, l) /\ IndexAt(v, l) = IndexAt(w, l)
    BY <2>1, SameWayNext
  <2>5. IndexAt(w, l) \in Indices
    BY IndexFacts
  <2>6. Walk(w)[l] \in 0 .. Len(node)
    BY <2>1 DEF Tree, TreeTyped
  <2>7. CASE l > top /\ SameWay(v, w, l)
    <3>1. Walk(w)'[l] = Len(node) + (l - top) /\ Walk(w)'[l] # NULL
      BY <1>0, <2>1, <2>3, <2>7, Constants64
    <3>2. l \in (top + 1) .. LastLevel
      BY <1>0, <2>1, <2>7
    <3>3. Walk(w)'[l + 1] = IF IndexAt(w, l) = IndexAt(v, l)
                              THEN Target(v, top, p, l) ELSE NULL
      BY <2>2, <2>5, <3>1, <3>2 DEF Stores
    <3>4. Target(v, top, p, l) = Len(node) + ((l + 1) - top)
      BY <1>0, <2>1, <2>7 DEF Target, Way
    <3>5. Walk(w)[l + 1] = NULL
      <4>1. Walk(w)[l] = Walk(v)[l]
        BY <2>1, <2>7, SameWayWalk
      <4>2. Walk(v)[l] = NULL
        BY <1>0, <2>1, <2>7
      <4>3. QED
        BY <2>2, <4>1, <4>2
    <3>6. l + 1 > top
      BY <1>0, <2>1, <2>7
    <3>7. QED
      BY <2>1, <2>4, <2>7, <3>3, <3>4, <3>5, <3>6
  <2>8. CASE l = top /\ SameWay(v, w, l)
    <3>1. Walk(w)'[l] = Walk(w)[l] /\ Walk(w)[l] = Walk(v)[top]
      BY <1>0, <2>1, <2>3, <2>8, SameWayWalk
    <3>2. Walk(w)[l] # NULL /\ Walk(w)[l] \in 1 .. Len(node)
      BY <1>0, <2>1, <2>6, <2>8, <3>1, Constants64
    <3>3. Walk(w)'[l + 1] = IF IndexAt(w, l) = IndexAt(v, l)
                              THEN Target(v, top, p, l) ELSE Walk(w)[l + 1]
      BY <2>2, <2>5, <2>8, <3>1, <3>2 DEF Stores
    <3>4. Target(v, top, p, l) = Len(node) + ((l + 1) - top)
      BY <1>0, <2>1, <2>8 DEF Target, Way
    <3>5. l + 1 > top
      BY <1>0, <2>1, <2>8
    <3>6. QED
      BY <2>1, <2>4, <2>8, <3>3, <3>4, <3>5
  <2>9. CASE l < top \/ ~SameWay(v, w, l)
    <3>1. Walk(w)'[l] = Walk(w)[l]
      BY <1>0, <2>1, <2>3, <2>9
    <3>2. ~(l + 1 > top /\ SameWay(v, w, l + 1))
      BY <1>0, <2>1, <2>4, <2>9
    <3>3. CASE Walk(w)[l] = NULL
      BY <2>1, <2>2, <3>1, <3>2, <3>3
    <3>4. CASE Walk(w)[l] # NULL
      <4>1. Walk(w)[l] # Walk(v)[top]
        <5>1. SUFFICES ASSUME Walk(w)[l] = Walk(v)[top] PROVE FALSE
          OBVIOUS
        <5>2. top = l /\ SameWay(v, w, top)
          BY <1>0, <2>1, <3>4, <5>1 DEF Tree, TreeApart
        <5>3. QED
          BY <1>0, <2>1, <2>9, <5>2
      <4>2. Walk(w)[l] \in 1 .. Len(node)
        BY <2>6, <3>4, Constants64
      <4>3. node'[Walk(w)[l]][IndexAt(w, l)] = node[Walk(w)[l]][IndexAt(w, l)]
        BY <2>5, <4>1, <4>2 DEF Stores
      <4>4. Walk(w)'[l + 1] = Walk(w)[l + 1]
        BY <2>2, <3>1, <4>3
      <4>5. QED
        BY <2>1, <3>2, <4>4
    <3>5. QED
      BY <3>3, <3>4
  <2>10. l > top \/ l = top \/ l < top
    BY <1>0, <2>1
  <2>11. QED
    BY <2>7, <2>8, <2>9, <2>10
<1>3. 0 .. LastLevel \subseteq S
  <2> HIDE DEF S
  <2>1. QED
    BY <1>1, <1>2, Induction, Constants64
<1>4. QED
  BY <1>3, Constants64

\* The tree stays one, and only the entry of v changes.
LEMMA TreeStored ==
    ASSUME Tree, NEW v \in VPages, NEW top \in Levels, NEW p \in Nat,
           \A l \in Levels : Walk(v)[l] # NULL <=> l <= top,
           Stores(v, top, p)
    PROVE  /\ Tree'
           /\ \A w \in VPages :
                 /\ HasTable(w)' <=> HasTable(w) \/ w = v
                 /\ Entry(w)' = IF w = v THEN p ELSE Entry(w)
<1>0. /\ top \in Nat /\ top <= LastLevel
      /\ LastLevel \in Levels /\ Len(node) \in Nat
      /\ Len(node') = Len(node) + (LastLevel - top)
      /\ \A l \in Levels : l \in Nat /\ l <= LastLevel
  BY Constants64 DEF Tree, TreeTyped, Stores
<1>1. \A w \in VPages, l \in Levels :
         Walk(w)'[l] = IF l > top /\ SameWay(v, w, l)
                         THEN Len(node) + (l - top) ELSE Walk(w)[l]
  BY WalkStored
<1>2. \A w \in VPages, l \in Levels : Walk(w)[l] \in 0 .. Len(node)
  BY DEF Tree, TreeTyped
<1>3. \A w \in VPages, l \in Levels :
         l > top /\ SameWay(v, w, l) => Walk(w)[l] = NULL
  BY <1>0, SameWayWalk
<1>4. TreeTyped'
  <2>1. ASSUME NEW w \in VPages, NEW l \in Levels
        PROVE  Walk(w)'[l] \in 0 .. Len(node')
    <3>1. CASE l > top /\ SameWay(v, w, l)
      BY <1>0, <1>1, <3>1
    <3>2. CASE ~(l > top /\ SameWay(v, w, l))
      BY <1>0, <1>1, <1>2, <3>2
    <3>3. QED
      BY <3>1, <3>2
  <2>2. QED
    BY <2>1 DEF TreeTyped, Stores
<1>5. TreeApart'
  <2>1. SUFFICES ASSUME NEW w \in VPages, NEW u \in VPages,
                        NEW l \in Levels, NEW m \in Levels,
                        Walk(w)'[l] = Walk(u)'[m], Walk(w)'[l] # NULL
                 PROVE  l = m /\ SameWay(w, u, l)
    BY DEF TreeApart, SameWay, IndexAt
  <2> DEFINE NewW == l > top /\ SameWay(v, w, l)
             NewU == m > top /\ SameWay(v, u, m)
  <2>2. CASE NewW /\ NewU
    <3>1. l = m
      BY <1>0, <1>1, <2>1, <2>2
    <3>2. QED
      BY <3>1, <2>2 DEF SameWay
  <2>3. CASE NewW /\ ~NewU
    <3>1. Walk(w)'[l] > Len(node) /\ Walk(u)'[m] <= Len(node)
      BY <1>0, <1>1, <1>2, <2>3
    <3>2. QED
      BY <1>0, <1>1, <1>2, <2>1, <2>3, <3>1
  <2>4. CASE ~NewW /\ NewU
    <3>1. Walk(w)'[l] <= Len(node) /\ Walk(u)'[m] > Len(node)
      BY <1>0, <1>1, <1>2, <2>4
    <3>2. QED
      BY <1>0, <1>1, <1>2, <2>1, <2>4, <3>1
  <2>5. CASE ~NewW /\ ~NewU
    BY <1>1, <2>1, <2>5 DEF Tree, TreeApart
  <2>6. QED
    BY <2>2, <2>3, <2>4, <2>5
<1>6. TreeCovered'
  <2>1. DOMAIN node' = 1 .. Len(node') /\ DOMAIN node = 1 .. Len(node)
    BY DEF Tree, TreeTyped, Stores
  <2>2. ASSUME NEW n \in 1 .. Len(node)
        PROVE  \E w \in VPages, l \in Levels : Walk(w)'[l] = n
    <3>1. PICK w \in VPages, l \in Levels : Walk(w)[l] = n
      BY <2>1 DEF Tree, TreeCovered
    <3>2. Walk(w)'[l] = n
      BY <1>0, <1>1, <1>3, <3>1, Constants64
    <3>3. QED
      BY <3>2
  <2>3. ASSUME NEW n \in (Len(node) + 1) .. Len(node')
        PROVE  \E w \in VPages, l \in Levels : Walk(w)'[l] = n
    <3> DEFINE l == top + (n - Len(node))
    <3>1. l \in Levels /\ l > top /\ Len(node) + (l - top) = n
      BY <1>0, Constants64
    <3>2. SameWay(v, v, l)
      BY DEF SameWay
    <3> HIDE DEF l
    <3>3. Walk(v)'[l] = n
      BY <1>1, <3>1, <3>2
    <3>4. QED
      BY <3>1, <3>3
  <2>4. \A n \in 1 .. Len(node') :
           n \in 1 .. Len(node) \/ n \in (Len(node) + 1) .. Len(node')
    BY <1>0
  <2>5. QED
    BY <2>1, <2>2, <2>3, <2>4 DEF TreeCovered
<1>7. ASSUME NEW w \in VPages
      PROVE  /\ HasTable(w)' <=> HasTable(w) \/ w = v
             /\ Entry(w)' = IF w = v THEN p ELSE Entry(w)
  <2> DEFINE L == LastLevel
  <2>1. /\ HasTable(w) <=> Walk(w)[L] # NULL
        /\ HasTable(w)' <=> Walk(w)'[L] # NULL
        /\ Entry(w) = IF Walk(w)[L] # NULL
                        THEN node[Walk(w)[L]][IndexAt(w, L)] ELSE NULL
        /\ Entry(w)' = IF Walk(w)'[L] # NULL
                         THEN node'[Walk(w)'[L]][IndexAt(w, L)] ELSE NULL
    BY DEF HasTable, Entry, LastTable
  <2>2. IndexAt(w, L) \in Indices
    BY <1>0, IndexFacts
  <2>3. w # v => ~SameWay(v, w, L)
    BY WayTellsPage
  <2>4. SameWay(v, v, L)
    BY DEF SameWay
  <2>5. CASE w = v /\ L > top
    <3>1. Walk(w)'[L] = Len(node) + (L - top) /\ Walk(w)'[L] # NULL
      BY <1>0, <1>1, <2>4, <2>5, Constants64
    <3>2. L \in (top + 1) .. L
      BY <1>0, <2>5
    <3>3. Entry(w)' = Target(v, top, p, L)
      BY <2>1, <2>2, <2>5, <3>1, <3>2 DEF Stores
    <3>4. QED
      BY <2>1, <2>5, <3>1, <3>3 DEF Target
  <2>6. CASE w = v /\ L = top
    <3>1. Walk(w)'[L] = Walk(v)[top] /\ Walk(v)[top] # NULL
      BY <1>0, <1>1, <2>6
    <3>2. Walk(v)[top] \in 1 .. Len(node)
      BY <1>2, <3>1, Constants64
    <3>3. Entry(w)' = Target(v, top, p, top)
      BY <2>1, <2>2, <2>6, <3>1, <3>2 DEF Stores
    <3>4. QED
      BY <2>1, <2>6, <3>1, <3>3 DEF Target
  <2>7. CASE w # v
    <3>1. Walk(w)'[L] = Walk(w)[L]
      BY <1>0, <1>1, <2>3, <2>7
    <3>2. CASE Walk(w)[L] = NULL
      BY <2>1, <2>7, <3>1, <3>2
    <3>3. CASE Walk(w)[L] # NULL
      <4>1. ~(Walk(w)[L] = Walk(v)[top] /\ IndexAt(w, L) = IndexAt(v, top))
        <5>1. SUFFICES ASSUME Walk(w)[L] = Walk(v)[top] PROVE FALSE
          OBVIOUS
        <5>2. top = L /\ SameWay(v, w, top)
          BY <1>0, <3>3, <5>1 DEF Tree, TreeApart
        <5>3. QED
          BY <2>3, <2>7, <5>2
      <4>2. Walk(w)[L] \in 1 .. Len(node)
        BY <1>0, <1>2, <3>3, Constants64
      <4>3. node'[Walk(w)[L]][IndexAt(w, L)] = node[Walk(w)[L]][IndexAt(w, L)]
        BY <2>2, <4>1, <4>2 DEF Stores
      <4>4. QED
        BY <2>1, <2>7, <3>1, <4>3
    <3>4. QED
      BY <3>2, <3>3
  <2>8. L > top \/ L = top
    BY <1>0, Constants64
  <2>9. QED
    BY <2>5, <2>6, <2>7, <2>8
<1>8. QED
  BY <1>4, <1>5, <1>6, <1>7 DEF Tree

-----------------------------------------------------------------------------
(***************************************************************************)
(* What map_page and n_free store                                          *)
(***************************************************************************)

\* A page that has a last-level table gets another entry there.
LEMMA EntryStored ==
    ASSUME Tree, NEW v \in VPages, HasTable(v), NEW p \in Nat,
           node' = [node EXCEPT ![LastTable(v)][IndexAt(v, LastLevel)] = p]
    PROVE  /\ Stores(v, LastLevel, p)
           /\ \A l \in Levels : Walk(v)[l] # NULL <=> l <= LastLevel
<1> DEFINE t == LastTable(v)
           i == IndexAt(v, LastLevel)
<1>1. LastLevel \in Levels /\ \A l \in Levels : l <= LastLevel
  BY Constants64
<1>2. t = Walk(v)[LastLevel] /\ t # NULL /\ t \in 1 .. Len(node)
  BY <1>1, Constants64 DEF Tree, TreeTyped, HasTable, LastTable
<1>3. i \in Indices
  BY <1>1, IndexFacts, Constants64
<1>4. node \in Seq([Indices -> Nat]) /\ Len(node) \in Nat
      /\ node \in [1 .. Len(node) -> [Indices -> Nat]]
  BY LenProperties DEF Tree, TreeTyped
<1> HIDE DEF t, i
<1>5. node' = [node EXCEPT ![t] = [node[t] EXCEPT ![i] = p]]
  BY DEF t, i
<1>6. [node[t] EXCEPT ![i] = p] \in [Indices -> Nat]
  BY <1>2, <1>3, <1>4
<1>7. node' \in Seq([Indices -> Nat]) /\ Len(node') = Len(node)
  <2> DEFINE new == [node[t] EXCEPT ![i] = p]
  <2>1. new \in [Indices -> Nat] /\ node' = [node EXCEPT ![t] = new]
    BY <1>5, <1>6
  <2> DEFINE T == [Indices -> Nat]
  <2>2. new \in T /\ node \in Seq(T)
    BY <1>4, <2>1
  <2> HIDE DEF new, T
  <2>3. t \in 1 .. Len(node)
    BY <1>2
  <2>4. /\ [node EXCEPT ![t] = new] \in Seq(T)
        /\ Len([node EXCEPT ![t] = new]) = Len(node)
    BY <2>2, <2>3, ExceptSeq, Zenon
  <2>5. QED
    BY <2>1, <2>4, Zenon DEF T
<1>8. \A n \in 1 .. Len(node), j \in Indices :
         node'[n][j] = IF n = t /\ j = i THEN p ELSE node[n][j]
  BY <1>2, <1>4, <1>5
<1>9. Stores(v, LastLevel, p)
  BY <1>1, <1>2, <1>4, <1>7, <1>8, Constants64 DEF Stores, Target, i
<1>10. ASSUME NEW l \in Levels
       PROVE  Walk(v)[l] # NULL
  BY <1>1, <1>2, <1>10, MissingBelow
<1>11. QED
  BY <1>1, <1>9, <1>10

\* map_page allocates what is missing on the way.
LEMMA MapPageStores ==
    ASSUME Tree, node # <<>>, NEW v \in VPages, NEW p \in Nat,
           node' = map_page(v, p)
    PROVE  /\ Reached(v) \in Levels
           /\ \A l \in Levels : Walk(v)[l] # NULL <=> l <= Reached(v)
           /\ Stores(v, Reached(v), p)
<1> DEFINE top == Reached(v)
<1>1. top \in Levels /\ \A l \in Levels : Walk(v)[l] # NULL <=> l <= top
  BY ReachedIs
<1>2. top \in Nat /\ top <= LastLevel /\ LastLevel \in Levels
  BY <1>1, Constants64
<1>3. CASE top = LastLevel
  <2>1. HasTable(v)
    BY <1>1, <1>2, <1>3 DEF HasTable, LastTable
  <2>2. WithTables(v) = node
    BY <1>2, <1>3 DEF WithTables
  <2>3. node' = [node EXCEPT ![LastTable(v)][IndexAt(v, LastLevel)] = p]
    BY <2>1, <2>2 DEF map_page
  <2>4. QED
    BY <1>1, <1>3, <2>1, <2>3, EntryStored
<1>4. CASE top < LastLevel
  <2> DEFINE n == Len(node)
             missing == LastLevel - top
             t == Walk(v)[top]
             linked == [node EXCEPT ![t][IndexAt(v, top)] = Fresh(1)]
             table(k) == IF k = missing THEN EmptyTable
                         ELSE [EmptyTable EXCEPT
                                 ![IndexAt(v, top + k)] = Fresh(k + 1)]
             added == [k \in 1 .. missing |-> table(k)]
             base == linked \o added
             i == IndexAt(v, LastLevel)
  <2>1. /\ n \in Nat /\ missing \in Nat \ {0}
        /\ node \in [1 .. n -> [Indices -> Nat]]
    BY <1>2, <1>4, LenProperties, Constants64 DEF Tree, TreeTyped
  <2>2. t \in 1 .. n
    BY <1>1, <1>2, Constants64 DEF Tree, TreeTyped
  <2>3. ~HasTable(v)
    <3>1. ~(LastLevel <= top)
      BY <1>2, <1>4, Constants64
    <3>2. Walk(v)[LastLevel] = NULL
      BY <1>1, <1>2, <3>1
    <3>3. QED
      BY <3>2 DEF HasTable, LastTable
  <2>4. WithTables(v) = base
    BY <2>1 DEF WithTables
  <2>5. \A l \in Levels : IndexAt(v, l) \in Indices
    BY IndexFacts, Constants64
  <2>6. \A k \in Nat : Fresh(k) = n + k /\ Fresh(k) \in Nat
    BY <2>1 DEF Fresh
  <2>7. node' = [base EXCEPT ![n + missing][i] = p]
    BY <2>1, <2>3, <2>4, <2>6 DEF map_page
  <2> HIDE DEF base, i, table, added
  <2>8. /\ linked \in Seq([Indices -> Nat]) /\ Len(linked) = n
        /\ linked \in [1 .. n -> [Indices -> Nat]]
    <3>1. linked \in [1 .. n -> [Indices -> Nat]]
      <4>1. [node[t] EXCEPT ![IndexAt(v, top)] = Fresh(1)]
               \in [Indices -> Nat]
        BY <1>1, <2>1, <2>2, <2>5, <2>6
      <4>2. linked = [node EXCEPT
                        ![t] = [node[t] EXCEPT ![IndexAt(v, top)] = Fresh(1)]]
        OBVIOUS
      <4>3. QED
        BY <2>1, <4>1, <4>2
    <3> HIDE DEF linked, n
    <3>2. QED
      BY <2>1, <3>1, IsASeq, LenProperties
  <2>9. \A k \in 1 .. n, j \in Indices :
           linked[k][j] = IF k = t /\ j = IndexAt(v, top) THEN n + 1
                                                          ELSE node[k][j]
    BY <2>1, <2>2, <2>5, <2>6
  <2>10. ASSUME NEW k \in 1 .. missing
         PROVE  /\ table(k) \in [Indices -> Nat]
                /\ \A j \in Indices :
                      table(k)[j] = IF k # missing /\ j = IndexAt(v, top + k)
                                      THEN n + (k + 1) ELSE NULL
    <3>1. EmptyTable \in [Indices -> Nat]
          /\ \A j \in Indices : EmptyTable[j] = NULL
      BY Constants64 DEF EmptyTable
    <3>k. k + 1 \in Nat
      <4> HIDE DEF missing
      <4>1. QED
        BY <2>1
    <3>2. Fresh(k + 1) = n + (k + 1) /\ Fresh(k + 1) \in Nat
      BY <2>6, <3>k
    <3>3. QED
      BY <3>1, <3>2 DEF table
  <2>11. /\ added \in Seq([Indices -> Nat]) /\ Len(added) = missing
         /\ \A k \in 1 .. missing : added[k] = table(k)
    <3>1. added \in [1 .. missing -> [Indices -> Nat]]
      BY <2>10 DEF added
    <3>2. \A k \in 1 .. missing : added[k] = table(k)
      BY DEF added
    <3>3. QED
      BY <2>1, <3>1, <3>2, IsASeq, LenProperties
  <2> HIDE DEF linked, n, missing, t
  <2>12. /\ base \in Seq([Indices -> Nat]) /\ Len(base) = n + missing
         /\ \A k \in 1 .. n : base[k] = linked[k]
         /\ \A k \in 1 .. missing : base[n + k] = table(k)
    <3>1. base \in Seq([Indices -> Nat]) /\ Len(base) = n + missing
      BY <2>8, <2>11, ConcatProperties DEF base
    <3>2. \A k \in 1 .. (n + missing) :
             base[k] = IF k <= n THEN linked[k] ELSE added[k - n]
      BY <2>8, <2>11, ConcatProperties DEF base
    <3>3. ASSUME NEW k \in 1 .. missing PROVE base[n + k] = table(k)
      <4>1. n + k \in 1 .. (n + missing) /\ ~(n + k <= n)
            /\ (n + k) - n = k
        BY <2>1
      <4>2. QED
        BY <2>11, <3>2, <4>1
    <3>4. QED
      BY <2>1, <3>1, <3>2, <3>3
  <2>13. i \in Indices
    BY <1>2, <2>5 DEF i
  <2>14. /\ base \in [1 .. (n + missing) -> [Indices -> Nat]]
         /\ n + missing \in 1 .. (n + missing)
    BY <2>1, <2>12, LenProperties
  <2>15. /\ node' \in Seq([Indices -> Nat]) /\ Len(node') = n + missing
         /\ \A k \in 1 .. (n + missing), j \in Indices :
               node'[k][j] = IF k = n + missing /\ j = i THEN p
                                                         ELSE base[k][j]
    <3> DEFINE m == n + missing
               new == [base[m] EXCEPT ![i] = p]
    <3>1. new \in [Indices -> Nat]
          /\ \A j \in Indices : new[j] = IF j = i THEN p ELSE base[m][j]
      BY <2>13, <2>14
    <3>2. node' = [base EXCEPT ![m] = new]
      BY <2>7
    <3> HIDE DEF m, new
    <3>3. m = n + missing
      BY DEF m
    <3>4. node' \in Seq([Indices -> Nat]) /\ Len(node') = m
      BY <2>12, <2>14, <3>1, <3>2, <3>3, ExceptSeq
    <3>5. \A k \in 1 .. m, j \in Indices :
             node'[k][j] = IF k = m /\ j = i THEN p ELSE base[k][j]
      <4>1. new = [base[m] EXCEPT ![i] = p]
        BY DEF new
      <4>2. QED
        BY <2>14, <3>1, <3>2, <3>3
    <3>6. QED
      BY <3>3, <3>4, <3>5
  <2>16. ASSUME NEW k \in 1 .. n, NEW j \in Indices
         PROVE  node'[k][j] = IF k = t /\ j = IndexAt(v, top)
                                THEN Target(v, top, p, top) ELSE node[k][j]
    <3>1. k \in 1 .. (n + missing) /\ k # n + missing
      BY <2>1
    <3>2. Target(v, top, p, top) = n + 1
      BY <1>2, <1>4 DEF Target, Way, n
    <3>3. node'[k][j] = linked[k][j]
      BY <2>12, <2>15, <3>1
    <3>4. QED
      BY <2>9, <3>2, <3>3
  <2>17. ASSUME NEW l \in (top + 1) .. LastLevel, NEW j \in Indices
         PROVE  node'[n + (l - top)][j] =
                   IF j = IndexAt(v, l) THEN Target(v, top, p, l) ELSE NULL
    <3> DEFINE k == l - top
    <3>1. /\ k \in 1 .. missing /\ n + k \in 1 .. (n + missing)
          /\ top + k = l /\ l \in Nat /\ l # top
          /\ k = missing <=> l = LastLevel
          /\ n + k = n + missing <=> l = LastLevel
      BY <1>2, <1>4, <2>1, Constants64 DEF missing
    <3> HIDE DEF k
    <3>2. base[n + k][j] = IF l # LastLevel /\ j = IndexAt(v, l)
                             THEN n + (k + 1) ELSE NULL
      BY <2>10, <2>12, <3>1
    <3>3. Target(v, top, p, l) = IF l = LastLevel THEN p ELSE n + (k + 1)
      <4>1. (l + 1) - top = k + 1 /\ l + 1 # top
        BY <1>2, <3>1 DEF k
      <4>2. QED
        BY <4>1 DEF Target, Way, n
    <3>4. node'[n + k][j] = IF l = LastLevel /\ j = i THEN p
                                                      ELSE base[n + k][j]
      BY <2>15, <3>1
    <3>5. node'[n + k][j] = IF j = IndexAt(v, l) THEN Target(v, top, p, l)
                                                 ELSE NULL
      BY <3>2, <3>3, <3>4 DEF i
    <3>6. QED
      BY <3>5 DEF k
  <2>18. Stores(v, top, p)
    BY <2>15, <2>16, <2>17 DEF Stores, n, missing, t
  <2>19. QED
    BY <1>1, <2>18
<1>5. QED
  BY <1>2, <1>3, <1>4, Constants64

-----------------------------------------------------------------------------
(***************************************************************************)
(* What the tree is for                                                    *)
(***************************************************************************)

\* A tree is sound: no table is lost, or met in two places.
LEMMA SoundTree == Tree => TreeSound
<1> SUFFICES ASSUME Tree PROVE TreeSound
  OBVIOUS
<1>1. ASSUME NEW w
      PROVE  w \in Ways <=> \E v \in VPages, l \in Levels :
                               Walk(v)[l] # NULL /\ w = WayTo(v, l)
  BY DEF Ways
<1>2. \A v, l : WayTo(v, l)[2] = Walk(v)[l]
  BY DEF WayTo
<1>3. DOMAIN node = 1 .. Len(node) /\ Len(node) \in Nat
  BY DEF Tree, TreeTyped
<1>4. ASSUME NEW n \in DOMAIN node
      PROVE  \E w \in Ways : n = w[2]
  <2>1. PICK v \in VPages, l \in Levels : Walk(v)[l] = n
    BY DEF Tree, TreeCovered
  <2>2. Walk(v)[l] # NULL
    BY <1>3, <2>1, Constants64
  <2>3. WayTo(v, l) \in Ways
    BY <1>1, <2>2
  <2>4. QED
    BY <1>2, <2>1, <2>3
<1>5. ASSUME NEW w \in Ways
      PROVE  w[2] \in DOMAIN node
  <2>1. PICK v \in VPages, l \in Levels : Walk(v)[l] # NULL /\ w = WayTo(v, l)
    BY <1>1
  <2>2. Walk(v)[l] \in 0 .. Len(node)
    BY DEF Tree, TreeTyped
  <2>3. QED
    BY <1>2, <1>3, <2>1, <2>2, Constants64
<1>6. ASSUME NEW w \in Ways, NEW u \in Ways, w[2] = u[2]
      PROVE  w = u
  <2>1. PICK v \in VPages, l \in Levels : Walk(v)[l] # NULL /\ w = WayTo(v, l)
    BY <1>1
  <2>2. PICK x \in VPages, m \in Levels : Walk(x)[m] # NULL /\ u = WayTo(x, m)
    BY <1>1
  <2>3. Walk(v)[l] = Walk(x)[m]
    BY <1>2, <1>6, <2>1, <2>2
  <2>4. l = m /\ SameWay(v, x, l)
    BY <2>1, <2>3 DEF Tree, TreeApart
  <2>5. ASSUME NEW j \in 1 .. l
        PROVE  IndexAt(v, j - 1) = IndexAt(x, j - 1)
    <3>1. j - 1 \in 0 .. (l - 1)
      BY Constants64
    <3>2. QED
      BY <2>4, <3>1 DEF SameWay
  <2>6. WayTo(v, l) = WayTo(x, l)
    BY <2>3, <2>4, <2>5 DEF WayTo
  <2>7. QED
    BY <2>1, <2>2, <2>4, <2>6
<1>7. DOMAIN node = {w[2] : w \in Ways}
  <2> HIDE DEF WayTo, Ways
  <2>1. \A n : n \in DOMAIN node <=> \E w \in Ways : n = w[2]
    BY <1>4, <1>5, Zenon
  <2>2. QED
    BY <2>1, Zenon
<1>8. QED
  BY <1>6, <1>7 DEF TreeSound

\* A tree that is not touched.
LEMMA TreeUndisturbed ==
    ASSUME UNCHANGED node
    PROVE  /\ Tree => Tree'
           /\ \A w : (HasTable(w)' <=> HasTable(w)) /\ Entry(w)' = Entry(w)
<1>1. \A w : Walk(w)' = Walk(w)
  BY DEF Walk, Child
<1>2. \A w : LastTable(w)' = LastTable(w)
  BY <1>1 DEF LastTable
<1>3. \A w : (HasTable(w)' <=> HasTable(w)) /\ Entry(w)' = Entry(w)
  BY <1>2 DEF HasTable, Entry, IndexAt
<1>4. (TreeTyped' <=> TreeTyped) /\ (TreeCovered' <=> TreeCovered)
  BY <1>1 DEF TreeTyped, TreeCovered
<1>5. TreeApart' <=> TreeApart
  BY <1>1 DEF TreeApart, SameWay, IndexAt
<1>6. QED
  BY <1>3, <1>4, <1>5 DEF Tree

\* No page has a table before there is a page directory.
LEMMA NoDirectory ==
    ASSUME node = <<>>
    PROVE  \A w : ~HasTable(w) /\ Entry(w) = NULL
<1>1. ASSUME NEW w PROVE Walk(w)[LastLevel] = NULL
  <2>1. Walk(w)[0] = NULL /\ 0 \in Levels /\ LastLevel \in Levels
        /\ 0 <= LastLevel
    BY WalkIs, Constants64
  <2>2. QED
    BY <2>1, MissingBelow
<1>2. QED
  BY <1>1 DEF HasTable, LastTable, Entry

LEMMA MissingBelowNext ==
    \A v, l, m : l \in Levels /\ m \in Levels /\ l <= m /\ Walk(v)'[l] = NULL
                    => Walk(v)'[m] = NULL
<1>1. \A v, l, m : l \in Levels /\ m \in Levels /\ l <= m /\ Walk(v)[l] = NULL
                      => Walk(v)[m] = NULL
  BY MissingBelow
<1>2. (\A v, l, m :
          l \in Levels /\ m \in Levels /\ l <= m /\ Walk(v)[l] = NULL
             => Walk(v)[m] = NULL)'
  BY <1>1, PTL
<1>3. QED
  BY <1>2 DEF Levels, NULL

\* The page directory alone is a tree in which no page has a table.
LEMMA DirectoryAlone ==
    ASSUME node = <<>>, node' = FirstTables
    PROVE  /\ Tree'
           /\ \A w \in VPages :
                 /\ ~HasTable(w) /\ ~HasTable(w)'
                 /\ Entry(w) = NULL /\ Entry(w)' = NULL
<1>1. /\ node' = <<EmptyTable>> /\ Len(node') = 1 /\ node'[1] = EmptyTable
      /\ node' # <<>> /\ DOMAIN node' = {1}
  BY DEF FirstTables
<1>2. EmptyTable \in [Indices -> Nat] /\ \A i \in Indices : EmptyTable[i] = NULL
  BY Constants64 DEF EmptyTable
<1>3. node' \in Seq([Indices -> Nat])
  <2> DEFINE T == [Indices -> Nat]
             e == EmptyTable
  <2>1. e \in T /\ node' = <<e>>
    BY <1>1, <1>2
  <2> HIDE DEF T, e
  <2>2. node' \in Seq(T)
    BY <2>1
  <2>3. QED
    BY <2>2 DEF T
<1>4. \A w, l, m : l \in Levels /\ m \in Levels /\ l <= m
                       /\ Walk(w)'[l] = NULL => Walk(w)'[m] = NULL
  BY MissingBelowNext
<1>5. ASSUME NEW w \in VPages, NEW l \in Levels
      PROVE  Walk(w)'[l] = IF l = 0 THEN 1 ELSE NULL
  <2>1. Walk(w)'[0] = 1
    BY <1>1, WalkIsNext, Constants64
  <2>2. 0 \in 0 .. (LastLevel - 1) /\ 0 + 1 = 1 /\ 0 \in 0 .. LastLevel
        /\ 1 \in Levels
    BY Constants64
  <2>3. Walk(w)'[1] = NULL
    <3>1. Walk(w)'[1] = node'[1][IndexAt(w, 0)]
      BY <2>1, <2>2, WalkIsNext, Constants64
    <3>2. IndexAt(w, 0) \in Indices
      BY <2>2, IndexFacts
    <3>3. node'[1][IndexAt(w, 0)] = NULL
      BY <1>1, <1>2, <3>2
    <3>4. QED
      BY <3>1, <3>3
  <2>4. l # 0 => 1 <= l
    BY Constants64
  <2>5. QED
    BY <1>4, <2>1, <2>2, <2>3, <2>4
<1>6. TreeTyped'
  BY <1>1, <1>3, <1>5, Constants64 DEF TreeTyped
<1>7. TreeApart'
  <2>1. SUFFICES ASSUME NEW w \in VPages, NEW u \in VPages,
                        NEW l \in Levels, NEW m \in Levels,
                        Walk(w)'[l] = Walk(u)'[m], Walk(w)'[l] # NULL
                 PROVE  l = m /\ SameWay(w, u, l)
    BY DEF TreeApart, SameWay, IndexAt
  <2>2. l = 0 /\ m = 0
    BY <1>5, <2>1
  <2>3. QED
    BY <2>2 DEF SameWay
<1>8. TreeCovered'
  <2>1. 0 \in VPages /\ 0 \in Levels
    BY Constants64 DEF VPages
  <2>2. Walk(0)'[0] = 1
    BY <1>5, <2>1
  <2>3. QED
    BY <1>1, <2>1, <2>2 DEF TreeCovered
<1>9. ASSUME NEW w \in VPages
      PROVE  ~HasTable(w)' /\ Entry(w)' = NULL
  <2>1. LastLevel \in Levels /\ LastLevel # 0
    BY Constants64
  <2>2. Walk(w)'[LastLevel] = NULL
    BY <1>5, <2>1
  <2>3. QED
    BY <2>2 DEF HasTable, LastTable, Entry
<1>10. QED
  BY <1>6, <1>7, <1>8, <1>9, NoDirectory DEF Tree

-----------------------------------------------------------------------------
(***************************************************************************)
(* The proofs about my_vm.c, of the flat table that the tree stands for    *)
(***************************************************************************)

Flat == INSTANCE MyVmRefinementProofs WITH
          PTE_PER_TABLE <- 1,
          tables     <- {v \in VPages : HasTable(v)},
          page_table <- [v \in VPages |-> Entry(v)],
          fault      <- IF fault = "wild_bitmap" THEN "none" ELSE fault

\* VM, the flat specification, and Flat, the one with its proofs, are the same.
LEMMA SameSpecification ==
    /\ VM!Init <=> Flat!Init
    /\ VM!Next <=> Flat!Next
    /\ VM!TypeOK <=> Flat!TypeOK
    /\ UNCHANGED VM!vars <=> UNCHANGED Flat!vars
  BY DEF VM!Init, VM!Next, VM!TypeOK, VM!VPages, VM!PPages,
        VM!Offsets, VM!PhysBytes, VM!tableVars, VM!vars, VM!Cell,
        VM!TlbType, VM!Alloc, VM!NoCall, VM!NoRet, VM!Ops, VM!CallType,
        VM!RetType, VM!Moved, VM!set_bit_at_index, VM!clear_bit_at_index,
        VM!PageCount, VM!page_dir_index, VM!Wrap, VM!TlbIndex, VM!TlbHit,
        VM!TLB_check, VM!TLB_add, VM!TLB_remove, VM!Cached, VM!Walked,
        VM!translate, VM!TlbAfterTranslate, VM!Idle, VM!InAllocation,
        VM!Access, VM!MayFree, VM!Tracked, VM!Pages, VM!set_physical_mem,
        VM!FreeRuns, VM!LeastOf, VM!get_next_avail_virtual, VM!FreeFrames,
        VM!get_next_avail_physical, VM!MallocReturns, VM!MallocBegin,
        VM!map_page, VM!MallocPage, VM!MallocEnd, VM!FreeBegin, VM!FreePage,
        VM!FreeEnd, VM!DataReturns, VM!Refused, VM!PutBegin, VM!Chunk,
        VM!PutPage, VM!PutEnd, VM!GetBegin, VM!GetPage, VM!GetEnd,
        Flat!Init, Flat!Next, Flat!TypeOK, Flat!VPages,
        Flat!PPages, Flat!Offsets, Flat!PhysBytes, Flat!tableVars,
        Flat!vars, Flat!Cell, Flat!TlbType, Flat!Alloc, Flat!NoCall,
        Flat!NoRet, Flat!Ops, Flat!CallType, Flat!RetType, Flat!Moved,
        Flat!set_bit_at_index, Flat!clear_bit_at_index, Flat!PageCount,
        Flat!page_dir_index, Flat!Wrap, Flat!TlbIndex, Flat!TlbHit,
        Flat!TLB_check, Flat!TLB_add, Flat!TLB_remove, Flat!Cached,
        Flat!Walked, Flat!translate, Flat!TlbAfterTranslate, Flat!Idle,
        Flat!InAllocation, Flat!Access, Flat!MayFree, Flat!Tracked,
        Flat!Pages, Flat!set_physical_mem, Flat!FreeRuns, Flat!LeastOf,
        Flat!get_next_avail_virtual, Flat!FreeFrames,
        Flat!get_next_avail_physical, Flat!MallocReturns, Flat!MallocBegin,
        Flat!map_page, Flat!MallocPage, Flat!MallocEnd, Flat!FreeBegin,
        Flat!FreePage, Flat!FreeEnd, Flat!DataReturns, Flat!Refused,
        Flat!PutBegin, Flat!Chunk, Flat!PutPage, Flat!PutEnd, Flat!GetBegin,
        Flat!GetPage, Flat!GetEnd

\* Their behaviours are the same, too.
LEMMA SameBehaviours == VM!Spec <=> Flat!Spec
  BY DEF VM!Spec, VM!Init, VM!Next, VM!TypeOK, VM!VPages, VM!PPages,
        VM!Offsets, VM!PhysBytes, VM!tableVars, VM!vars, VM!Cell,
        VM!TlbType, VM!Alloc, VM!NoCall, VM!NoRet, VM!Ops, VM!CallType,
        VM!RetType, VM!Moved, VM!set_bit_at_index, VM!clear_bit_at_index,
        VM!PageCount, VM!page_dir_index, VM!Wrap, VM!TlbIndex, VM!TlbHit,
        VM!TLB_check, VM!TLB_add, VM!TLB_remove, VM!Cached, VM!Walked,
        VM!translate, VM!TlbAfterTranslate, VM!Idle, VM!InAllocation,
        VM!Access, VM!MayFree, VM!Tracked, VM!Pages, VM!set_physical_mem,
        VM!FreeRuns, VM!LeastOf, VM!get_next_avail_virtual, VM!FreeFrames,
        VM!get_next_avail_physical, VM!MallocReturns, VM!MallocBegin,
        VM!map_page, VM!MallocPage, VM!MallocEnd, VM!FreeBegin, VM!FreePage,
        VM!FreeEnd, VM!DataReturns, VM!Refused, VM!PutBegin, VM!Chunk,
        VM!PutPage, VM!PutEnd, VM!GetBegin, VM!GetPage, VM!GetEnd,
        Flat!Spec, Flat!Init, Flat!Next, Flat!TypeOK, Flat!VPages,
        Flat!PPages, Flat!Offsets, Flat!PhysBytes, Flat!tableVars,
        Flat!vars, Flat!Cell, Flat!TlbType, Flat!Alloc, Flat!NoCall,
        Flat!NoRet, Flat!Ops, Flat!CallType, Flat!RetType, Flat!Moved,
        Flat!set_bit_at_index, Flat!clear_bit_at_index, Flat!PageCount,
        Flat!page_dir_index, Flat!Wrap, Flat!TlbIndex, Flat!TlbHit,
        Flat!TLB_check, Flat!TLB_add, Flat!TLB_remove, Flat!Cached,
        Flat!Walked, Flat!translate, Flat!TlbAfterTranslate, Flat!Idle,
        Flat!InAllocation, Flat!Access, Flat!MayFree, Flat!Tracked,
        Flat!Pages, Flat!set_physical_mem, Flat!FreeRuns, Flat!LeastOf,
        Flat!get_next_avail_virtual, Flat!FreeFrames,
        Flat!get_next_avail_physical, Flat!MallocReturns, Flat!MallocBegin,
        Flat!map_page, Flat!MallocPage, Flat!MallocEnd, Flat!FreeBegin,
        Flat!FreePage, Flat!FreeEnd, Flat!DataReturns, Flat!Refused,
        Flat!PutBegin, Flat!Chunk, Flat!PutPage, Flat!PutEnd, Flat!GetBegin,
        Flat!GetPage, Flat!GetEnd

LEMMA SameSpecificationNext == VM!TypeOK' <=> Flat!TypeOK'
<1>1. VM!TypeOK <=> Flat!TypeOK
  BY SameSpecification
<1>2. (VM!TypeOK <=> Flat!TypeOK)'
  BY <1>1, PTL
<1>3. QED
  BY <1>2

-----------------------------------------------------------------------------
(***************************************************************************)
(* The invariant                                                           *)
(***************************************************************************)

\* The tree is one, the tables agree as those of my_vm.c do, and a call that
\* maps pages has a page directory.
Inv64 ==
    /\ VM!TypeOK
    /\ Flat!TablesAgree
    /\ Tree
    /\ inited <=> node # <<>>
    /\ call.op = "malloc" => inited
    /\ fault \in {"none", "null_deref", "wild_memcpy", "wild_bitmap"}

\* A step of the flat specification, or none of its own, that keeps the tree.
Simulates ==
    /\ VM!Next \/ UNCHANGED VM!vars
    /\ Tree'
    /\ inited' <=> node' # <<>>
    /\ call'.op = "malloc" => inited'
    /\ fault' \in {"none", "null_deref", "wild_memcpy", "wild_bitmap"}

\* What the flat page table says of a page.
LEMMA FlatPages ==
    ASSUME Inv64, NEW v \in VPages
    PROVE  /\ VM!page_dir_index(v) = v
           /\ VM!VPages = VPages /\ v \in VM!VPages
           /\ VM!TLB_check(v) # 0 => HasTable(v)
<1>1. \A x \in Nat : x \div 1 = x
  BY Z3T(30)
<1>2. v \in Nat /\ VPages \subseteq Nat
  BY Constants64 DEF VPages
<1>3. VM!VPages = VPages
  BY DEF VM!VPages, VPages
<1>4. ASSUME VM!TLB_check(v) # 0 PROVE HasTable(v)
  <2> DEFINE e == tlb[v % TLB_ENTRIES]
  <2>1. e.valid /\ e.virtual_page = v /\ e.physical_page # 0
    BY <1>4 DEF VM!TLB_check, VM!TlbHit, VM!TlbIndex
  <2>2. v % TLB_ENTRIES \in 0 .. (TLB_ENTRIES - 1)
    BY <1>2, ConstantsAssumption64 DEF VM!ConstantsAssumption
  <2>3. DOMAIN tlb = 0 .. (TLB_ENTRIES - 1)
    BY DEF Inv64, VM!TypeOK
  <2>4. e.physical_page = [w \in VPages |-> Entry(w)][e.virtual_page]
    BY <2>1, <2>2, <2>3 DEF Inv64, Flat!TablesAgree, Flat!TlbCoherent
  <2>5. Entry(v) # 0
    BY <2>1, <2>4
  <2>6. QED
    BY <2>5, Constants64 DEF Entry
<1>5. QED
  BY <1>1, <1>2, <1>3, <1>4 DEF VM!page_dir_index

\* A step that takes the flat step as its own and leaves the tree alone.
LEMMA Undisturbed ==
    ASSUME Inv64, UNCHANGED node, inited' = inited, VM!Next,
           call'.op = "malloc" => call.op = "malloc" \/ inited',
           fault' \in {"none", "null_deref", "wild_memcpy", "wild_bitmap"}
    PROVE  Simulates
  BY TreeUndisturbed DEF Inv64, Simulates

LEMMA PagesForAre == \A n : PagesFor(n) \subseteq VM!VPages
  BY DEF PagesFor, VM!VPages, VPages

LEMMA MallocBegin64 ==
    ASSUME Inv64, NEW n \in Sizes, MallocBegin(n)
    PROVE  Simulates
<1>1. VM!Next
  BY DEF MallocBegin, VM!Next
<1>2. inited' = TRUE /\ fault' = fault
  BY DEF MallocBegin, VM!MallocBegin, VM!set_physical_mem
<1>3. CASE inited
  <2>1. node' = node
    BY <1>3 DEF MallocBegin
  <2>2. QED
    BY <1>1, <1>2, <1>3, <2>1, TreeUndisturbed DEF Inv64, Simulates
<1>4. CASE ~inited
  <2>1. node = <<>> /\ node' = FirstTables
    BY <1>4 DEF Inv64, MallocBegin
  <2>2. Tree'
    BY <2>1, DirectoryAlone
  <2>3. node' # <<>>
    BY <2>1 DEF FirstTables
  <2>4. QED
    BY <1>1, <1>2, <2>2, <2>3 DEF Inv64, Simulates
<1>5. inited \in BOOLEAN
  BY DEF Inv64, VM!TypeOK
<1>6. QED
  BY <1>3, <1>4, <1>5

\* A call maps a page that is in the address space and not mapped.
LEMMA PageToMap ==
    ASSUME Inv64, call.op = "malloc", call.left > 0
    PROVE  call.page \in VPages /\ Entry(call.page) = NULL /\ node # <<>>
<1>1. call.page \in Nat /\ call.left \in Nat
  BY DEF Inv64, VM!TypeOK, VM!CallType
<1>2. call.page \in call.page .. (call.page + call.left - 1)
  BY <1>1
<1>3. /\ call.page \in Flat!VPages
      /\ [w \in VPages |-> Entry(w)][call.page] = 0
  BY <1>2 DEF Inv64, Flat!TablesAgree, Flat!PagesToMapAreFree
<1>4. Flat!VPages = VPages
  BY DEF Flat!VPages, VPages
<1>5. QED
  BY <1>3, <1>4, Constants64 DEF Inv64

LEMMA MallocFails64 ==
    ASSUME Inv64, MallocFails
    PROVE  Simulates
<1>1. call.page \in VPages /\ Entry(call.page) = NULL
  BY PageToMap DEF MallocFails
<1>2. VM!get_next_avail_physical = 0
  BY <1>1 DEF MallocFails
<1>3. \A w : (HasTable(w)' <=> HasTable(w)) /\ Entry(w)' = Entry(w)
  BY TreeUndisturbed DEF MallocFails
<1>4. VM!MallocPage
  BY <1>2, <1>3 DEF MallocFails, VM!MallocPage
<1>5. call'.op = "none"
  BY DEF MallocFails, VM!MallocReturns, VM!NoCall
<1>6. QED
  BY <1>4, <1>5, Undisturbed DEF MallocFails, VM!Next, Inv64

LEMMA MallocPage64 ==
    ASSUME Inv64, MallocPage
    PROVE  Simulates
<1> DEFINE v == call.page
           p == VM!get_next_avail_physical
<1>1. v \in VPages /\ Entry(v) = NULL /\ node # <<>>
  BY PageToMap DEF MallocPage
<1>2. p \in Nat
  <2>1. Flat!TypeOK
    BY SameSpecification DEF Inv64
  <2>2. Flat!get_next_avail_physical \in Flat!PPages
    BY <2>1, Flat!LookupTypes, ConstantsAssumption64 DEF VM!ConstantsAssumption
  <2>3. Flat!PPages \subseteq Nat
    BY ConstantsAssumption64 DEF VM!ConstantsAssumption, Flat!PPages
  <2>4. Flat!get_next_avail_physical = p
    BY DEF Flat!get_next_avail_physical, VM!get_next_avail_physical,
           Flat!FreeFrames, VM!FreeFrames, Flat!LeastOf, VM!LeastOf,
           Flat!PPages, VM!PPages
  <2>5. QED
    BY <2>2, <2>3, <2>4
<1>3. node' = map_page(v, p)
  BY DEF MallocPage
<1> HIDE DEF p
<1>4. /\ Reached(v) \in Levels
      /\ \A l \in Levels : Walk(v)[l] # NULL <=> l <= Reached(v)
      /\ Stores(v, Reached(v), p)
  BY <1>1, <1>2, <1>3, MapPageStores DEF Inv64
<1>5. /\ Tree'
      /\ \A w \in VPages :
            /\ HasTable(w)' <=> HasTable(w) \/ w = v
            /\ Entry(w)' = IF w = v THEN p ELSE Entry(w)
  BY <1>1, <1>2, <1>4, TreeStored DEF Inv64
<1>6. node' # <<>>
  <2>1. node \in Seq([Indices -> Nat]) /\ Len(node) \in Nat
    BY DEF Inv64, Tree, TreeTyped
  <2>2. Len(node) # 0
    BY <1>1, <2>1, EmptySeq
  <2>3. Len(node') # 0
    BY <1>4, <2>1, <2>2, Constants64 DEF Stores
  <2>4. QED
    BY <2>3
<1>7. VM!MallocPage
  <2>1. VM!page_dir_index(v) = v
    BY <1>1, FlatPages
  <2>2. {w \in VPages : HasTable(w)'} = {w \in VPages : HasTable(w)} \cup {v}
    BY <1>1, <1>5
  <2>3. [w \in VPages |-> Entry(w)'] =
           [[w \in VPages |-> Entry(w)] EXCEPT ![v] = p]
    BY <1>1, <1>5
  <2>4. [w \in VPages |-> Entry(w)][v] = 0
    BY <1>1, Constants64
  <2>5. VM!map_page(v, p)
    BY <2>1, <2>2, <2>3, <2>4 DEF VM!map_page, MallocPage, p
  <2>6. QED
    BY <2>4, <2>5 DEF VM!MallocPage, MallocPage, p
<1>8. inited' /\ fault' = fault
  BY DEF MallocPage, Inv64
<1>9. QED
  BY <1>5, <1>6, <1>7, <1>8 DEF VM!Next, Simulates, Inv64

LEMMA FreePage64 ==
    ASSUME Inv64, FreePage
    PROVE  Simulates
<1> DEFINE v == call.page
           pa == translate(v, call.off)
<1>1. v \in VPages
  BY FlatPages, Constants64 DEF FreePage, Inv64, VM!TypeOK, VM!VPages, VPages
<1>2. VM!page_dir_index(v) = v /\ (VM!TLB_check(v) # 0 => HasTable(v))
  BY <1>1, FlatPages
<1>3. VM!Walked(v) <=> ~VM!Cached(v) /\ HasTable(v)
  BY <1>1, <1>2 DEF VM!Walked
<1>4. pa = VM!translate(v, call.off)
  BY <1>1, <1>3 DEF translate, VM!translate
<1>5. pa # 0 => HasTable(v)
  BY <1>2 DEF translate, VM!Cached
<1>6. CASE pa = 0
  <2>1. UNCHANGED node /\ fault' = fault /\ inited' = inited
    BY <1>6 DEF FreePage
  <2>2. \A w : (HasTable(w)' <=> HasTable(w)) /\ Entry(w)' = Entry(w)
    BY <2>1, TreeUndisturbed
  <2>3. VM!FreePage
    BY <1>4, <1>6, <2>2 DEF FreePage, VM!FreePage
  <2>4. call'.op = call.op
    BY <1>6 DEF FreePage, VM!Moved
  <2>5. QED
    BY <2>1, <2>3, <2>4, Undisturbed DEF VM!Next, Inv64
<1>7. CASE pa # 0
  <2>1. node' = [node EXCEPT ![LastTable(v)][IndexAt(v, LastLevel)] = 0]
    BY <1>5, <1>7, Constants64 DEF FreePage
  <2>2. /\ Stores(v, LastLevel, 0)
        /\ \A l \in Levels : Walk(v)[l] # NULL <=> l <= LastLevel
    BY <1>1, <1>5, <1>7, <2>1, EntryStored DEF Inv64
  <2>3. /\ Tree'
        /\ \A w \in VPages :
              /\ HasTable(w)' <=> HasTable(w) \/ w = v
              /\ Entry(w)' = IF w = v THEN 0 ELSE Entry(w)
    <3>1. LastLevel \in Levels
      BY Constants64
    <3>2. QED
      BY <1>1, <2>2, <3>1, TreeStored DEF Inv64
  <2>4. node # <<>> /\ node' # <<>>
    <3>1. node # <<>>
      BY <1>5, <1>7, NoDirectory
    <3>2. node \in Seq([Indices -> Nat]) /\ Len(node) \in Nat
      BY DEF Inv64, Tree, TreeTyped
    <3>3. Len(node) # 0
      BY <3>1, <3>2, EmptySeq
    <3>4. Len(node') # 0
      BY <2>2, <3>2, <3>3, Constants64 DEF Stores
    <3>5. QED
      BY <3>1, <3>4
  <2>5. VM!FreePage
    <3>1. {w \in VPages : HasTable(w)'} = {w \in VPages : HasTable(w)}
      BY <1>5, <1>7, <2>3
    <3>2. [w \in VPages |-> Entry(w)'] =
             [[w \in VPages |-> Entry(w)] EXCEPT ![v] = 0]
      BY <1>1, <2>3
    <3>3. QED
      BY <1>4, <1>5, <1>7, <3>1, <3>2 DEF FreePage, VM!FreePage
  <2>6. inited' = inited /\ fault' = fault /\ call'.op = call.op
    BY <1>5, <1>7 DEF FreePage, VM!Moved
  <2>7. QED
    BY <2>3, <2>4, <2>5, <2>6 DEF VM!Next, Simulates, Inv64
<1>8. QED
  BY <1>6, <1>7

LEMMA MallocOutside64 ==
    ASSUME Inv64, MallocOutside
    PROVE  Simulates
<1>1. /\ UNCHANGED node /\ inited' = inited /\ call' = call
      /\ fault = "none" /\ fault' = "wild_bitmap"
  BY DEF MallocOutside
<1>2. \A w : (HasTable(w)' <=> HasTable(w)) /\ Entry(w)' = Entry(w)
  BY <1>1, TreeUndisturbed
<1>3. UNCHANGED VM!vars
  BY <1>1, <1>2 DEF MallocOutside, VM!vars, VM!tableVars
<1>4. QED
  BY <1>1, <1>3, TreeUndisturbed DEF Simulates, Inv64

\* What the calls that leave the tree alone begin and finish.
LEMMA Begins64 ==
    ASSUME Inv64, NEW n \in Sizes, NEW v \in PagesFor(n),
           NEW o \in 0 .. (PGSIZE - 1),
           \/ FreeBegin(v, o, n)
           \/ GetBegin(v, o, n)
           \/ \E d \in [1..n -> Bytes] : PutBegin(v, o, d)
    PROVE  Simulates
<1>1. v \in VM!VPages /\ o \in VM!Offsets
  BY PagesForAre DEF VM!Offsets
<1>2. CASE FreeBegin(v, o, n)
  <2>1. VM!Next
    BY <1>1, <1>2 DEF FreeBegin, VM!Next
  <2>2. inited' = inited
    BY <1>2 DEF FreeBegin, VM!FreeBegin, VM!tableVars
  <2>3. call' = call \/ call'.op = "free"
    BY <1>2 DEF FreeBegin, VM!FreeBegin, VM!NoCall
  <2>4. QED
    BY <1>2, <2>1, <2>2, <2>3, Undisturbed DEF FreeBegin, Inv64
<1>3. CASE GetBegin(v, o, n)
  <2>1. VM!Next
    BY <1>1, <1>3 DEF GetBegin, VM!Next
  <2>2. inited' = inited
    BY <1>3 DEF GetBegin, VM!GetBegin, VM!tableVars
  <2>3. call' = call \/ call'.op = "get"
    BY <1>3 DEF GetBegin, VM!GetBegin, VM!NoCall
  <2>4. QED
    BY <1>3, <2>1, <2>2, <2>3, Undisturbed DEF GetBegin, Inv64
<1>4. ASSUME NEW d \in [1..n -> Bytes], PutBegin(v, o, d)
      PROVE  Simulates
  <2>1. VM!Next
    BY <1>1, <1>4 DEF PutBegin, VM!Next
  <2>2. inited' = inited
    BY <1>4 DEF PutBegin, VM!PutBegin, VM!tableVars
  <2>3. call' = call \/ call'.op = "put"
    BY <1>4 DEF PutBegin, VM!PutBegin, VM!NoCall
  <2>4. QED
    BY <1>4, <2>1, <2>2, <2>3, Undisturbed DEF PutBegin, Inv64
<1>5. QED
  BY <1>2, <1>3, <1>4

LEMMA Ends64 ==
    ASSUME Inv64, MallocEnd \/ FreeEnd \/ PutEnd \/ GetEnd
    PROVE  Simulates
<1>1. VM!Next
  BY DEF MallocEnd, FreeEnd, PutEnd, GetEnd, VM!Next
<1>2. UNCHANGED node /\ fault' = fault
  BY DEF MallocEnd, FreeEnd, PutEnd, GetEnd
<1>3. inited' = inited /\ call'.op = "none"
  BY DEF MallocEnd, FreeEnd, PutEnd, GetEnd, VM!MallocEnd, VM!FreeEnd,
         VM!PutEnd, VM!GetEnd, VM!MallocReturns, VM!DataReturns, VM!NoCall,
         VM!tableVars
<1>4. QED
  BY <1>1, <1>2, <1>3, Undisturbed DEF Inv64

LEMMA Copies64 ==
    ASSUME Inv64, PutPage \/ GetPage
    PROVE  Simulates
<1>1. VM!Next
  BY DEF PutPage, GetPage, VM!Next
<1>2. UNCHANGED node /\ fault' \in {fault, "wild_memcpy"}
  BY DEF PutPage, GetPage
<1>3. inited' = inited
  BY DEF PutPage, GetPage, VM!PutPage, VM!GetPage, VM!tableVars
<1>4. call' = call \/ call'.op \in {"none", call.op}
  BY DEF PutPage, GetPage, VM!PutPage, VM!GetPage, VM!DataReturns, VM!NoCall,
         VM!Moved
<1>5. QED
  BY <1>1, <1>2, <1>3, <1>4, Undisturbed DEF Inv64

\* Every step of my_vm64.c is one of my_vm.c over the flat table.
LEMMA StepSimulates64 == Inv64 /\ [Next]_vars => Simulates
<1> SUFFICES ASSUME Inv64, [Next]_vars PROVE Simulates
  OBVIOUS
<1>1. ASSUME NEW n \in Sizes, MallocBegin(n) PROVE Simulates
  BY <1>1, MallocBegin64
<1>2. CASE MallocPage
  BY <1>2, MallocPage64
<1>3. CASE MallocFails
  BY <1>3, MallocFails64
<1>4. CASE MallocOutside
  BY <1>4, MallocOutside64
<1>5. CASE FreePage
  BY <1>5, FreePage64
<1>6. CASE UNCHANGED vars
  <2>1. UNCHANGED node
    BY <1>6 DEF vars
  <2>2. \A w : (HasTable(w)' <=> HasTable(w)) /\ Entry(w)' = Entry(w)
    BY <2>1, TreeUndisturbed
  <2>3. UNCHANGED VM!vars
    BY <1>6, <2>2 DEF vars, VM!vars, VM!tableVars
  <2>4. QED
    BY <1>6, <2>1, <2>3, TreeUndisturbed DEF vars, Simulates, Inv64
<1>7. CASE Undefined
  BY <1>6, <1>7 DEF Undefined
<1>8. QED
  BY <1>1, <1>2, <1>3, <1>4, <1>5, <1>6, <1>7, Begins64, Ends64, Copies64
     DEF Next

LEMMA InvInit64 == Init => Inv64
<1> SUFFICES ASSUME Init PROVE Inv64
  OBVIOUS
<1>1. Flat!Init /\ node = <<>>
  BY SameSpecification DEF Init
<1>2. VM!TypeOK /\ Flat!TablesAgree
  <2>1. Flat!TypeOK /\ Flat!TablesAgree
    BY <1>1, Flat!TypeInit, Flat!TablesInit, ConstantsAssumption64
       DEF VM!ConstantsAssumption
  <2>2. QED
    BY <2>1, SameSpecification
<1>3. \A v, l : l \in Levels => Walk(v)[l] = NULL
  <2>1. \A v : Walk(v)[0] = NULL
    BY <1>1, WalkIs
  <2>2. \A l \in Levels : 0 \in Levels /\ 0 <= l
    BY Constants64
  <2>3. QED
    BY <2>1, <2>2, MissingBelow
<1>4. Tree
  <2>1. node \in Seq([Indices -> Nat]) /\ Len(node) = 0 /\ DOMAIN node = {}
    BY <1>1
  <2>2. QED
    BY <1>3, <2>1, Constants64
       DEF Tree, TreeTyped, TreeApart, TreeCovered
<1>5. ~inited /\ call.op = "none" /\ fault = "none"
  BY DEF Init, VM!Init, VM!NoCall
<1>6. QED
  BY <1>1, <1>2, <1>4, <1>5 DEF Inv64

LEMMA InvStep64 == Inv64 /\ [Next]_vars => Inv64'
<1> SUFFICES ASSUME Inv64, [Next]_vars PROVE Inv64'
  OBVIOUS
<1>1. Simulates
  BY StepSimulates64
<1>2. Flat!TypeOK /\ Flat!TablesAgree /\ [Flat!Next]_(Flat!vars)
  BY <1>1, SameSpecification DEF Inv64, Simulates
<1>3. Flat!TypeOK' /\ Flat!TablesAgree'
  BY <1>2, Flat!TypeStep, Flat!TablesStep, ConstantsAssumption64
     DEF VM!ConstantsAssumption
<1>4. VM!TypeOK'
  BY <1>3, SameSpecificationNext
<1>5. QED
  BY <1>1, <1>3, <1>4 DEF Inv64, Simulates

LEMMA Invariant64 == Spec => []Inv64
<1>1. QED
  BY InvInit64, InvStep64, PTL DEF Spec

-----------------------------------------------------------------------------
(***************************************************************************)
(* Theorems                                                                *)
(***************************************************************************)

\* The tables stay in the form that the walk expects: no entry of one above
\* the last level leads outside of those that were allocated.
THEOREM TypesCorrect64 == Spec => []TypeOK64
<1>1. Inv64 => TypeOK64
  BY DEF Inv64, TypeOK64, Tree, TreeTyped
<1>2. QED
  BY <1>1, Invariant64, PTL

\* In whatever order pages are mapped and freed, the tables are a tree of
\* NUM_LEVELS levels: each is reached by exactly one sequence of indices.
THEOREM TreeStaysSound == Spec => []TreeSound
<1>1. Inv64 => TreeSound
  BY SoundTree DEF Inv64
<1>2. QED
  BY <1>1, Invariant64, PTL

\* my_vm64.c implements my_vm.c with a table for each page.
THEOREM FlatTableImplemented == Spec => ImplementsMyVm
<1>1. Init => VM!Init
  BY DEF Init
<1>2. Inv64 /\ [Next]_vars => [VM!Next]_(VM!vars)
  BY StepSimulates64 DEF Simulates
<1>3. QED
  BY <1>1, <1>2, Invariant64, PTL DEF Spec, ImplementsMyVm, VM!Spec

\* n_free walks to the entry it clears without a check; it never meets a table
\* that is missing, whatever clients free (my_vm64.c:533-553). The one NULL
\* that is dereferenced is the page directory of a free before any n_malloc.
THEOREM NoMissingTable == Spec => []NullOnlyBeforeMalloc
<1>1. Init => NullOnlyBeforeMalloc
  BY DEF Init, NullOnlyBeforeMalloc
<1>2. Inv64 /\ NullOnlyBeforeMalloc /\ [Next]_vars => NullOnlyBeforeMalloc'
  <2> SUFFICES ASSUME Inv64, NullOnlyBeforeMalloc, [Next]_vars,
                      fault' = "null_deref"
               PROVE  ~inited'
    BY DEF NullOnlyBeforeMalloc
  <2>1. CASE fault = "null_deref"
    <3>1. ~inited
      BY <2>1 DEF NullOnlyBeforeMalloc
    <3>2. VM!Next \/ UNCHANGED VM!vars
      BY StepSimulates64 DEF Simulates
    <3>3. ~VM!Idle
      BY <2>1 DEF VM!Idle
    <3>4. inited' = inited
      BY <3>2, <3>3
         DEF VM!Next, VM!vars, VM!tableVars, VM!MallocBegin, VM!MallocPage,
             VM!MallocEnd, VM!FreeBegin, VM!FreePage, VM!FreeEnd, VM!PutBegin,
             VM!PutPage, VM!PutEnd, VM!GetBegin, VM!GetPage, VM!GetEnd
    <3>5. QED
      BY <3>1, <3>4
  <2>2. CASE fault # "null_deref"
    <3>1. ASSUME NEW n \in Sizes, NEW v, NEW o, FreeBegin(v, o, n)
          PROVE  ~inited'
      <4>1. (IF fault' = "wild_bitmap" THEN "none" ELSE fault')
               # (IF fault = "wild_bitmap" THEN "none" ELSE fault)
        BY <2>2
      <4>2. ~inited /\ inited' = inited
        BY <3>1, <4>1 DEF FreeBegin, VM!FreeBegin, VM!tableVars
      <4>3. QED
        BY <4>2
    <3>2. ASSUME FreePage PROVE FALSE
      <4>1. VM!TLB_check(call.page) # 0 => HasTable(call.page)
        BY <3>2, FlatPages
           DEF FreePage, Inv64, VM!TypeOK, VM!VPages, VPages
      <4>2. fault' = fault
        BY <3>2, <4>1 DEF FreePage, translate, VM!Cached
      <4>3. QED
        BY <2>2, <4>2
    <3>3. QED
      BY <2>2, <3>1, <3>2
         DEF Next, vars, MallocBegin, MallocPage, MallocFails, MallocOutside,
             MallocEnd, FreeEnd, PutBegin, PutPage, PutEnd, GetBegin, GetPage,
             GetEnd, Undefined
  <2>3. QED
    BY <2>1, <2>2
<1>3. QED
  BY <1>1, <1>2, Invariant64, PTL DEF Spec

\* What was proved of my_vm.c is true of my_vm64.c, with the flat page table
\* and the set of last-level tables that its tree stands for.

\* The bitmaps, the tree and the TLB never disagree.
THEOREM TablesAgree64 == Spec => []Flat!TablesAgree
<1>1. Inv64 => Flat!TablesAgree
  BY DEF Inv64
<1>2. QED
  BY <1>1, Invariant64, PTL

\* Live allocations overlap neither in the address space nor in memory.
THEOREM AllocationsNeverOverlap64 == Spec => []Flat!AllocationsDisjoint
<1>1. Flat!Spec => []Flat!AllocationsDisjoint
  BY Flat!AllocationsNeverOverlap, ConstantsAssumption64
     DEF VM!ConstantsAssumption
<1>2. QED
  BY <1>1, FlatTableImplemented, SameBehaviours DEF ImplementsMyVm

\* Clients that free what they got, once, and access it from the start of a
\* page on meet no undefined behaviour but that of an allocation in the upper
\* half of the address space (my_vm64.c:254).
THEOREM AlignedClientsAreSafe64 ==
    Spec => [](Clients = "aligned" => fault \in {"none", "wild_bitmap"})
<1>1. Flat!Spec => []Flat!AlignedNeverUndefined
  BY Flat!AlignedClientsAreSafe, ConstantsAssumption64
     DEF VM!ConstantsAssumption
<1>2. Flat!AlignedNeverUndefined
         => (Clients = "aligned" => fault \in {"none", "wild_bitmap"})
  BY DEF Flat!AlignedNeverUndefined
<1>3. QED
  BY <1>1, <1>2, FlatTableImplemented, SameBehaviours, PTL
     DEF ImplementsMyVm

\* The same clients get from my_vm64.c what VirtualMemory promises.
THEOREM MemoryKeepsItsPromise64 ==
    Clients = "aligned" /\ Spec => Flat!ImplementsVirtualMemory
<1>1. Clients = "aligned" /\ Flat!Spec => Flat!ImplementsVirtualMemory
  BY Flat!MemoryKeepsItsPromise, ConstantsAssumption64
     DEF VM!ConstantsAssumption
<1>2. QED
  BY <1>1, FlatTableImplemented, SameBehaviours DEF ImplementsMyVm

\* What they read is what was written.
THEOREM AlignedReadsReturnWrites64 ==
    Clients = "aligned" /\ Spec => []Flat!ReadsReturnWrites
<1>1. Clients = "aligned" /\ Flat!Spec => []Flat!ReadsReturnWrites
  BY Flat!AlignedReadsReturnWrites, ConstantsAssumption64
     DEF VM!ConstantsAssumption
<1>2. QED
  BY <1>1, FlatTableImplemented, SameBehaviours DEF ImplementsMyVm
=============================================================================
