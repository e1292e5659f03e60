----------------------- MODULE ThreadWorkerQueueProofs -----------------------
(***************************************************************************)
(* What schedule(), the timer handler and the queue functions of           *)
(* thread-worker.c do with the threads, and what worker_join returns, for  *)
(* every number of threads. The theorems name the policy, the ticks and    *)
(* the start they hold for. All are about programs without mutexes, for    *)
(* worker_mutex_lock leaves a running thread in a list of blocked threads, *)
(* from which it may come back after its end.                              *)
(***************************************************************************)
EXTENDS ThreadWorkerTypeProofs, FiniteSetTheorems

-----------------------------------------------------------------------------
(***************************************************************************)
(* The threads of a queue                                                  *)
(***************************************************************************)
InQueue(q, t) == \E i \in 1..Len(q.items) : q.items[i] = t

\* No thread is in the queue twice.
Once(q) == \A i, j \in 1..Len(q.items) : q.items[i] = q.items[j] => i = j

\* Appending a thread that is not there; a stray tail drops it.
LEMMA EnqueueContents ==
    ASSUME NEW T, NEW q \in QueueOf(T), NEW t \in T
    PROVE  /\ \A u : InQueue(q_enqueue(q, t), u) => InQueue(q, u) \/ u = t
           /\ \A u : InQueue(q, u) => InQueue(q_enqueue(q, t), u)
           /\ ~q.stray => InQueue(q_enqueue(q, t), t)
           /\ q_enqueue(q, t).stray = q.stray
           /\ Once(q) /\ ~InQueue(q, t) => Once(q_enqueue(q, t))
<1>1. CASE q.stray
  BY <1>1 DEF q_enqueue
<1>2. CASE ~q.stray
  <2> DEFINE s == q.items
  <2>1. s \in Seq(T) /\ Len(s) \in Nat
    BY LenProperties DEF QueueOf
  <2>2. /\ q_enqueue(q, t).items = Append(s, t)
        /\ q_enqueue(q, t).stray = q.stray
    BY <1>2 DEF q_enqueue, QueueOf
  <2>3. /\ Len(Append(s, t)) = Len(s) + 1
        /\ \A i \in 1..Len(s) : Append(s, t)[i] = s[i]
        /\ Append(s, t)[Len(s) + 1] = t
    BY <2>1, AppendProperties
  <2> HIDE DEF s
  <2>4. 1..(Len(s) + 1) = 1..Len(s) \cup {Len(s) + 1}
    BY <2>1
  <2>5. QED
    BY <1>2, <2>1, <2>2, <2>3, <2>4 DEF InQueue, Once, s
<1>3. QED
  BY <1>1, <1>2

\* Taking one node out of a queue, wherever it is.
LEMMA WithoutContents ==
    ASSUME NEW T, NEW s \in Seq(T), NEW i \in 1..Len(s), NEW q,
           q.items = s,
           NEW r, r.items = WithoutIndex(s, i)
    PROVE  /\ InQueue(q, s[i])
           /\ \A u : InQueue(r, u) => InQueue(q, u)
           /\ \A u : InQueue(q, u) /\ u # s[i] => InQueue(r, u)
           /\ Once(q) => Once(r) /\ ~InQueue(r, s[i])
<1>1. Len(s) \in Nat
  BY LenProperties
<1> DEFINE w == WithoutIndex(s, i)
<1>2. /\ Len(w) = Len(s) - 1
      /\ \A j \in 1..Len(w) : w[j] = IF j < i THEN s[j] ELSE s[j + 1]
  BY WithoutIndexSeq
<1> HIDE DEF w
<1>3. InQueue(q, s[i])
  BY DEF InQueue
<1>4. \A u : InQueue(r, u) => InQueue(q, u)
  BY <1>1, <1>2 DEF InQueue, w
<1>5. ASSUME NEW u, InQueue(q, u), u # s[i] PROVE InQueue(r, u)
  <2>1. PICK j \in 1..Len(s) : s[j] = u
    BY <1>5 DEF InQueue
  <2>2. CASE j < i
    BY <1>1, <1>2, <2>1, <2>2 DEF InQueue, w
  <2>3. CASE j > i
    <3>1. j - 1 \in 1..Len(w) /\ w[j - 1] = u
      BY <1>1, <1>2, <2>1, <2>3
    <3>2. QED
      BY <3>1 DEF InQueue, w
  <2>4. QED
    BY <1>5, <2>1, <2>2, <2>3
<1>6. ASSUME Once(q) PROVE Once(r) /\ ~InQueue(r, s[i])
  BY <1>1, <1>2, <1>6 DEF Once, InQueue, w
<1>7. QED
  BY <1>3, <1>4, <1>5, <1>6

\* What q_dequeue and q_dequeue_shortest_runtime have in common.
TakenFrom(q, taken) ==
    /\ InQueue(q, taken.thread)
    /\ \A u : InQueue(taken.queue, u) => InQueue(q, u)
    /\ \A u : InQueue(q, u) /\ u # taken.thread => InQueue(taken.queue, u)
    /\ Once(q) => Once(taken.queue) /\ ~InQueue(taken.queue, taken.thread)

LEMMA DequeueContents ==
    ASSUME NEW T, NEW q \in QueueOf(T), ~q_is_empty(q)
    PROVE  /\ TakenFrom(q, q_dequeue(q))
           /\ ~q.stray => ~q_dequeue(q).queue.stray
<1> DEFINE s == q.items
<1>1. s \in Seq(T) /\ s # <<>> /\ q.stray \in BOOLEAN
  BY DEF QueueOf, q_is_empty
<1>2. Len(s) \in Nat /\ 1 \in 1..Len(s)
  BY <1>1, EmptySeq, LenProperties
<1>3. Tail(s) = WithoutIndex(s, 1) /\ Head(s) = s[1]
  BY <1>1, <1>2 DEF WithoutIndex
<1>4. /\ q_dequeue(q).thread = s[1]
      /\ q_dequeue(q).queue.items = WithoutIndex(s, 1)
      /\ q_dequeue(q).queue.stray = (q.stray /\ WithoutIndex(s, 1) # <<>>)
  BY <1>3 DEF q_dequeue, WithItems
<1>5. QED
  BY <1>1, <1>2, <1>4, WithoutContents DEF TakenFrom

LEMMA ShortestContents ==
    ASSUME NEW T, NEW q \in QueueOf(T), ~q_is_empty(q),
           NEW low \in Int, NEW key \in Keys(T, low)
    PROVE  TakenFrom(q, q_dequeue_shortest_runtime(q, key))
<1> DEFINE s == q.items
           i == FirstLeast(s, key)
           taken == q_dequeue_shortest_runtime(q, key)
<1>1. s \in Seq(T) /\ s # <<>>
  BY DEF QueueOf, q_is_empty
<1>2. i \in 1..Len(s)
  BY <1>1, FirstLeastExists
<1>3. taken.thread = s[i] /\ taken.queue.items = WithoutIndex(s, i)
  BY DEF q_dequeue_shortest_runtime, WithItems
<1> HIDE DEF s, i, taken
<1>4. TakenFrom(q, taken)
  BY <1>1, <1>2, <1>3, WithoutContents DEF TakenFrom, s
<1>5. QED
  BY <1>4 DEF taken

LEMMA CountOnce ==
    ASSUME NEW T, NEW q \in QueueOf(T), Once(q), NEW t
    PROVE  Count(q, t) = IF InQueue(q, t) THEN 1 ELSE 0
<1> DEFINE I == {i \in 1..Len(q.items) : q.items[i] = t}
<1>1. CASE InQueue(q, t)
  <2>1. PICK i \in 1..Len(q.items) : q.items[i] = t
    BY <1>1 DEF InQueue
  <2>2. I = {i}
    BY <2>1 DEF Once
  <2>3. QED
    BY <1>1, <2>2, FS_Singleton DEF Count
<1>2. CASE ~InQueue(q, t)
  <2>1. I = {}
    BY <1>2 DEF InQueue
  <2>2. QED
    BY <1>2, <2>1, FS_EmptySet DEF Count
<1>3. QED
  BY <1>1, <1>2

-----------------------------------------------------------------------------
(***************************************************************************)
(* Main in the queue of PSJF and MATRIX                                    *)
(***************************************************************************)

\* By their quanta, what waits in front of main has no more than main, and
\* what waits behind it is sorted and at most one ahead of all others.
Ordered(s, key) ==
    \A k \in 1..Len(s) : s[k] = Main =>
        /\ \A i \in 1..(k - 1) : key[s[i]] <= key[Main]
        /\ \A i \in (k + 1)..Len(s) : \A j \in 1..Len(s) :
              key[s[i]] <= key[s[j]] + 1
        /\ \A i, j \in (k + 1)..Len(s) : i < j => key[s[i]] <= key[s[j]]

\* A tail that was left on a node taken out stands behind main.
StrayBehindMain(q) ==
    q.stray => q.items # <<>> /\ q.items[Len(q.items)] = Main

\* The thread the scheduler took has the fewest quanta of all, or is main;
\* those behind main, and all when main was taken, are at most one ahead.
Least(c, s, key) ==
    /\ c # Main => /\ \A j \in 1..Len(s) : key[c] <= key[s[j]]
                   /\ \A k \in 1..Len(s) : s[k] = Main =>
                         \A i \in (k + 1)..Len(s) : key[s[i]] <= key[c] + 1
    /\ c = Main => \A j \in 1..Len(s) : key[s[j]] <= key[c] + 1

\* A thread is appended: main when none is more than its quanta behind it, or
\* another one that keeps the order behind main.
LEMMA AppendOrdered ==
    ASSUME NEW s \in Seq(Threads), NEW key \in [Threads -> Int],
           NEW t \in Threads, Ordered(s, key),
           t = Main => \A j \in 1..Len(s) :
                          s[j] # Main /\ key[s[j]] <= key[Main],
           t # Main => \A k \in 1..Len(s) : s[k] = Main =>
                          /\ \A j \in 1..Len(s) : key[t] <= key[s[j]] + 1
                          /\ \A i \in (k + 1)..Len(s) : key[s[i]] <= key[t]
    PROVE  Ordered(Append(s, t), key)
<1> DEFINE a == Append(s, t)
           n == Len(s)
<1>1. /\ n \in Nat /\ Len(a) = n + 1
      /\ \A i \in 1..n : a[i] = s[i] /\ s[i] \in Threads
      /\ a[n + 1] = t
  BY LenProperties, AppendProperties, ElementOfSeq
<1>2. \A u \in Threads : key[u] \in Int
  OBVIOUS
<1> HIDE DEF a, n
<1> SUFFICES ASSUME NEW k \in 1..(n + 1), a[k] = Main
             PROVE  /\ \A i \in 1..(k - 1) : key[a[i]] <= key[Main]
                    /\ \A i \in (k + 1)..(n + 1) : \A j \in 1..(n + 1) :
                          key[a[i]] <= key[a[j]] + 1
                    /\ \A i, j \in (k + 1)..(n + 1) :
                          i < j => key[a[i]] <= key[a[j]]
  BY <1>1 DEF Ordered, a
<1>3. CASE t = Main
  <2>1. \A j \in 1..n : s[j] # Main /\ key[s[j]] <= key[Main]
    BY <1>3 DEF n
  <2>2. k = n + 1
    BY <1>1, <2>1
  <2>3. \A i \in 1..n : key[a[i]] <= key[Main]
    BY <1>1, <2>1
  <2>4. QED
    BY <1>1, <2>2, <2>3
<1>4. CASE t # Main
  <2>1. k \in 1..n /\ s[k] = Main
    BY <1>1, <1>4
  <2>2. /\ \A i \in 1..(k - 1) : key[s[i]] <= key[Main]
        /\ \A i \in (k + 1)..n : \A j \in 1..n : key[s[i]] <= key[s[j]] + 1
        /\ \A i, j \in (k + 1)..n : i < j => key[s[i]] <= key[s[j]]
    BY <2>1 DEF Ordered, n
  <2>3. /\ \A j \in 1..n : key[t] <= key[s[j]] + 1
        /\ \A i \in (k + 1)..n : key[s[i]] <= key[t]
    BY <1>4, <2>1 DEF n
  <2>4. \A i \in 1..(k - 1) : key[a[i]] <= key[Main]
    BY <1>1, <2>1, <2>2
  <2>5. ASSUME NEW i \in (k + 1)..(n + 1), NEW j \in 1..(n + 1)
        PROVE  key[a[i]] <= key[a[j]] + 1
    <3>1. (i \in (k + 1)..n /\ i \in 1..n) \/ i = n + 1
      BY <1>1, <2>1
    <3>2. j \in 1..n \/ j = n + 1
      BY <1>1
    <3>3. CASE i \in (k + 1)..n /\ i \in 1..n
      <4>1. a[i] = s[i] /\ key[s[i]] \in Int /\ key[t] \in Int
        BY <1>1, <1>2, <3>3
      <4>2. key[s[i]] <= key[t]
        BY <2>3, <3>3
      <4>3. CASE j \in 1..n
        <5>1. a[j] = s[j] /\ key[s[i]] <= key[s[j]] + 1
          BY <1>1, <2>2, <3>3, <4>3
        <5>2. QED
          BY <4>1, <5>1
      <4>4. CASE j = n + 1
        BY <1>1, <4>1, <4>2, <4>4
      <4>5. QED
        BY <3>2, <4>3, <4>4
    <3>4. CASE i = n + 1
      <4>1. a[i] = t /\ key[t] \in Int
        BY <1>1, <1>2, <3>4
      <4>2. CASE j \in 1..n
        <5>1. a[j] = s[j] /\ key[t] <= key[s[j]] + 1
          BY <1>1, <2>3, <4>2
        <5>2. QED
          BY <4>1, <5>1
      <4>3. CASE j = n + 1
        BY <1>1, <4>1, <4>3
      <4>4. QED
        BY <3>2, <4>2, <4>3
    <3>5. QED
      BY <3>1, <3>3, <3>4
  <2>6. ASSUME NEW i \in (k + 1)..(n + 1), NEW j \in (k + 1)..(n + 1), i < j
        PROVE  key[a[i]] <= key[a[j]]
    <3>1. i \in (k + 1)..n /\ i \in 1..n
      BY <1>1, <2>1, <2>6
    <3>2. (j \in (k + 1)..n /\ j \in 1..n) \/ j = n + 1
      BY <1>1, <2>1
    <3>3. a[i] = s[i] /\ key[s[i]] <= key[t]
      BY <1>1, <2>3, <3>1
    <3>4. CASE j \in (k + 1)..n /\ j \in 1..n
      <4>1. a[j] = s[j] /\ key[s[i]] <= key[s[j]]
        BY <1>1, <2>2, <2>6, <3>1, <3>4
      <4>2. QED
        BY <3>3, <4>1
    <3>5. CASE j = n + 1
      BY <1>1, <3>3, <3>5
    <3>6. QED
      BY <3>2, <3>4, <3>5
  <2>7. QED
    BY <2>4, <2>5, <2>6
<1>5. QED
  BY <1>3, <1>4

\* A thread is taken out, from anywhere.
LEMMA WithoutOrdered ==
    ASSUME NEW s \in Seq(Threads), NEW key \in [Threads -> Int],
           NEW f \in 1..Len(s), Ordered(s, key)
    PROVE  Ordered(WithoutIndex(s, f), key)
<1> DEFINE w == WithoutIndex(s, f)
           n == Len(s)
           From(j) == IF j < f THEN j ELSE j + 1
<1>1. n \in Nat /\ f \in 1..n
  BY LenProperties
<1>2. /\ Len(w) = n - 1
      /\ \A j \in 1..(n - 1) : w[j] = s[From(j)]
  <2>1. /\ Len(WithoutIndex(s, f)) = Len(s) - 1
        /\ \A j \in 1..(Len(s) - 1) :
              WithoutIndex(s, f)[j] = IF j < f THEN s[j] ELSE s[j + 1]
    BY WithoutIndexSeq
  <2>2. QED
    BY <2>1
<1> HIDE DEF w, n
<1>3. /\ \A j \in 1..(n - 1) : From(j) \in 1..n
      /\ \A i, j \in 1..(n - 1) : i < j => From(i) < From(j)
  BY <1>1
<1> HIDE DEF From
<1>4. ASSUME NEW k \in 1..(n - 1), w[k] = Main
      PROVE  /\ \A i \in 1..(k - 1) : key[w[i]] <= key[Main]
             /\ \A i \in (k + 1)..(n - 1) : \A j \in 1..(n - 1) :
                   key[w[i]] <= key[w[j]] + 1
             /\ \A i, j \in (k + 1)..(n - 1) :
                   i < j => key[w[i]] <= key[w[j]]
  <2>1. From(k) \in 1..n /\ s[From(k)] = Main
    BY <1>2, <1>3, <1>4
  <2> DEFINE m == From(k)
  <2> HIDE DEF m
  <2>2. /\ \A i \in 1..(m - 1) : key[s[i]] <= key[Main]
        /\ \A i \in (m + 1)..n : \A j \in 1..n : key[s[i]] <= key[s[j]] + 1
        /\ \A i, j \in (m + 1)..n : i < j => key[s[i]] <= key[s[j]]
    BY <2>1 DEF Ordered, n, m
  <2>3. \A i \in 1..(k - 1) : i \in 1..(n - 1) /\ From(i) \in 1..(m - 1)
    <3>1. \A i \in 1..(k - 1) : i \in 1..(n - 1) /\ i < k
      BY <1>1
    <3>2. QED
      BY <1>1, <1>3, <2>1, <3>1 DEF m
  <2>4. \A i \in (k + 1)..(n - 1) : i \in 1..(n - 1) /\ From(i) \in (m + 1)..n
    <3>1. \A i \in (k + 1)..(n - 1) : i \in 1..(n - 1) /\ k < i
      BY <1>1
    <3>2. QED
      BY <1>1, <1>3, <2>1, <3>1 DEF m
  <2>5. \A i \in 1..(k - 1) : key[w[i]] <= key[Main]
    BY <1>2, <2>2, <2>3
  <2>6. \A i \in (k + 1)..(n - 1) : \A j \in 1..(n - 1) :
           key[w[i]] <= key[w[j]] + 1
    BY <1>2, <1>3, <2>2, <2>4
  <2>7. \A i, j \in (k + 1)..(n - 1) : i < j => key[w[i]] <= key[w[j]]
    BY <1>2, <1>3, <2>2, <2>4
  <2>8. QED
    BY <2>5, <2>6, <2>7
<1>5. QED
  BY <1>2, <1>4 DEF Ordered, w, n

LEMMA EnqueueOrdered ==
    ASSUME NEW q \in QueueOf(Threads), NEW key \in [Threads -> Int],
           NEW t \in Threads, Ordered(q.items, key), StrayBehindMain(q),
           t = Main => \A j \in 1..Len(q.items) :
                          q.items[j] # Main /\ key[q.items[j]] <= key[Main],
           t # Main => \A k \in 1..Len(q.items) : q.items[k] = Main =>
              /\ \A j \in 1..Len(q.items) : key[t] <= key[q.items[j]] + 1
              /\ \A i \in (k + 1)..Len(q.items) : key[q.items[i]] <= key[t]
    PROVE  /\ Ordered(q_enqueue(q, t).items, key)
           /\ StrayBehindMain(q_enqueue(q, t))
<1>1. CASE q.stray
  BY <1>1 DEF q_enqueue
<1>2. CASE ~q.stray
  <2>1. /\ q_enqueue(q, t).items = Append(q.items, t)
        /\ ~q_enqueue(q, t).stray
    BY <1>2 DEF q_enqueue, QueueOf
  <2>2. q.items \in Seq(Threads)
    BY DEF QueueOf
  <2>3. Ordered(Append(q.items, t), key)
    BY <2>2, AppendOrdered
  <2>4. QED
    BY <2>1, <2>3 DEF StrayBehindMain
<1>3. QED
  BY <1>1, <1>2

\* The first of the threads with the fewest quanta is taken, from a queue with
\* main. The last one is it only when it is main alone, or just behind main.
LEMMA ShortestOrdered ==
    ASSUME NEW q \in QueueOf(Threads),
           NEW low \in Int, NEW key \in Keys(Threads, low),
           Ordered(q.items, key), StrayBehindMain(q), Once(q),
           InQueue(q, Main)
    PROVE  LET taken == q_dequeue_shortest_runtime(q, key)
           IN  /\ Ordered(taken.queue.items, key)
               /\ StrayBehindMain(taken.queue)
               /\ Least(taken.thread, taken.queue.items, key)
<1> DEFINE s == q.items
           n == Len(s)
           f == FirstLeast(s, key)
           w == WithoutIndex(s, f)
           taken == q_dequeue_shortest_runtime(q, key)
<1>1. s \in Seq(Threads) /\ n \in Nat /\ q.stray \in BOOLEAN
  BY LenProperties DEF QueueOf
<1>2. PICK k \in 1..n : s[k] = Main
  BY DEF InQueue
<1>3. /\ key \in [Threads -> Int]
      /\ \A i \in 1..n : s[i] \in Threads /\ key[s[i]] \in Int
  BY <1>1, ElementOfSeq DEF Keys
<1>4. \A i \in 1..n : s[i] = Main <=> i = k
  BY <1>2 DEF Once
<1>5. /\ \A i \in 1..(k - 1) : key[s[i]] <= key[s[k]]
      /\ \A i \in (k + 1)..n : \A j \in 1..n : key[s[i]] <= key[s[j]] + 1
      /\ \A i, j \in (k + 1)..n : i < j => key[s[i]] <= key[s[j]]
  BY <1>2 DEF Ordered
<1>6. /\ f \in 1..n
      /\ \A j \in 1..n : key[s[f]] <= key[s[j]]
      /\ \A j \in 1..(f - 1) : key[s[f]] < key[s[j]]
  <2>1. s # <<>>
    BY <1>1, <1>2, EmptySeq
  <2>2. QED
    BY <1>1, <2>1, FirstLeastExists
<1>7. q.stray => k = n
  <2>1. q.stray => n \in 1..n /\ s[n] = Main
    BY <1>1, <1>2 DEF StrayBehindMain
  <2>2. QED
    BY <1>4, <2>1
<1>8. /\ taken.thread = s[f] /\ taken.queue.items = w
      /\ taken.queue.stray = ((q.stray \/ f = n) /\ w # <<>>)
  BY DEF q_dequeue_shortest_runtime, WithItems
<1> HIDE DEF f, taken, w
<1>9. /\ w \in Seq(Threads) /\ Len(w) = n - 1
      /\ \A j \in 1..(n - 1) : w[j] = IF j < f THEN s[j] ELSE s[j + 1]
  <2>1. f \in 1..Len(s)
    BY <1>6
  <2> HIDE DEF s
  <2>2. /\ WithoutIndex(s, f) \in Seq(Threads)
        /\ Len(WithoutIndex(s, f)) = Len(s) - 1
        /\ \A j \in 1..(Len(s) - 1) :
              WithoutIndex(s, f)[j] = IF j < f THEN s[j] ELSE s[j + 1]
    BY <1>1, <2>1, WithoutIndexSeq
  <2>3. QED
    BY <2>2 DEF w
<1> HIDE DEF s, n
<1>10. Ordered(w, key)
  BY <1>1, <1>3, <1>6, WithoutOrdered DEF w, s, n
\* Taking the last thread leaves the tail on it: main is in front of it then,
\* or main was alone.
<1>11. f = n => k = n - 1 \/ n = 1
  <2> SUFFICES ASSUME f = n, k # n - 1, n # 1 PROVE FALSE
    OBVIOUS
  <2>1. n - 1 \in 1..(f - 1) /\ n - 1 \in 1..n
    BY <1>1, <1>6
  <2>2. key[s[n]] < key[s[n - 1]]
    BY <1>6, <2>1
  <2>3. CASE k = n
    BY <1>1, <1>3, <1>5, <1>6, <2>1, <2>2, <2>3
  <2>4. CASE k < n - 1
    <3>1. n - 1 \in (k + 1)..n /\ n \in (k + 1)..n /\ n - 1 < n
      BY <1>1, <1>2, <2>4
    <3>2. QED
      BY <1>1, <1>3, <1>5, <1>6, <2>1, <2>2, <3>1
  <2>5. QED
    BY <1>1, <1>2, <2>3, <2>4
<1>12. StrayBehindMain(taken.queue)
  <2> SUFFICES ASSUME q.stray \/ f = n, w # <<>>
               PROVE  w[n - 1] = Main
    BY <1>8, <1>9 DEF StrayBehindMain
  <2>1. n - 1 \in Nat /\ n - 1 # 0
    BY <1>1, <1>2, <1>9, EmptySeq
  <2>2. n - 1 \in 1..(n - 1)
    BY <1>1, <2>1
  <2>3. CASE f = n
    <3>1. k = n - 1 /\ n - 1 < f
      BY <1>1, <1>11, <2>1, <2>3
    <3>2. QED
      BY <1>2, <1>9, <2>2, <3>1
  <2>4. CASE f # n
    <3>1. k = n /\ ~(n - 1 < f) /\ (n - 1) + 1 = n
      BY <1>1, <1>6, <1>7, <2>4
    <3>2. QED
      BY <1>2, <1>9, <2>2, <3>1
  <2>5. QED
    BY <2>3, <2>4
<1>13. Least(s[f], w, key)
  <2>1. \A j \in 1..(n - 1) : \E i \in 1..n : w[j] = s[i]
    <3>1. \A j \in 1..(n - 1) : j \in 1..n /\ j + 1 \in 1..n
      BY <1>1
    <3>2. QED
      BY <1>9, <3>1
  <2>2. s[f] # Main =>
          /\ \A j \in 1..(n - 1) : key[s[f]] <= key[w[j]]
          /\ \A m \in 1..(n - 1) : w[m] = Main =>
                \A i \in (m + 1)..(n - 1) : key[w[i]] <= key[s[f]] + 1
    <3>1. \A j \in 1..(n - 1) : key[s[f]] <= key[w[j]]
      BY <1>6, <2>1
    <3>2. ASSUME NEW m \in 1..(n - 1), w[m] = Main,
                 NEW i \in (m + 1)..(n - 1)
          PROVE  key[w[i]] <= key[s[f]] + 1
      <4> DEFINE x == IF i < f THEN i ELSE i + 1
                 y == IF m < f THEN m ELSE m + 1
      <4>1. /\ i \in 1..(n - 1) /\ x \in 1..n /\ y \in 1..n /\ y < x
        BY <1>1, <1>6, <3>2
      <4>2. w[i] = s[x] /\ s[y] = Main
        BY <1>9, <3>2, <4>1
      <4> HIDE DEF x, y
      <4>3. x \in (k + 1)..n
        <5>1. y = k
          BY <1>4, <4>1, <4>2
        <5>2. QED
          BY <1>1, <1>2, <4>1, <5>1
      <4>4. QED
        BY <1>5, <1>6, <4>2, <4>3
    <3>3. QED
      BY <3>1, <3>2
  <2>3. s[f] = Main => \A j \in 1..(n - 1) : key[w[j]] <= key[s[f]] + 1
    <3> SUFFICES ASSUME s[f] = Main, NEW i \in 1..n
                 PROVE  key[s[i]] <= key[s[f]] + 1
      BY <2>1
    <3>1. f = k
      BY <1>4, <1>6
    <3>2. i \in 1..(k - 1) \/ i = k \/ i \in (k + 1)..n
      BY <1>1, <1>2
    <3>3. QED
      BY <1>2, <1>3, <1>5, <3>1, <3>2
  <2>4. QED
    BY <1>9, <2>2, <2>3 DEF Least
<1>14. QED
  BY <1>8, <1>10, <1>12, <1>13 DEF taken

-----------------------------------------------------------------------------
(***************************************************************************)
(* The threads of all run queues                                           *)
(***************************************************************************)
Queued(rq, t) == \E p \in Prios : InQueue(rq[p], t)

OnceInAll(rq) ==
    /\ \A p \in Prios : Once(rq[p])
    /\ \A p, r \in Prios : \A t :
          InQueue(rq[p], t) /\ InQueue(rq[r], t) => p = r

NoneStray(rq) == \A p \in Prios : ~rq[p].stray

LEMMA EnqueuedContents ==
    ASSUME NEW rq \in RunQueues, NEW p \in Prios, NEW t \in Threads
    PROVE  /\ \A u : Queued(Enqueued(rq, p, t), u) => Queued(rq, u) \/ u = t
           /\ \A u : Queued(rq, u) => Queued(Enqueued(rq, p, t), u)
           /\ NoneStray(rq) => /\ NoneStray(Enqueued(rq, p, t))
                               /\ Queued(Enqueued(rq, p, t), t)
           /\ OnceInAll(rq) /\ ~Queued(rq, t)
                => OnceInAll(Enqueued(rq, p, t))
<1> DEFINE new == Enqueued(rq, p, t)
<1>1. /\ new[p] = q_enqueue(rq[p], t)
      /\ \A r \in Prios \ {p} : new[r] = rq[r]
      /\ rq[p] \in QueueOf(Threads)
  BY EnqueuedType DEF RunQueues
<1>2. /\ \A u : InQueue(new[p], u) => InQueue(rq[p], u) \/ u = t
      /\ \A u : InQueue(rq[p], u) => InQueue(new[p], u)
      /\ ~rq[p].stray => InQueue(new[p], t)
      /\ new[p].stray = rq[p].stray
      /\ Once(rq[p]) /\ ~InQueue(rq[p], t) => Once(new[p])
  BY <1>1, EnqueueContents
<1> HIDE DEF new
<1>3. \A u : Queued(new, u) => Queued(rq, u) \/ u = t
  BY <1>1, <1>2 DEF Queued
<1>4. \A u : Queued(rq, u) => Queued(new, u)
  BY <1>1, <1>2 DEF Queued
<1>5. NoneStray(rq) => NoneStray(new) /\ Queued(new, t)
  BY <1>1, <1>2 DEF Queued, NoneStray
<1>6. OnceInAll(rq) /\ ~Queued(rq, t) => OnceInAll(new)
  <2> SUFFICES ASSUME OnceInAll(rq), ~Queued(rq, t) PROVE OnceInAll(new)
    OBVIOUS
  <2>1. \A r \in Prios : Once(new[r])
    BY <1>1, <1>2 DEF OnceInAll, Queued
  <2>2. ASSUME NEW r \in Prios, NEW s \in Prios, NEW u,
               InQueue(new[r], u), InQueue(new[s], u)
        PROVE  r = s
    BY <1>1, <1>2, <2>2 DEF OnceInAll, Queued
  <2>3. QED
    BY <2>1, <2>2 DEF OnceInAll
<1>7. QED
  BY <1>3, <1>4, <1>5, <1>6 DEF new

LEMMA TakenContents ==
    ASSUME NEW rq \in RunQueues, NEW p \in Prios, NEW taken,
           TakenFrom(rq[p], taken)
    PROVE  LET new == [rq EXCEPT ![p] = taken.queue]
           IN  /\ Queued(rq, taken.thread)
               /\ \A u : Queued(new, u) => Queued(rq, u)
               /\ \A u : Queued(rq, u) /\ u # taken.thread => Queued(new, u)
               /\ OnceInAll(rq) => /\ OnceInAll(new)
                                   /\ ~Queued(new, taken.thread)
<1> DEFINE new == [rq EXCEPT ![p] = taken.queue]
<1>1. new[p] = taken.queue /\ \A r \in Prios \ {p} : new[r] = rq[r]
  BY DEF RunQueues
<1>2. /\ InQueue(rq[p], taken.thread)
      /\ \A u : InQueue(new[p], u) => InQueue(rq[p], u)
      /\ \A u : InQueue(rq[p], u) /\ u # taken.thread => InQueue(new[p], u)
      /\ Once(rq[p]) => Once(new[p]) /\ ~InQueue(new[p], taken.thread)
  BY <1>1 DEF TakenFrom
<1> HIDE DEF new
<1>3. \A r \in Prios : \A u : InQueue(new[r], u) => InQueue(rq[r], u)
  BY <1>1, <1>2
<1>4. /\ Queued(rq, taken.thread)
      /\ \A u : Queued(new, u) => Queued(rq, u)
  BY <1>2, <1>3 DEF Queued
<1>5. \A u : Queued(rq, u) /\ u # taken.thread => Queued(new, u)
  BY <1>1, <1>2 DEF Queued
<1>6. OnceInAll(rq) => OnceInAll(new) /\ ~Queued(new, taken.thread)
  BY <1>1, <1>2, <1>3 DEF OnceInAll, Queued
<1>7. QED
  BY <1>4, <1>5, <1>6 DEF new

\* The refresh moves the threads of the LOW queue and keeps every one.
LEMMA RefreshedContents ==
    ASSUME NEW rq \in RunQueues
    PROVE  /\ \A u : Queued(Refreshed(rq), u) <=> Queued(rq, u)
           /\ NoneStray(rq) => NoneStray(Refreshed(rq))
           /\ OnceInAll(rq) => OnceInAll(Refreshed(rq))
<1> DEFINE new == Refreshed(rq)
           h == rq[HIGH_PRIO].items
           l == rq[LOW_PRIO].items
<1>1. HIGH_PRIO \in Prios /\ LOW_PRIO \in Prios /\ HIGH_PRIO # LOW_PRIO
  BY DEF HIGH_PRIO, LOW_PRIO, Prios
<1>2. /\ h \in Seq(Threads) /\ l \in Seq(Threads)
      /\ Len(h) \in Nat /\ Len(l) \in Nat
  BY <1>1, LenProperties DEF RunQueues, QueueOf
<1>3. /\ new[HIGH_PRIO].items = h \o l
      /\ new[LOW_PRIO] = q_init
      /\ \A p \in Prios \ {HIGH_PRIO, LOW_PRIO} : new[p] = rq[p]
      /\ new[HIGH_PRIO].stray = rq[HIGH_PRIO].stray
  BY <1>1 DEF Refreshed, RunQueues, QueueOf
<1> DEFINE c == h \o l
<1> HIDE DEF new, h, l
<1>4. /\ Len(c) = Len(h) + Len(l)
      /\ \A i \in 1..Len(h) : c[i] = h[i]
      /\ \A i \in 1..Len(l) : c[Len(h) + i] = l[i]
  <2>1. /\ Len(c) = Len(h) + Len(l)
        /\ \A i \in 1..Len(c) : c[i] = IF i <= Len(h) THEN h[i]
                                                      ELSE l[i - Len(h)]
    BY <1>2, ConcatProperties
  <2> HIDE DEF c
  <2>2. ASSUME NEW i \in 1..Len(l) PROVE c[Len(h) + i] = l[i]
    <3>1. /\ Len(h) + i \in 1..Len(c) /\ ~(Len(h) + i <= Len(h))
          /\ (Len(h) + i) - Len(h) = i
      BY <1>2, <2>1
    <3>2. QED
      BY <2>1, <3>1
  <2>3. QED
    BY <1>2, <2>1, <2>2
<1> HIDE DEF c
<1>5. \A i \in 1..Len(c) :
          \/ i \in 1..Len(h) /\ c[i] = h[i]
          \/ i - Len(h) \in 1..Len(l) /\ c[i] = l[i - Len(h)]
  <2> SUFFICES ASSUME NEW i \in 1..Len(c)
               PROVE  \/ i \in 1..Len(h) /\ c[i] = h[i]
                      \/ i - Len(h) \in 1..Len(l) /\ c[i] = l[i - Len(h)]
    OBVIOUS
  <2>1. CASE i <= Len(h)
    BY <1>2, <1>4, <2>1 DEF c
  <2>2. CASE i > Len(h)
    <3>1. i - Len(h) \in 1..Len(l) /\ Len(h) + (i - Len(h)) = i
      BY <1>2, <1>4, <2>2 DEF c
    <3>2. QED
      BY <1>4, <3>1 DEF c
  <2>3. QED
    BY <1>2, <2>1, <2>2
<1>6. \A u : InQueue(new[HIGH_PRIO], u)
               <=> InQueue(rq[HIGH_PRIO], u) \/ InQueue(rq[LOW_PRIO], u)
  <2>1. ASSUME NEW u, InQueue(new[HIGH_PRIO], u)
        PROVE  InQueue(rq[HIGH_PRIO], u) \/ InQueue(rq[LOW_PRIO], u)
    BY <1>1, <1>3, <1>5, <2>1 DEF InQueue, c, h, l
  <2>2. ASSUME NEW u, InQueue(rq[HIGH_PRIO], u)
        PROVE  InQueue(new[HIGH_PRIO], u)
    BY <1>2, <1>3, <1>4, <2>2 DEF InQueue, h
  <2>3. ASSUME NEW u, InQueue(rq[LOW_PRIO], u)
        PROVE  InQueue(new[HIGH_PRIO], u)
    <3>1. PICK i \in 1..Len(l) : l[i] = u
      BY <2>3 DEF InQueue, l
    <3>2. Len(h) + i \in 1..Len(c) /\ c[Len(h) + i] = u
      BY <1>2, <1>4, <3>1 DEF c
    <3>3. QED
      BY <1>3, <3>2 DEF InQueue, c
  <2>4. QED
    BY <2>1, <2>2, <2>3
<1>7. \A u : ~InQueue(new[LOW_PRIO], u)
  BY <1>3 DEF InQueue, q_init
<1>8. \A u : Queued(new, u) <=> Queued(rq, u)
  BY <1>1, <1>3, <1>6, <1>7 DEF Queued
<1>9. NoneStray(rq) => NoneStray(new)
  BY <1>1, <1>3 DEF NoneStray, q_init
<1>10. ASSUME OnceInAll(rq) PROVE OnceInAll(new)
  <2>1. Once(new[HIGH_PRIO])
    <3> SUFFICES ASSUME NEW i \in 1..Len(c), NEW j \in 1..Len(c), c[i] = c[j]
                 PROVE  i = j
      BY <1>3 DEF Once, c
    <3>1. \A a \in 1..Len(h), b \in 1..Len(l) : h[a] # l[b]
      BY <1>1, <1>10 DEF OnceInAll, InQueue, h, l
    <3>2. /\ \A a, b \in 1..Len(h) : h[a] = h[b] => a = b
          /\ \A a, b \in 1..Len(l) : l[a] = l[b] => a = b
      BY <1>1, <1>10 DEF OnceInAll, Once, h, l
    <3>3. CASE i \in 1..Len(h) /\ c[i] = h[i]
      BY <1>5, <3>1, <3>2, <3>3
    <3>4. CASE i - Len(h) \in 1..Len(l) /\ c[i] = l[i - Len(h)]
      <4>1. i - Len(h) = j - Len(h)
        BY <1>5, <3>1, <3>2, <3>4
      <4>2. QED
        BY <1>2, <4>1
    <3>5. QED
      BY <1>5, <3>3, <3>4
  <2>2. Once(new[LOW_PRIO])
    BY <1>3 DEF Once, q_init
  <2>3. \A p \in Prios : Once(new[p])
    BY <1>3, <1>10, <2>1, <2>2 DEF OnceInAll
  <2>4. ASSUME NEW p \in Prios, NEW r \in Prios, NEW u,
               InQueue(new[p], u), InQueue(new[r], u)
        PROVE  p = r
    BY <1>1, <1>3, <1>6, <1>7, <1>10, <2>4 DEF OnceInAll
  <2>5. QED
    BY <2>3, <2>4 DEF OnceInAll
<1>11. QED
  BY <1>8, <1>9, <1>10 DEF new

-----------------------------------------------------------------------------
(***************************************************************************)
(* Where a thread is, in programs without mutexes                          *)
(***************************************************************************)

\* The status tells which threads have ended, an ended thread is nowhere, a
\* thread on the CPU is not queued, and schedule() runs only after main is in
\* thread_table.
ThreadPlaces ==
    /\ \A t \in Threads : status[t] = "FINISHED" <=> pc[t] \in Ends
    /\ \A t \in Threads : status[t] # "BLOCKED"
    /\ \A t \in Threads : Queued(run_queue, t)
          => Created(t) /\ status[t] # "FINISHED" /\ ~OnBoard(t)
    /\ current_thread # NULL => Created(current_thread)
    /\ cpu # "thread" => Created(Main)

\* Finished threads that schedule() has seen.
Seen == {t \in Threads : status[t] = "FINISHED" /\ ~OnBoard(t)}

\* threads_finished_counter counts each of them; a tick behind the count makes
\* schedule() count a thread once more.
Counted ==
    /\ threads_finished_counter >= Cardinality(Seen)
    /\ ~LibraryTicks => threads_finished_counter = Cardinality(Seen)

LEMMA SeenFinite == IsFiniteSet(Seen)
<1>1. IsFiniteSet(Threads)
  BY FS_Interval, ConstantsAssumption DEF Threads
<1>2. QED
  BY <1>1, FS_Subset DEF Seen

\* The inductive invariant for any policy and ticks anywhere.
QueueInv ==
    /\ Mutexes = {}
    /\ TypeInv
    /\ OnceInAll(run_queue)
    /\ ThreadPlaces
    /\ Counted

\* With it, the inductive invariant under MLFQ: no tail is stray, so that
\* every thread that is put into a queue can be taken out again.
NothingLost ==
    /\ Policy = "MLFQ"
    /\ NoneStray(run_queue)
    /\ \A t \in Threads : Unfinished(t) => OnBoard(t) \/ Queued(run_queue, t)

\* Labels of a thread whose return value is stored.
Past == {"past_exit", "done"}

\* What worker_join may rely on, when no quantum ends between the two
\* assignments of worker_exit.
ResultInv ==
    /\ ~LibraryTicks
    /\ QueueInv
    /\ \A t \in Threads : pc[t] = "exit_value"
                             => cpu = "thread" /\ current_thread = t
    /\ \A t \in Threads : return_value[t] = IF pc[t] \in Past THEN passed[t]
                                                               ELSE NULL
    /\ \A t \in 1 .. (joining - 1) :
          t \in Threads /\ pc[t] \in Past /\ joined[t] = passed[t]

LEMMA QueueInit == Init /\ Mutexes = {} => QueueInv
<1> SUFFICES ASSUME Init, Mutexes = {} PROVE QueueInv
  OBVIOUS
<1>1. TypeInv
  BY TypeInit
<1>2. \A p \in Prios : run_queue[p] = q_init
  BY DEF Init
<1>3. \A t : ~Queued(run_queue, t)
  BY <1>2 DEF Queued, InQueue, q_init
<1>4. OnceInAll(run_queue)
  BY <1>2 DEF OnceInAll, Once, InQueue, q_init
<1>5. /\ \A t \in Threads : status[t] = "WAITING" /\ pc[t] \in {"user", "none"}
      /\ current_thread = NULL /\ cpu = "thread"
      /\ threads_finished_counter = 0
  BY DEF Init
<1>6. ThreadPlaces
  BY <1>3, <1>5 DEF ThreadPlaces, Ends
<1>7. Counted
  <2>1. Seen = {}
    BY <1>5 DEF Seen
  <2>2. QED
    BY <1>5, <2>1, FS_EmptySet DEF Counted
<1>8. QED
  BY <1>1, <1>4, <1>6, <1>7 DEF QueueInv

LEMMA NoMutexLabel ==
    ASSUME TypeInv, Mutexes = {}, NEW t \in Threads
    PROVE  pc[t] \notin MutexLabels
  BY DEF TypeInv, WhereThreadsAre, Places

\* A thread on the CPU works by itself: it may end, or enter schedule().
QuietStep(t) ==
    /\ UNCHANGED <<run_queue, thread_id_counter, current_thread,
                   threads_finished_counter, fault>>
    /\ cpu = "thread" /\ OnCpu = t
    /\ cpu' = "thread" \/ (cpu' = "requeue" /\ current_thread # NULL)
    /\ \A u \in Threads \ {t} : status'[u] = status[u] /\ pc'[u] = pc[u]
    /\ status'[t] = "FINISHED" <=> pc'[t] \in Ends
    /\ status'[t] # "BLOCKED"
    /\ status[t] = "FINISHED" => status'[t] = "FINISHED"
    /\ status'[t] = "FINISHED" => current_thread = t

LEMMA StepIsQuiet ==
    ASSUME QueueInv, NEW t \in Threads, Step(t)
    PROVE  QuietStep(t) \/ worker_create \/ PushCreated
<1>1. /\ Mutexes = {} /\ TypeInv
      /\ pc[t] \notin MutexLabels
      /\ status[t] = "FINISHED" <=> pc[t] \in Ends
      /\ status[t] # "BLOCKED"
      /\ status \in [Threads -> Statuses] /\ pc \in [Threads -> Labels]
      /\ pc[Main] \notin Ends
  BY NoMutexLabel
  DEF QueueInv, ThreadPlaces, TypeInv, TypeOK, WhereThreadsAre
<1> USE DEF At, schedVars, tcbVars, Goto, Ends
<1> DEFINE Kept == UNCHANGED <<run_queue, thread_id_counter, current_thread,
                               threads_finished_counter, fault, cpu>>
<1>2. CASE t = Main /\ StartJoin
  <2>1. /\ Kept /\ cpu = "thread" /\ OnCpu = t /\ pc[t] = "user"
        /\ status' = status
        /\ \E k \in {"join", "exited"} : pc' = [pc EXCEPT ![t] = k]
    BY <1>2 DEF StartJoin
  <2>2. QED
    BY <1>1, <2>1 DEF QuietStep
<1>3. CASE t = Main /\ worker_join
  <2>1. /\ Kept /\ cpu = "thread" /\ OnCpu = t /\ pc[t] = "join"
        /\ status' = status \/ status' = [status EXCEPT ![t] = "READY"]
        /\ \E k \in {"join", "exited", "yield_join"} :
              pc' = [pc EXCEPT ![t] = k]
    BY <1>3 DEF worker_join, YieldFrom
  <2>2. QED
    BY <1>1, <2>1 DEF QuietStep
<1>4. ASSUME NEW v \in Values \cup {NULL},
             thread_function_wrapper(t, v) \/ worker_exit(t, v)
      PROVE  QuietStep(t)
  <2>1. current_thread = t /\ t # NULL
    BY <1>4, MainIsThread
    DEF thread_function_wrapper, worker_exit, OnCpu, NULL
  <2>2. CASE thread_function_wrapper(t, v)
    BY <1>1, <2>1, <2>2 DEF thread_function_wrapper, SwapToScheduler, QuietStep
  <2>3. CASE worker_exit(t, v)
    BY <1>1, <2>1, <2>3 DEF worker_exit, QuietStep
  <2>4. QED
    BY <1>4, <2>2, <2>3
<1>5. CASE StoreExitValue(t)
  <2>1. current_thread = t /\ t # NULL
    BY <1>1, <1>5, MainIsThread DEF StoreExitValue, OnCpu, NULL
  <2>2. QED
    BY <1>1, <1>5, <2>1 DEF StoreExitValue, SwapToScheduler, QuietStep
<1>6. CASE worker_yield(t)
  <2>1. /\ Kept /\ cpu = "thread" /\ OnCpu = t /\ pc[t] \in {"user", "cs"}
        /\ \/ UNCHANGED <<status, pc>>
           \/ /\ status' = [status EXCEPT ![t] = "READY"]
              /\ \E k \in {"yield_user", "yield_cs"} :
                    pc' = [pc EXCEPT ![t] = k]
    BY <1>6 DEF worker_yield, YieldFrom
  <2>2. QED
    BY <1>1, <2>1 DEF QuietStep
<1>7. CASE YieldSwap(t)
  <2>1. /\ cpu = "thread" /\ OnCpu = t /\ pc[t] \in DOMAIN YieldReturn
        /\ pc' = [pc EXCEPT ![t] = YieldReturn[pc[t]]]
        /\ cpu' = "requeue"
        /\ UNCHANGED <<status, run_queue, thread_id_counter, current_thread,
                       threads_finished_counter, fault>>
    BY <1>7 DEF YieldSwap, SwapToScheduler
  <2>2. current_thread # NULL
    BY <1>1, <2>1 DEF OnCpu, TypeInv, WhereThreadsAre
  <2>3. pc'[t] \in {"user", "cs", "join"} /\ pc[t] \notin Ends
    BY <1>1, <2>1 DEF YieldReturn
  <2>4. QED
    BY <1>1, <2>1, <2>2, <2>3 DEF QuietStep
<1>8. ASSUME NEW u \in Threads, NEW p \in SetPrios, worker_setschedprio(t, u, p)
      PROVE  QuietStep(t)
  BY <1>1, <1>8 DEF worker_setschedprio, QuietStep
<1>9. ASSUME \/ StoreOwner(t) \/ MarkBlocked(t) \/ Park(t)
             \/ worker_mutex_unlock(t) \/ ClearOwner(t)
             \/ DrainTest(t) \/ DrainOne(t)
      PROVE  FALSE
  <2>1. pc[t] \in MutexLabels
    BY <1>9
    DEF StoreOwner, MarkBlocked, Park, worker_mutex_unlock, ClearOwner,
        DrainTest, DrainOne, MutexLabels, HolderLabels
  <2>2. QED
    BY <1>1, <2>1
<1>10. QED
  BY <1>1, <1>2, <1>3, <1>4, <1>5, <1>6, <1>7, <1>8, <1>9 DEF Step

\* What every step does for the threads: nothing is queued twice, the status
\* and the counter stay right, no end is undone and nothing is lost.
Kept ==
    /\ OnceInAll(run_queue')
    /\ ThreadPlaces'
    /\ Counted'
    /\ \A t \in Threads : status[t] = "FINISHED" => status'[t] = "FINISHED"
    /\ NothingLost => NothingLost'

LEMMA KeptByQuiet ==
    ASSUME QueueInv, NEW t \in Threads, QuietStep(t)
    PROVE  Kept
<1>1. OnceInAll(run_queue')
  BY DEF QueueInv, QuietStep
<1>2. \A u \in Threads : OnBoard(u)' <=> OnBoard(u)
  BY DEF QuietStep, OnBoard
<1>3. \A u \in Threads : Queued(run_queue, u)' <=> Queued(run_queue, u)
  BY DEF QuietStep, Queued, InQueue
<1>4. status'[t] = "FINISHED" => OnBoard(t)
  BY DEF QuietStep, OnBoard
<1>5. ThreadPlaces'
  <2>1. \A u \in Threads : Queued(run_queue, u)
           => Created(u)' /\ status'[u] # "FINISHED" /\ ~OnBoard(u)
    BY <1>4 DEF QueueInv, ThreadPlaces, QuietStep, Created
  <2>2. cpu' # "thread" => Created(Main)'
    <3> SUFFICES ASSUME current_thread # NULL PROVE Created(Main)'
      BY DEF QuietStep
    <3>1. Created(current_thread) /\ current_thread \in Threads
      BY DEF QueueInv, ThreadPlaces, TypeInv, TypeOK
    <3>2. thread_id_counter' > 0
      BY <3>1, MainIsThread, ConstantsAssumption
      DEF QuietStep, Created, Threads, QueueInv, TypeInv, TypeOK
    <3>3. QED
      BY <3>2 DEF Created, Main
  <2>3. QED
    BY <1>2, <1>3, <2>1, <2>2 DEF QueueInv, ThreadPlaces, QuietStep, Created
<1>6. Counted'
  <2>1. \A u \in Threads : status'[u] = "FINISHED" /\ ~OnBoard(u)
                              <=> status[u] = "FINISHED" /\ ~OnBoard(u)
    BY <1>4 DEF QuietStep
  <2>2. Seen' = Seen
    BY <1>2, <2>1 DEF Seen
  <2>3. QED
    BY <2>2 DEF QueueInv, Counted, QuietStep
<1>7. NothingLost => NothingLost'
  BY <1>2, <1>3 DEF NothingLost, QuietStep, NoneStray, Unfinished, Created
<1>8. QED
  BY <1>1, <1>5, <1>6, <1>7 DEF Kept, QuietStep

\* The next thread gets its id and is queued.
LEMMA KeptByNewThread ==
    ASSUME QueueInv, NEW x \in Threads, x = thread_id_counter,
           status[x] # "FINISHED",
           thread_id_counter' = x + 1,
           status' = [status EXCEPT ![x] = "READY"],
           run_queue' = sch_schedule(run_queue, x),
           \A u \in Threads : pc'[u] \in Ends <=> pc[u] \in Ends,
           UNCHANGED <<current_thread, cpu, threads_finished_counter>>
    PROVE  Kept
<1>1. /\ thread_id_counter \in Nat /\ run_queue \in RunQueues
      /\ status \in [Threads -> Statuses]
      /\ TargetQueue(x, priority) \in Prios
      /\ current_thread \in Threads \cup {NULL}
  BY DEF QueueInv, TypeInv, TypeOK, RunQueues, TargetQueue, DEFAULT_PRIO,
         Prios
<1>2. /\ ~Created(x)
      /\ \A u \in Threads : Created(u)' <=> Created(u) \/ u = x
  BY <1>1, MainIsThread DEF Created
<1>3. ~Queued(run_queue, x) /\ ~OnBoard(x) /\ x # current_thread
  BY <1>2, MainIsThread DEF QueueInv, ThreadPlaces, OnBoard, NULL
<1>4. \A u \in Threads : OnBoard(u)' <=> OnBoard(u)
  BY DEF OnBoard
<1>5. /\ OnceInAll(run_queue')
      /\ \A u : Queued(run_queue', u) => Queued(run_queue, u) \/ u = x
      /\ \A u : Queued(run_queue, u) => Queued(run_queue', u)
      /\ NoneStray(run_queue)
            => NoneStray(run_queue') /\ Queued(run_queue', x)
  BY <1>1, <1>3, EnqueuedContents DEF sch_schedule, QueueInv
<1>6. /\ status'[x] = "READY"
      /\ \A u \in Threads \ {x} : status'[u] = status[u]
  BY <1>1
<1>7. \A u \in Threads : status'[u] = "FINISHED" <=> status[u] = "FINISHED"
  BY <1>6
<1>8. ThreadPlaces'
  <2>1. \A u \in Threads : status'[u] = "FINISHED" <=> pc'[u] \in Ends
    BY <1>7 DEF QueueInv, ThreadPlaces
  <2>2. \A u \in Threads : status'[u] # "BLOCKED"
    BY <1>6 DEF QueueInv, ThreadPlaces
  <2>3. ASSUME NEW u \in Threads, Queued(run_queue', u)
        PROVE  Created(u)' /\ status'[u] # "FINISHED" /\ ~OnBoard(u)'
    <3>1. CASE Queued(run_queue, u)
      BY <1>2, <1>4, <1>7, <3>1 DEF QueueInv, ThreadPlaces
    <3>2. CASE u = x
      BY <1>2, <1>3, <1>4, <1>6, <3>2
    <3>3. QED
      BY <1>5, <2>3, <3>1, <3>2
  <2>4. current_thread' # NULL => Created(current_thread)'
    BY <1>1, <1>2 DEF QueueInv, ThreadPlaces
  <2>5. cpu' # "thread" => Created(Main)'
    BY <1>2, MainIsThread DEF QueueInv, ThreadPlaces
  <2>6. QED
    BY <2>1, <2>2, <2>3, <2>4, <2>5 DEF ThreadPlaces
<1>9. Counted'
  <2>1. Seen' = Seen
    BY <1>4, <1>7 DEF Seen
  <2>2. QED
    BY <2>1 DEF QueueInv, Counted
<1>10. NothingLost => NothingLost'
  BY <1>2, <1>4, <1>5, <1>7 DEF NothingLost, Unfinished
<1>11. QED
  BY <1>5, <1>7, <1>8, <1>9, <1>10 DEF Kept

\* The first worker_create queues main.
LEMMA KeptByCreate ==
    ASSUME QueueInv, worker_create
    PROVE  Kept
<1>1. /\ pc[Main] = "user"
      /\ IF thread_id_counter = 0
           THEN /\ thread_id_counter' = 1
                /\ status' = [status EXCEPT ![Main] = "READY"]
                /\ run_queue' = sch_schedule(run_queue, Main)
           ELSE UNCHANGED <<thread_id_counter, status, run_queue>>
      /\ Goto(Main, "user") \/ Goto(Main, "create")
      /\ UNCHANGED <<current_thread, cpu, threads_finished_counter>>
  BY DEF worker_create, At
<1>2. pc \in [Threads -> Labels]
  BY DEF QueueInv, TypeInv, TypeOK
<1>3. \A u \in Threads : pc'[u] \in Ends <=> pc[u] \in Ends
  BY <1>1, <1>2, MainIsThread DEF Goto, Ends
<1>4. CASE thread_id_counter = 0
  <2>1. status[Main] # "FINISHED"
    BY <1>1, MainIsThread DEF QueueInv, ThreadPlaces, Ends
  <2>2. Main = thread_id_counter /\ thread_id_counter' = Main + 1
    BY <1>1, <1>4 DEF Main
  <2>3. QED
    BY <1>1, <1>3, <1>4, <2>1, <2>2, MainIsThread, KeptByNewThread
<1>5. CASE thread_id_counter # 0
  <2>1. UNCHANGED <<thread_id_counter, status, run_queue, current_thread, cpu,
                    threads_finished_counter>>
    BY <1>1, <1>5
  <2>2. \A u \in Threads : OnBoard(u)' <=> OnBoard(u)
    BY <2>1 DEF OnBoard
  <2>3. Seen' = Seen
    BY <2>1, <2>2 DEF Seen
  <2>4. OnceInAll(run_queue') /\ ThreadPlaces' /\ Counted'
    BY <1>3, <2>1, <2>2, <2>3 DEF QueueInv, ThreadPlaces, Counted, Created
  <2>5. NothingLost => NothingLost'
    BY <2>1, <2>2 DEF NothingLost, Unfinished, Created
  <2>6. QED
    BY <2>1, <2>4, <2>5 DEF Kept
<1>6. QED
  BY <1>4, <1>5

LEMMA KeptByPush ==
    ASSUME QueueInv, PushCreated
    PROVE  Kept
<1> DEFINE id == thread_id_counter
<1>1. /\ pc[Main] = "create" /\ thread_id_counter' = id + 1
      /\ status' = [status EXCEPT ![id] = "READY"]
      /\ run_queue' = sch_schedule(run_queue, id)
      /\ pc' = [pc EXCEPT ![Main] = "user", ![id] = "user"]
      /\ UNCHANGED <<current_thread, cpu, threads_finished_counter>>
  BY DEF PushCreated, At
<1>2. id \in Threads /\ id # Main /\ ~Created(id) /\ pc \in [Threads -> Labels]
  BY <1>1, ConstantsAssumption
  DEF QueueInv, TypeInv, TypeOK, WhereThreadsAre, TableFull, Threads, Main,
      Created
<1>3. pc[id] = "none"
  BY <1>2 DEF QueueInv, TypeInv, WhereThreadsAre, Places
<1>4. \A u \in Threads : pc'[u] \in Ends <=> pc[u] \in Ends
  BY <1>1, <1>2, <1>3, MainIsThread DEF Ends
<1>5. status[id] # "FINISHED"
  BY <1>2, <1>3 DEF QueueInv, ThreadPlaces, Ends
<1>6. QED
  BY <1>1, <1>2, <1>4, <1>5, KeptByNewThread

LEMMA KeptByRequeue ==
    ASSUME QueueInv, TypeInv', Requeue
    PROVE  Kept
<1> DEFINE c == current_thread
           s == status[c]
           p == IF Policy = "MLFQ" THEN [priority EXCEPT ![c] = LowerPrio(@)]
                                   ELSE priority
           q == TargetQueue(c, p)
<1>1. /\ cpu = "requeue" /\ cpu' \in {"dispatch", "counted"}
      /\ threads_finished_counter' = FinishedAfter(s)
      /\ UNCHANGED <<pc, thread_id_counter>>
      /\ \/ /\ MayContinue(s)
            /\ status' = [status EXCEPT ![c] = "READY"]
            /\ priority' = p
            /\ run_queue' = Enqueued(run_queue, q, c)
            /\ UNCHANGED current_thread
         \/ /\ s \in {"BLOCKED", "FINISHED"}
            /\ current_thread' \in {c, NULL}
            /\ UNCHANGED <<status, run_queue>>
  BY DEF Requeue, clientVars
<1>2. /\ c \in Threads /\ c # NULL /\ Created(c)
      /\ \A t \in Threads : OnBoard(t) <=> t = c
      /\ ~Queued(run_queue, c)
      /\ status \in [Threads -> Statuses] /\ run_queue \in RunQueues
  BY <1>1
  DEF QueueInv, TypeInv, TypeOK, WhereThreadsAre, ThreadPlaces, OnBoard,
      RunQueues
<1>3. \A t \in Threads : ~OnBoard(t)'
  BY <1>1 DEF OnBoard
<1>4. Created(Main)'
  BY <1>1 DEF QueueInv, ThreadPlaces, Created
<1>5. CASE MayContinue(s) /\ run_queue' = Enqueued(run_queue, q, c)
           /\ status' = [status EXCEPT ![c] = "READY"]
           /\ priority' = p /\ UNCHANGED current_thread
  <2>1. q \in Prios
    <3>1. p \in [Threads -> Prios]
      BY <1>5 DEF TypeInv, TypeOK
    <3>2. QED
      BY <1>2, <3>1 DEF TargetQueue, DEFAULT_PRIO, Prios
  <2> HIDE DEF q, p
  <2>2. /\ OnceInAll(run_queue')
        /\ \A u : Queued(run_queue', u) => Queued(run_queue, u) \/ u = c
        /\ \A u : Queued(run_queue, u) => Queued(run_queue', u)
        /\ NoneStray(run_queue)
              => NoneStray(run_queue') /\ Queued(run_queue', c)
    BY <1>2, <1>5, <2>1, EnqueuedContents DEF QueueInv
  <2>3. /\ s \in {"RUNNING", "READY"} /\ status'[c] = "READY"
        /\ \A t \in Threads \ {c} : status'[t] = status[t]
    BY <1>2, <1>5 DEF MayContinue
  <2>4. \A t \in Threads : status'[t] = "FINISHED" <=> status[t] = "FINISHED"
    BY <2>3
  <2>5. ThreadPlaces'
    BY <1>1, <1>2, <1>3, <1>4, <1>5, <2>2, <2>3, <2>4
    DEF QueueInv, ThreadPlaces, Created
  <2>6. Counted'
    <3>1. Seen' = Seen
      BY <1>2, <1>3, <2>3, <2>4 DEF Seen
    <3>2. threads_finished_counter' = threads_finished_counter
      BY <1>1, <2>3 DEF FinishedAfter, QueueInv, TypeInv, TypeOK
    <3>3. QED
      BY <3>1, <3>2 DEF QueueInv, Counted
  <2>7. NothingLost => NothingLost'
    BY <1>1, <1>2, <2>2, <2>4 DEF NothingLost, Unfinished, Created
  <2>8. QED
    BY <2>2, <2>4, <2>5, <2>6, <2>7 DEF Kept
<1>6. CASE s \in {"BLOCKED", "FINISHED"} /\ current_thread' \in {c, NULL}
           /\ UNCHANGED <<status, run_queue>>
  <2>1. s = "FINISHED"
    BY <1>2, <1>6 DEF QueueInv, ThreadPlaces
  <2>2. ThreadPlaces'
    <3>1. \A t : Queued(run_queue', t) <=> Queued(run_queue, t)
      BY <1>6
    <3>2. QED
      BY <1>1, <1>2, <1>3, <1>4, <1>6, <3>1
      DEF QueueInv, ThreadPlaces, Created
  <2>3. Counted'
    <3>1. Seen' = Seen \cup {c} /\ c \notin Seen
      BY <1>2, <1>3, <1>6, <2>1 DEF Seen
    <3>2. /\ Cardinality(Seen) \in Nat
          /\ Cardinality(Seen') = Cardinality(Seen) + 1
      BY <3>1, SeenFinite, FS_AddElement, FS_CardinalityType
    <3>3. threads_finished_counter' = threads_finished_counter + 1
      BY <1>1, <2>1 DEF FinishedAfter
    <3>4. threads_finished_counter \in Nat
      BY DEF QueueInv, TypeInv, TypeOK
    <3>5. QED
      BY <3>2, <3>3, <3>4 DEF QueueInv, Counted
  <2>4. NothingLost => NothingLost'
    BY <1>1, <1>2, <1>6, <2>1
    DEF NothingLost, Unfinished, Created, NoneStray
  <2>5. QED
    BY <1>6, <2>2, <2>3, <2>4 DEF Kept, QueueInv
<1>7. QED
  BY <1>1, <1>5, <1>6

LEMMA KeptByForget ==
    ASSUME QueueInv, Forget
    PROVE  Kept
<1>1. /\ cpu = "counted" /\ cpu' = "dispatch" /\ current_thread' = NULL
      /\ UNCHANGED <<status, pc, run_queue, thread_id_counter,
                     threads_finished_counter>>
  BY DEF Forget, tcbVars, clientVars
<1>2. \A t \in Threads : ~OnBoard(t) /\ ~OnBoard(t)'
  BY <1>1 DEF OnBoard
<1>3. Seen' = Seen
  BY <1>1, <1>2 DEF Seen
<1>4. ThreadPlaces' /\ Counted' /\ (NothingLost => NothingLost')
  BY <1>1, <1>2, <1>3
  DEF QueueInv, ThreadPlaces, Counted, NothingLost, Unfinished, Created
<1>5. QED
  BY <1>1, <1>4 DEF Kept, QueueInv

\* Every policy takes its thread out of one queue.
LEMMA ChosenContents ==
    ASSUME TypeInv, ~rq_is_all_empty
    PROVE  /\ TakenFrom(run_queue[Chosen.p], Chosen.taken)
           /\ Policy = "MLFQ" /\ ~run_queue[Chosen.p].stray
                => ~Chosen.taken.queue.stray
<1>1. run_queue \in [Prios -> QueueOf(Threads)]
  BY DEF TypeInv, TypeOK
<1>2. CASE Policy = "MLFQ"
  <2>1. Chosen = sched_mlfq
    BY <1>2 DEF Chosen
  <2>2. QED
    BY <1>1, <1>2, <2>1, HighestExists, DequeueContents DEF sched_mlfq
<1>3. CASE Policy # "MLFQ"
  <2>1. quantums_elapsed \in Keys(Threads, INT_MIN)
    BY QuantumsType DEF TypeInv, TypeOK
  <2>2. DEFAULT_PRIO \in Prios /\ ~q_is_empty(run_queue[DEFAULT_PRIO])
    BY <1>3 DEF TypeInv, WhereThreadsAre, rq_is_all_empty, DEFAULT_PRIO, Prios
  <2>3. Chosen = [p |-> DEFAULT_PRIO,
                  taken |-> q_dequeue_shortest_runtime(run_queue[DEFAULT_PRIO],
                                                       quantums_elapsed)]
    BY <1>3, ConstantsAssumption
    DEF Chosen, sched_psjf, sched_matrix, q_dequeue_longest_runtime
  <2>4. QED
    BY <1>1, <1>3, <2>1, <2>2, <2>3, ShortestContents, QuantumsType
<1>4. QED
  BY <1>2, <1>3

LEMMA KeptByDispatch ==
    ASSUME QueueInv, Dispatch
    PROVE  Kept /\ fault' = fault /\ pc' = pc
<1> DEFINE ch == Chosen
           t  == ch.taken.thread
<1>1. ~rq_is_all_empty
  BY DEF Dispatch
<1>2. /\ ch.p \in Prios /\ t \in Threads
      /\ TakenFrom(run_queue[ch.p], ch.taken)
      /\ Policy = "MLFQ" /\ ~run_queue[ch.p].stray => ~ch.taken.queue.stray
  BY <1>1, ChosenType, ChosenContents DEF QueueInv
<1>3. /\ cpu = "dispatch" /\ cpu' = "thread"
      /\ run_queue' = [run_queue EXCEPT ![ch.p] = ch.taken.queue]
      /\ current_thread' = t
      /\ status' = [status EXCEPT ![t] = "RUNNING"]
      /\ Goto(t, Resumed(pc[t]))
      /\ fault' = IF pc[t] = "done" THEN "stale_context" ELSE fault
      /\ UNCHANGED <<thread_id_counter, threads_finished_counter>>
  BY DEF Dispatch
<1> HIDE DEF ch
<1>4. /\ pc \in [Threads -> Labels] /\ status \in [Threads -> Statuses]
      /\ run_queue \in RunQueues
  BY DEF QueueInv, TypeInv, TypeOK, RunQueues
<1>5. /\ Queued(run_queue, t)
      /\ \A u : Queued(run_queue', u) => Queued(run_queue, u)
      /\ \A u : Queued(run_queue, u) /\ u # t => Queued(run_queue', u)
      /\ OnceInAll(run_queue') /\ ~Queued(run_queue', t)
  BY <1>2, <1>3, <1>4, TakenContents DEF QueueInv
<1>6. Created(t) /\ status[t] # "FINISHED" /\ pc[t] # "done" /\ pc' = pc
  BY <1>2, <1>3, <1>4, <1>5
  DEF QueueInv, ThreadPlaces, Ends, Goto, Resumed
<1>7. /\ status'[t] = "RUNNING"
      /\ \A u \in Threads \ {t} : status'[u] = status[u]
      /\ \A u \in Threads : ~OnBoard(u) /\ (OnBoard(u)' <=> u = t)
  BY <1>2, <1>3, <1>4 DEF OnBoard
<1>8. \A u \in Threads : status'[u] = "FINISHED" <=> status[u] = "FINISHED"
  BY <1>6, <1>7
<1> HIDE DEF t
<1>9. ThreadPlaces'
  BY <1>2, <1>3, <1>5, <1>6, <1>7, <1>8 DEF QueueInv, ThreadPlaces, Created
<1>10. Counted'
  <2>1. Seen' = Seen
    BY <1>2, <1>6, <1>7, <1>8 DEF Seen
  <2>2. QED
    BY <1>3, <2>1 DEF QueueInv, Counted
<1>11. NothingLost => NothingLost'
  <2> SUFFICES ASSUME NothingLost PROVE NothingLost'
    OBVIOUS
  <2>1. NoneStray(run_queue')
    BY <1>2, <1>3, <1>4 DEF NothingLost, NoneStray, RunQueues
  <2>2. QED
    BY <1>2, <1>3, <1>5, <1>7, <1>8, <2>1 DEF NothingLost, Unfinished, Created
<1>12. QED
  BY <1>3, <1>5, <1>6, <1>8, <1>9, <1>10, <1>11 DEF Kept

\* A tick behind the count brings a finished thread back for a moment.
LEMMA KeptByTick ==
    ASSUME QueueInv,
           \/ \E t \in Threads : timer_schedule_handler(t)
           \/ TickInScheduler
    PROVE  Kept
<1>1. /\ RefreshLow
      /\ UNCHANGED <<status, thread_id_counter, current_thread,
                     threads_finished_counter>>
  BY DEF timer_schedule_handler, TickInScheduler, clientVars
<1>2. run_queue \in RunQueues
  BY DEF QueueInv, TypeInv, TypeOK, RunQueues
<1>3. /\ OnceInAll(run_queue')
      /\ \A u : Queued(run_queue', u) <=> Queued(run_queue, u)
      /\ NoneStray(run_queue) => NoneStray(run_queue')
  <2>1. run_queue' = run_queue \/ run_queue' = Refreshed(run_queue)
    BY <1>1 DEF RefreshLow
  <2>2. QED
    BY <1>2, <2>1, RefreshedContents DEF QueueInv
<1>4. CASE (\E t \in Threads : timer_schedule_handler(t))
             \/ IdleTick \/ TickWhileRequeued
  <2>1. /\ UNCHANGED pc
        /\ \/ cpu' = cpu
           \/ /\ cpu = "thread" /\ thread_id_counter > 0
              /\ cpu' = IF current_thread = NULL THEN "dispatch" ELSE "requeue"
    BY <1>4
    DEF timer_schedule_handler, IdleTick, TickWhileRequeued, clientVars
  <2>2. \A t \in Threads : OnBoard(t)' <=> OnBoard(t)
    BY <1>1, <2>1, MainIsThread DEF OnBoard, NULL
  <2>3. ThreadPlaces'
    BY <1>1, <1>3, <2>1, <2>2 DEF QueueInv, ThreadPlaces, Created, Main
  <2>4. Seen' = Seen
    BY <1>1, <2>2 DEF Seen
  <2>5. Counted'
    BY <1>1, <2>4 DEF QueueInv, Counted
  <2>6. NothingLost => NothingLost'
    BY <1>1, <1>3, <2>2 DEF NothingLost, Unfinished, Created
  <2>7. QED
    BY <1>1, <1>3, <2>3, <2>5, <2>6 DEF Kept
<1>5. CASE TickWhileFinished
  <2> DEFINE c == current_thread
  <2>1. /\ LibraryTicks /\ cpu \in {"requeue", "counted"} /\ cpu' = "requeue"
        /\ status[c] = "FINISHED" /\ Goto(c, "done")
    BY <1>5 DEF TickWhileFinished
  <2>2. /\ c \in Threads /\ pc[c] \in Ends /\ ~Queued(run_queue, c)
        /\ pc \in [Threads -> Labels]
    BY <2>1 DEF QueueInv, ThreadPlaces, TypeInv, TypeOK, WhereThreadsAre
  <2>3. \A u \in Threads : pc'[u] \in Ends <=> pc[u] \in Ends
    BY <2>1, <2>2 DEF Goto, Ends
  <2>4. \A u \in Threads : /\ OnBoard(u)' <=> u = c
                           /\ OnBoard(u) => u = c
    BY <1>1, <2>1 DEF OnBoard
  <2>5. ThreadPlaces'
    BY <1>1, <1>3, <2>1, <2>2, <2>3, <2>4
    DEF QueueInv, ThreadPlaces, Created
  <2>6. Counted'
    <3>1. Seen' \subseteq Seen
      BY <1>1, <2>4 DEF Seen
    <3>2. /\ Cardinality(Seen') <= Cardinality(Seen)
          /\ Cardinality(Seen') \in Nat /\ Cardinality(Seen) \in Nat
      BY <3>1, SeenFinite, FS_Subset, FS_CardinalityType
    <3>3. threads_finished_counter \in Nat
      BY DEF QueueInv, TypeInv, TypeOK
    <3>4. QED
      BY <1>1, <2>1, <3>2, <3>3 DEF QueueInv, Counted
  <2>7. NothingLost => NothingLost'
    BY <1>1, <1>3, <2>1, <2>4 DEF NothingLost, Unfinished, Created
  <2>8. QED
    BY <1>1, <1>3, <2>5, <2>6, <2>7 DEF Kept
<1>6. QED
  BY <1>4, <1>5 DEF TickInScheduler

LEMMA KeptByNothing == QueueInv /\ UNCHANGED vars => Kept
<1> SUFFICES ASSUME QueueInv, UNCHANGED vars PROVE Kept
  OBVIOUS
<1>1. /\ UNCHANGED <<status, thread_id_counter, current_thread, pc, cpu,
                     run_queue, threads_finished_counter>>
  BY DEF vars, tcbVars, schedVars, clientVars
<1>2. \A t : OnBoard(t)' <=> OnBoard(t)
  BY <1>1 DEF OnBoard
<1>3. Seen' = Seen
  BY <1>1, <1>2 DEF Seen
<1>4. ThreadPlaces' /\ Counted' /\ (NothingLost => NothingLost')
  BY <1>1, <1>2, <1>3
  DEF QueueInv, ThreadPlaces, Counted, NothingLost, Unfinished, Created
<1>5. QED
  BY <1>1, <1>4 DEF Kept, QueueInv

LEMMA KeptByNext == QueueInv /\ [Next]_vars => Kept
<1> SUFFICES ASSUME QueueInv, [Next]_vars PROVE Kept
  OBVIOUS
<1>1. TypeInv'
  BY TypeNext DEF QueueInv
<1>2. ASSUME NEW t \in Threads, Step(t)
      PROVE  Kept
  BY <1>2, StepIsQuiet, KeptByQuiet, KeptByCreate, KeptByPush
<1>3. QED
  BY <1>1, <1>2, KeptByTick, KeptByRequeue, KeptByForget, KeptByDispatch,
     KeptByNothing
  DEF Next, Ended

LEMMA QueueNext == QueueInv /\ [Next]_vars => QueueInv'
<1> SUFFICES ASSUME QueueInv, [Next]_vars PROVE QueueInv'
  OBVIOUS
<1>1. Kept
  BY KeptByNext
<1>2. OnceInAll(run_queue)' /\ ThreadPlaces' /\ Counted'
  BY <1>1 DEF Kept
<1>3. TypeInv'
  BY TypeNext DEF QueueInv
<1>4. QED
  BY <1>2, <1>3 DEF QueueInv

\* Under every policy and with ticks anywhere, a thread waits in the run
\* queues at most once, and not while it has the CPU or after its end.
THEOREM ThreadQueuedOnce == Mutexes = {} /\ Spec => []NoDuplicate
<1>1. ASSUME QueueInv PROVE NoDuplicate
  <2> SUFFICES ASSUME NEW t \in Threads
               PROVE  InRunQueue(t)
                         <= (IF Unfinished(t) /\ ~OnBoard(t) THEN 1 ELSE 0)
    BY DEF NoDuplicate
  <2>1. \A p \in Prios :
           Count(run_queue[p], t) = IF InQueue(run_queue[p], t) THEN 1 ELSE 0
    BY <1>1, CountOnce DEF QueueInv, OnceInAll, TypeInv, TypeOK
  <2>2. \A p, r \in Prios : InQueue(run_queue[p], t)
                              /\ InQueue(run_queue[r], t) => p = r
    BY <1>1 DEF QueueInv, OnceInAll
  <2>3. \A p \in Prios : InQueue(run_queue[p], t)
                           => Unfinished(t) /\ ~OnBoard(t)
    BY <1>1 DEF QueueInv, ThreadPlaces, Queued, Unfinished
  <2>4. 0 \in Prios /\ 1 \in Prios /\ 2 \in Prios /\ 3 \in Prios
    BY DEF Prios
  <2>5. QED
    BY <2>1, <2>2, <2>3, <2>4 DEF InRunQueue
<1>2. QED
  BY <1>1, QueueInit, QueueNext, PTL DEF Spec

\* The divisor of the averages of calc_and_update_stats counts each finished
\* thread once, under every policy, if no quantum ends inside the library.
THEOREM FinishedThreadsCounted ==
    Mutexes = {} /\ ~LibraryTicks /\ Spec => []FinishedCounted
<1> DEFINE Inv == QueueInv /\ ~LibraryTicks
<1>1. Mutexes = {} /\ ~LibraryTicks /\ Init => Inv
  BY QueueInit
<1>2. Inv /\ [Next]_vars => Inv'
  BY QueueNext
<1>3. Inv => FinishedCounted
  BY DEF QueueInv, Counted, FinishedCounted, Seen
<1>4. QED
  BY <1>1, <1>2, <1>3, PTL DEF Spec

\* Every finished thread that schedule() has seen is in the count.
NoneMissed == threads_finished_counter >= Cardinality(Seen)

\* With ticks anywhere, one between the count and current_thread = NULL lets
\* schedule() count a thread again; it still misses none.
THEOREM FinishedThreadsNotMissed == Mutexes = {} /\ Spec => []NoneMissed
<1>1. QueueInv => NoneMissed
  BY DEF QueueInv, Counted, NoneMissed
<1>2. QED
  BY <1>1, QueueInit, QueueNext, PTL DEF Spec

\* No step makes a finished thread ready or running again.
THEOREM FinishedStaysFinished == Mutexes = {} /\ Spec => FinishedIsFinal
<1>1. QueueInv /\ [Next]_vars
         => [\A t \in Threads :
               status[t] = "FINISHED" => status'[t] = "FINISHED"]_vars
  BY KeptByNext DEF Kept
<1>2. QED
  BY <1>1, QueueInit, QueueNext, PTL DEF Spec, FinishedIsFinal

LEMMA LostInit == Init /\ Policy = "MLFQ" => NothingLost
<1> SUFFICES ASSUME Init, Policy = "MLFQ" PROVE NothingLost
  OBVIOUS
<1>1. \A t \in Threads : ~Created(t)
  BY MainIsThread DEF Init, Created
<1>2. QED
  BY <1>1 DEF Init, NothingLost, NoneStray, q_init, Unfinished

LEMMA LostNext ==
    QueueInv /\ NothingLost /\ [Next]_vars => QueueInv' /\ NothingLost'
  BY QueueNext, KeptByNext DEF Kept

\* Under MLFQ no path of schedule(), of the handler or of the queue functions
\* drops a thread: the refresh moves every thread of the LOW queue and
\* q_dequeue leaves the tail where appending works.
THEOREM NoThreadLost ==
    Mutexes = {} /\ Policy = "MLFQ" /\ Spec => []NoLostThread
<1>1. ASSUME QueueInv, NothingLost PROVE NoLostThread
  <2> SUFFICES ASSUME NEW t \in Threads, Queued(run_queue, t)
               PROVE  InRunQueue(t) > 0
    BY <1>1 DEF NoLostThread, NothingLost
  <2>1. \A p \in Prios :
           Count(run_queue[p], t) = IF InQueue(run_queue[p], t) THEN 1 ELSE 0
    BY <1>1, CountOnce DEF QueueInv, OnceInAll, TypeInv, TypeOK
  <2>2. Prios = {0, 1, 2, 3}
    BY DEF Prios
  <2>3. QED
    BY <2>1, <2>2 DEF InRunQueue, Queued
<1>2. QED
  BY <1>1, QueueInit, LostInit, LostNext, PTL DEF Spec

-----------------------------------------------------------------------------
(***************************************************************************)
(* Main is not lost, under PSJF and MATRIX either                          *)
(***************************************************************************)
DefaultQueue == run_queue[DEFAULT_PRIO]

\* With QueueInv, the inductive invariant under PSJF and MATRIX. Before the
\* first tick no quantum has been charged to a thread but main.
MainStays ==
    /\ Policy # "MLFQ"
    /\ \A t \in Threads : -1 <= quantums_elapsed[t]
    /\ Created(Main) => OnBoard(Main) \/ InQueue(DefaultQueue, Main)
    /\ Ordered(DefaultQueue.items, quantums_elapsed)
    /\ StrayBehindMain(DefaultQueue)
    /\ current_thread # NULL /\ cpu # "dispatch"
       /\ status[current_thread] # "FINISHED"
          => /\ quantums_elapsed[current_thread] < MaxQuantums
             /\ Least(current_thread, DefaultQueue.items, quantums_elapsed)
    /\ \A t \in Threads \ {Main} :
          ~Created(t) \/ (current_thread = NULL /\ cpu = "thread")
             => quantums_elapsed[t] = 0

\* What malloc left in main's quantums_elapsed is at least -1. No less would
\* do: from -2 on main can be put last by schedule() with fewer quanta than
\* the others. Taken from there it leaves the tail behind it and is lost the
\* next time.
MainStartsAbove == \A q \in MainQuantums : -1 <= q

LEMMA MainInit ==
    Init /\ Policy # "MLFQ" /\ MainStartsAbove => MainStays
<1> SUFFICES ASSUME Init, Policy # "MLFQ", MainStartsAbove PROVE MainStays
  OBVIOUS
<1>1. DefaultQueue = [items |-> <<>>, stray |-> FALSE]
  BY DEF Init, DefaultQueue, DEFAULT_PRIO, Prios, q_init
<1>2. ~Created(Main) /\ current_thread = NULL
  BY DEF Init, Created, Main
<1>3. /\ \A t \in Threads \ {Main} : quantums_elapsed[t] = 0
      /\ \A t \in Threads : -1 <= quantums_elapsed[t]
  BY DEF Init, MainStartsAbove
<1>4. Ordered(DefaultQueue.items, quantums_elapsed)
  BY <1>1 DEF Ordered
<1>5. QED
  BY <1>1, <1>2, <1>3, <1>4 DEF MainStays, StrayBehindMain

\* What QueueInv says of the queue of PSJF and MATRIX.
LEMMA DefaultQueueTypes ==
    ASSUME QueueInv
    PROVE  /\ DefaultQueue \in QueueOf(Threads)
           /\ DEFAULT_PRIO \in Prios /\ run_queue \in RunQueues
           /\ quantums_elapsed \in [Threads -> Int]
           /\ quantums_elapsed \in Keys(Threads, INT_MIN)
           /\ Once(DefaultQueue)
           /\ \A j \in 1..Len(DefaultQueue.items) :
                 DefaultQueue.items[j] \in Threads
           /\ \A t \in Threads : InQueue(DefaultQueue, t)
                 => Created(t) /\ status[t] # "FINISHED" /\ ~OnBoard(t)
<1>1. DEFAULT_PRIO \in Prios
  BY DEF DEFAULT_PRIO, Prios
<1>2. run_queue \in RunQueues /\ DefaultQueue \in QueueOf(Threads)
  BY <1>1 DEF QueueInv, TypeInv, TypeOK, RunQueues, DefaultQueue
<1>3. quantums_elapsed \in Keys(Threads, INT_MIN)
  BY QuantumsType DEF QueueInv, TypeInv, TypeOK
<1>4. quantums_elapsed \in [Threads -> Int]
  BY <1>3 DEF Keys
<1>5. Once(DefaultQueue)
  BY <1>1 DEF QueueInv, OnceInAll, DefaultQueue
<1>6. \A j \in 1..Len(DefaultQueue.items) : DefaultQueue.items[j] \in Threads
  BY <1>2, ElementOfSeq DEF QueueOf
<1>7. \A t \in Threads : InQueue(DefaultQueue, t)
         => Created(t) /\ status[t] # "FINISHED" /\ ~OnBoard(t)
  BY <1>1 DEF QueueInv, ThreadPlaces, Queued, DefaultQueue
<1>8. QED
  BY <1>1, <1>2, <1>3, <1>4, <1>5, <1>6, <1>7

\* Main does not end.
LEMMA MainUnfinished == QueueInv => status[Main] # "FINISHED"
  BY MainIsThread DEF QueueInv, ThreadPlaces, TypeInv, WhereThreadsAre

\* No quantum is charged but in schedule().
LEMMA StepCharges ==
    ASSUME NEW t \in Threads, Step(t)
    PROVE  quantums_elapsed' = quantums_elapsed
  BY DEF Step, worker_create, PushCreated, StartJoin, worker_join,
         thread_function_wrapper, worker_exit, StoreExitValue, worker_yield,
         YieldFrom, YieldSwap, worker_setschedprio, worker_mutex_lock,
         StoreOwner, MarkBlocked, Park, worker_mutex_unlock, ClearOwner,
         DrainTest, DrainOne, tcbVars

LEMMA MainQuiet ==
    ASSUME QueueInv, MainStays, NEW t \in Threads, QuietStep(t),
           quantums_elapsed' = quantums_elapsed
    PROVE  MainStays'
<1>1. /\ UNCHANGED <<run_queue, thread_id_counter, current_thread>>
      /\ cpu = "thread" /\ cpu' \in {"thread", "requeue"}
      /\ cpu' = "requeue" => current_thread # NULL
      /\ \A u \in Threads : status[u] = "FINISHED" => status'[u] = "FINISHED"
  BY DEF QuietStep
<1>2. DefaultQueue' = DefaultQueue /\ (OnBoard(Main)' <=> OnBoard(Main))
  BY <1>1 DEF DefaultQueue, OnBoard
<1>3. current_thread # NULL => current_thread \in Threads
  BY DEF QueueInv, TypeInv, TypeOK
<1>4. QED
  BY <1>1, <1>2, <1>3 DEF MainStays, Created

\* Where the keys of the queued threads stay, their order does.
LEMMA OrderedBySameKeys ==
    ASSUME NEW s, NEW key, NEW new, Len(s) \in Nat, Ordered(s, key),
           \A j \in 1..Len(s) : new[s[j]] = key[s[j]]
    PROVE  Ordered(s, new)
<1> SUFFICES ASSUME NEW k \in 1..Len(s), s[k] = Main PROVE Ordered(s, new)
  BY DEF Ordered
<1>1. new[Main] = key[Main]
  OBVIOUS
<1>2. /\ \A m \in 1..Len(s) : \A i \in 1..(m - 1) : i \in 1..Len(s)
      /\ \A m \in 1..Len(s) : \A i \in (m + 1)..Len(s) : i \in 1..Len(s)
  OBVIOUS
<1>3. QED
  BY <1>1, <1>2 DEF Ordered

\* A finished thread that a tick makes schedule() charge again is not queued.
LEMMA MainTick ==
    ASSUME QueueInv, MainStays,
           (\E t \in Threads : timer_schedule_handler(t)) \/ TickInScheduler
    PROVE  MainStays'
<1>1. /\ RefreshLow
      /\ UNCHANGED <<thread_id_counter, current_thread, status>>
  BY DEF timer_schedule_handler, TickInScheduler
<1>2. run_queue' = run_queue /\ DefaultQueue' = DefaultQueue
  BY <1>1 DEF RefreshLow, RefreshDue, MainStays, DefaultQueue
<1>3. CASE (\E t \in Threads : timer_schedule_handler(t))
             \/ IdleTick \/ TickWhileRequeued
  <2>1. /\ UNCHANGED quantums_elapsed
        /\ \/ cpu' = cpu
           \/ /\ cpu = "thread"
              /\ cpu' = IF current_thread = NULL THEN "dispatch"
                                                 ELSE "requeue"
    BY <1>3 DEF timer_schedule_handler, IdleTick, TickWhileRequeued
  <2>2. OnBoard(Main)' <=> OnBoard(Main)
    BY <1>1, <2>1, MainIsThread DEF OnBoard, NULL
  <2>3. QED
    BY <1>1, <1>2, <2>1, <2>2 DEF MainStays, Created
<1>4. CASE TickWhileFinished
  <2> DEFINE c   == current_thread
             q   == DefaultQueue
             key == quantums_elapsed
             new == quantums_elapsed'
  <2>1. /\ cpu \in {"requeue", "counted"} /\ cpu' = "requeue"
        /\ status[c] = "FINISHED"
        /\ new = key \/ new = [key EXCEPT ![c] = Elapsed(@)]
    BY <1>4 DEF TickWhileFinished, ChargeQuantum
  <2>2. c \in Threads /\ c # NULL /\ Created(c) /\ c # Main
    BY <2>1, MainUnfinished
    DEF QueueInv, TypeInv, TypeOK, WhereThreadsAre, ThreadPlaces
  <2>3. /\ key \in [Threads -> Int] /\ Len(q.items) \in Nat
        /\ \A j \in 1..Len(q.items) : q.items[j] \in Threads \ {c}
    BY <2>1, DefaultQueueTypes, LenProperties DEF InQueue, QueueOf
  <2>4. /\ \A t \in Threads \ {c} : new[t] = key[t]
        /\ -1 <= new[c]
    BY <2>1, <2>2, <2>3 DEF MainStays, Elapsed
  <2> HIDE DEF new, key, q, c
  <2>5. Ordered(q.items, new)
    BY <2>3, <2>4, OrderedBySameKeys DEF MainStays, q, key
  <2>6. ~OnBoard(Main) /\ ~OnBoard(Main)'
    BY <1>1, <2>2 DEF OnBoard, c
  <2>7. Created(Main)' => InQueue(q, Main)
    BY <1>1, <2>6 DEF MainStays, Created, q
  <2>8. \A t \in Threads : -1 <= new[t]
    BY <2>4 DEF MainStays, key
  <2>9. \A t \in Threads \ {Main} : ~Created(t)' => new[t] = 0
    BY <1>1, <2>2, <2>4 DEF MainStays, Created, key
  <2>10. QED
    BY <1>1, <1>2, <2>1, <2>2, <2>5, <2>7, <2>8, <2>9
    DEF MainStays, q, new, c
<1>5. QED
  BY <1>3, <1>4 DEF TickInScheduler

\* The first worker_create queues main, alone.
LEMMA MainCreate ==
    ASSUME QueueInv, MainStays, worker_create
    PROVE  MainStays'
<1> DEFINE q   == DefaultQueue
           key == quantums_elapsed
<1>1. /\ IF thread_id_counter = 0
           THEN /\ thread_id_counter' = 1
                /\ status' = [status EXCEPT ![Main] = "READY"]
                /\ run_queue' = sch_schedule(run_queue, Main)
           ELSE UNCHANGED <<thread_id_counter, status, run_queue>>
      /\ UNCHANGED <<current_thread, cpu, quantums_elapsed>>
  BY DEF worker_create
<1>2. CASE thread_id_counter # 0
  <2>1. UNCHANGED <<run_queue, thread_id_counter, current_thread, cpu, status,
                    quantums_elapsed>>
    BY <1>1, <1>2
  <2>2. DefaultQueue' = DefaultQueue /\ (OnBoard(Main)' <=> OnBoard(Main))
    BY <2>1 DEF DefaultQueue, OnBoard
  <2>3. QED
    BY <2>1, <2>2 DEF MainStays, Created
<1>3. CASE thread_id_counter = 0
  <2>1. \A t \in Threads : ~Created(t)
    BY <1>3, MainIsThread DEF Created
  <2>2. current_thread = NULL /\ key \in [Threads -> Int]
    BY <2>1, DefaultQueueTypes DEF QueueInv, TypeInv, TypeOK, ThreadPlaces
  <2>3. \A j \in 1..Len(q.items) : FALSE
    BY <2>1, DefaultQueueTypes DEF InQueue
  <2>4. ~q.stray
    <3>1. q.items \in Seq(Threads) /\ Len(q.items) \in Nat
      BY DefaultQueueTypes, LenProperties DEF QueueOf
    <3>2. Len(q.items) = 0
      BY <2>3, <3>1
    <3>3. q.items = <<>>
      BY <3>1, <3>2, EmptySeq
    <3>4. QED
      BY <3>3 DEF MainStays, StrayBehindMain
  <2>5. DefaultQueue' = q_enqueue(q, Main)
    BY <1>1, <1>3, MainIsThread, DefaultQueueTypes, EnqueuedType
    DEF sch_schedule, TargetQueue, DefaultQueue, MainStays
  <2>6. Ordered(q_enqueue(q, Main).items, key)
          /\ StrayBehindMain(q_enqueue(q, Main))
    BY <2>2, <2>3, MainIsThread, DefaultQueueTypes, EnqueueOrdered
    DEF MainStays
  <2>7. InQueue(q_enqueue(q, Main), Main)
    BY <2>4, MainIsThread, DefaultQueueTypes, EnqueueContents
  <2>8. QED
    BY <1>1, <2>1, <2>2, <2>5, <2>6, <2>7 DEF MainStays
<1>4. QED
  BY <1>2, <1>3

\* A new thread has no quanta. It is queued behind main before the first tick,
\* when the others have none, or while main is on the CPU.
LEMMA MainPush ==
    ASSUME QueueInv, MainStays, PushCreated
    PROVE  MainStays'
<1> DEFINE id  == thread_id_counter
           q   == DefaultQueue
           s   == q.items
           key == quantums_elapsed
<1>1. /\ cpu = "thread" /\ OnCpu = Main /\ pc[Main] = "create"
      /\ thread_id_counter' = id + 1
      /\ run_queue' = sch_schedule(run_queue, id)
      /\ UNCHANGED <<current_thread, cpu, quantums_elapsed>>
  BY DEF PushCreated, At
<1>2. /\ id \in Threads /\ id # Main /\ ~Created(id) /\ Created(Main)
      /\ id \in Nat
  BY <1>1, ConstantsAssumption
  DEF QueueInv, TypeInv, TypeOK, WhereThreadsAre, TableFull, Threads, Main,
      Created
<1>3. /\ key \in [Threads -> Int] /\ q \in QueueOf(Threads) /\ Len(s) \in Nat
      /\ \A j \in 1..Len(s) : s[j] \in Threads /\ -1 <= key[s[j]]
      /\ -1 <= key[Main] /\ Once(q)
  BY DefaultQueueTypes, LenProperties, MainIsThread DEF QueueOf, MainStays
<1>4. key[id] = 0
  BY <1>2 DEF MainStays
<1>5. current_thread = NULL \/ current_thread = Main
  BY <1>1 DEF OnCpu
<1>6. DefaultQueue' = q_enqueue(q, id)
  BY <1>1, <1>2, DefaultQueueTypes, EnqueuedType
  DEF sch_schedule, TargetQueue, DefaultQueue, MainStays
<1> HIDE DEF q, key, id
<1>7. \A k \in 1..Len(s) : s[k] = Main =>
         /\ \A j \in 1..Len(s) : key[id] <= key[s[j]] + 1
         /\ \A i \in (k + 1)..Len(s) : key[s[i]] <= key[id]
  <2> SUFFICES ASSUME NEW k \in 1..Len(s), s[k] = Main
               PROVE  /\ \A j \in 1..Len(s) : key[id] <= key[s[j]] + 1
                      /\ \A i \in (k + 1)..Len(s) : key[s[i]] <= key[id]
    OBVIOUS
  <2>1. ASSUME NEW j \in 1..Len(s) PROVE key[id] <= key[s[j]] + 1
    BY <1>3, <1>4
  <2>2. ASSUME NEW i \in (k + 1)..Len(s) PROVE key[s[i]] <= key[id]
    <3>1. i \in 1..Len(s) /\ i # k
      BY <1>3
    <3>2. s[i] # Main /\ s[i] \in Threads
      BY <1>3, <3>1 DEF Once
    <3>3. ~OnBoard(Main)
      BY MainIsThread, DefaultQueueTypes DEF InQueue, q
    <3>4. current_thread = NULL
      BY <1>1, <1>5, <3>3 DEF OnBoard
    <3>5. key[s[i]] = 0
      BY <1>1, <3>2, <3>4 DEF MainStays, key
    <3>6. QED
      BY <1>4, <3>5
  <2>3. QED
    BY <2>1, <2>2
<1>8. Ordered(DefaultQueue'.items, key) /\ StrayBehindMain(DefaultQueue')
  BY <1>2, <1>3, <1>6, <1>7, EnqueueOrdered DEF MainStays, q, key
<1>9. /\ \A t : InQueue(q, t) => InQueue(DefaultQueue', t)
      /\ \A t : InQueue(DefaultQueue', t) => InQueue(q, t) \/ t = id
  BY <1>2, <1>3, <1>6, EnqueueContents
<1>10. OnBoard(Main)' \/ InQueue(DefaultQueue', Main)
  BY <1>1, <1>2, <1>9 DEF MainStays, OnBoard, q
<1>11. ASSUME current_thread # NULL
       PROVE  /\ key[current_thread] < MaxQuantums
              /\ Least(current_thread, DefaultQueue'.items, key)
  <2>1. current_thread = Main
    BY <1>5, <1>11
  <2>2. key[Main] < MaxQuantums /\ Least(Main, s, key)
    BY <1>1, <1>11, <2>1, MainUnfinished DEF MainStays, q, key
  <2>3. \A t : InQueue(q, t) => key[t] <= key[Main] + 1
    BY <2>2 DEF Least, InQueue
  <2>4. key[id] <= key[Main] + 1
    BY <1>3, <1>4, MainIsThread
  <2>5. \A t : InQueue(DefaultQueue', t) => key[t] <= key[Main] + 1
    BY <1>9, <2>3, <2>4
  <2>6. QED
    BY <2>1, <2>2, <2>5 DEF Least, InQueue
<1>12. \A t \in Threads \ {Main} :
          ~Created(t)' \/ (current_thread' = NULL /\ cpu' = "thread")
             => key[t] = 0
  <2>1. \A t \in Threads : ~Created(t)' => ~Created(t)
    BY <1>1, <1>2, MainIsThread DEF Created, id
  <2>2. QED
    BY <1>1, <2>1 DEF MainStays, key
<1>13. QED
  BY <1>1, <1>8, <1>10, <1>11, <1>12 DEF MainStays, key

\* The quantum of the thread on the CPU is charged, and the thread goes to the
\* end of the queue unless it has finished.
LEMMA MainRequeue ==
    ASSUME QueueInv, MainStays, Requeue
    PROVE  MainStays'
<1> DEFINE c   == current_thread
           q   == DefaultQueue
           s   == q.items
           key == quantums_elapsed
           new == quantums_elapsed'
<1>1. /\ cpu = "requeue" /\ cpu' \in {"dispatch", "counted"}
      /\ new = [key EXCEPT ![c] = Elapsed(@)]
      /\ UNCHANGED thread_id_counter
      /\ \/ /\ run_queue' = Enqueued(run_queue, DEFAULT_PRIO, c)
            /\ status[c] \in {"RUNNING", "READY"}
            /\ UNCHANGED current_thread
            /\ cpu' = "dispatch"
         \/ /\ status[c] = "FINISHED"
            /\ UNCHANGED <<run_queue, status>>
            /\ cpu' = "counted" /\ UNCHANGED current_thread
         \/ status[c] = "BLOCKED"
  BY DEF Requeue, TargetQueue, MainStays, ChargeQuantum, MayContinue
<1>2. /\ c \in Threads /\ c # NULL /\ Created(c) /\ OnBoard(c)
      /\ \A t \in Threads : OnBoard(t) <=> t = c
      /\ status[c] # "BLOCKED"
  BY <1>1
  DEF QueueInv, TypeInv, TypeOK, WhereThreadsAre, ThreadPlaces, OnBoard
<1>3. status[c] # "FINISHED" => key[c] < MaxQuantums /\ Least(c, s, key)
  BY <1>1, <1>2 DEF MainStays
<1>4. /\ key \in [Threads -> Int] /\ q \in QueueOf(Threads) /\ Once(q)
      /\ \A j \in 1..Len(s) : s[j] \in Threads /\ s[j] # c
      /\ ~InQueue(q, c) /\ Len(s) \in Nat
  BY <1>2, DefaultQueueTypes, LenProperties DEF InQueue, QueueOf
<1>5. /\ new \in [Threads -> Int]
      /\ new[c] \in {key[c], key[c] + 1}
      /\ status[c] # "FINISHED" => new[c] = key[c] + 1
      /\ \A t \in Threads \ {c} : new[t] = key[t]
  BY <1>1, <1>2, <1>3, <1>4 DEF Elapsed
<1>6. \A j \in 1..Len(s) : new[s[j]] = key[s[j]]
  BY <1>4, <1>5
<1> HIDE DEF new, key, q, c
<1>7. Ordered(s, new) /\ StrayBehindMain(q)
  BY <1>4, <1>6, OrderedBySameKeys DEF MainStays, q, key
<1>8. /\ \A t \in Threads \ {Main} : ~Created(t)' => new[t] = 0
      /\ \A t \in Threads : -1 <= new[t]
  <2>1. \A t \in Threads : -1 <= key[t] /\ key[t] \in Int
    BY <1>4 DEF MainStays, key
  <2>2. -1 <= new[c]
    BY <1>2, <1>5, <2>1
  <2>3. QED
    BY <1>1, <1>2, <1>5, <2>1, <2>2 DEF MainStays, Created, key
<1>9. CASE /\ run_queue' = Enqueued(run_queue, DEFAULT_PRIO, c)
           /\ status[c] \in {"RUNNING", "READY"} /\ cpu' = "dispatch"
  <2>1. DefaultQueue' = q_enqueue(q, c)
    BY <1>2, <1>9, DefaultQueueTypes, EnqueuedType DEF DefaultQueue, q
  <2>2. \A j \in 1..Len(s) : key[s[j]] \in Int /\ new[s[j]] \in Int
    BY <1>4, <1>5
  <2>3. /\ key[c] \in Int /\ new[c] \in Int /\ new[c] = key[c] + 1
        /\ Least(c, s, key)
    BY <1>2, <1>3, <1>4, <1>5, <1>9
  <2>4. c = Main => \A j \in 1..Len(s) : s[j] # Main /\ new[s[j]] <= new[Main]
    BY <1>4, <1>6, <2>2, <2>3 DEF Least
  <2>5. c # Main => \A k \in 1..Len(s) : s[k] = Main =>
           /\ \A j \in 1..Len(s) : new[c] <= new[s[j]] + 1
           /\ \A i \in (k + 1)..Len(s) : new[s[i]] <= new[c]
    <3> SUFFICES ASSUME c # Main, NEW k \in 1..Len(s), s[k] = Main
                 PROVE  /\ \A j \in 1..Len(s) : new[c] <= new[s[j]] + 1
                        /\ \A i \in (k + 1)..Len(s) : new[s[i]] <= new[c]
      OBVIOUS
    <3>1. /\ \A j \in 1..Len(s) : key[c] <= key[s[j]]
          /\ \A i \in (k + 1)..Len(s) : key[s[i]] <= key[c] + 1
      BY <2>3 DEF Least
    <3>2. \A i \in (k + 1)..Len(s) : i \in 1..Len(s)
      BY <1>4
    <3>3. ASSUME NEW j \in 1..Len(s) PROVE new[c] <= new[s[j]] + 1
      <4>1. new[s[j]] = key[s[j]] /\ key[s[j]] \in Int /\ key[c] <= key[s[j]]
        BY <1>6, <2>2, <3>1
      <4>2. QED
        BY <2>3, <4>1
    <3>4. QED
      BY <1>6, <2>3, <3>1, <3>2, <3>3
  <2>6. Ordered(DefaultQueue'.items, new) /\ StrayBehindMain(DefaultQueue')
    BY <1>2, <1>4, <1>5, <1>7, <2>1, <2>4, <2>5, EnqueueOrdered
  <2>7. Created(Main)' => InQueue(DefaultQueue', Main)
    <3> SUFFICES ASSUME Created(Main)' PROVE InQueue(DefaultQueue', Main)
      OBVIOUS
    <3>1. CASE c = Main
      <4>1. ~q.stray
        <5>1. q.items # <<>> => Len(s) \in 1..Len(s)
          BY <1>4, LenProperties, EmptySeq DEF QueueOf
        <5>2. QED
          BY <1>4, <1>7, <3>1, <5>1 DEF StrayBehindMain
      <4>2. QED
        BY <1>2, <1>4, <2>1, <3>1, <4>1, EnqueueContents
    <3>2. CASE c # Main
      <4>1. Created(Main)
        BY <1>1 DEF Created
      <4>2. InQueue(q, Main)
        BY <1>2, <3>2, <4>1, MainIsThread DEF MainStays, q
      <4>3. QED
        BY <1>2, <1>4, <2>1, <4>2, EnqueueContents
    <3>3. QED
      BY <3>1, <3>2
  <2>8. QED
    BY <1>8, <1>9, <2>6, <2>7 DEF MainStays, new
<1>10. CASE /\ status[c] = "FINISHED" /\ UNCHANGED <<run_queue, status>>
            /\ cpu' = "counted" /\ current_thread' = c
  <2>1. c # Main
    BY <1>10, MainUnfinished
  <2>2. DefaultQueue' = q
    BY <1>10 DEF DefaultQueue, q
  <2>3. Created(Main)' => InQueue(q, Main)
    BY <1>1, <1>2, <2>1, MainIsThread DEF MainStays, Created, q
  <2>4. QED
    BY <1>7, <1>8, <1>10, <2>2, <2>3 DEF MainStays, new
<1>11. QED
  BY <1>1, <1>2, <1>9, <1>10 DEF c

LEMMA MainForget ==
    ASSUME QueueInv, MainStays, Forget
    PROVE  MainStays'
<1>1. /\ cpu = "counted" /\ cpu' = "dispatch" /\ current_thread' = NULL
      /\ UNCHANGED <<thread_id_counter, run_queue, quantums_elapsed>>
  BY DEF Forget, tcbVars
<1>2. DefaultQueue' = DefaultQueue /\ ~OnBoard(Main)
  BY <1>1 DEF DefaultQueue, OnBoard
<1>3. QED
  BY <1>1, <1>2 DEF MainStays, Created

\* Before schedule() takes a thread, main is in the queue.
LEMMA MainDispatch ==
    ASSUME QueueInv, MainStays, Dispatch
    PROVE  MainStays'
<1> DEFINE q     == DefaultQueue
           key   == quantums_elapsed
           taken == q_dequeue_shortest_runtime(q, key)
           t     == taken.thread
<1>1. Policy # "MLFQ" /\ cpu = "dispatch" /\ ~rq_is_all_empty
  BY DEF Dispatch, MainStays
<1>2. Chosen = [p |-> DEFAULT_PRIO, taken |-> taken]
  BY <1>1, ConstantsAssumption
  DEF Chosen, sched_psjf, sched_matrix, q_dequeue_longest_runtime, DefaultQueue
<1>3. /\ key[t] < MaxQuantums
      /\ run_queue' = [run_queue EXCEPT ![DEFAULT_PRIO] = taken.queue]
      /\ current_thread' = t /\ cpu' = "thread"
      /\ UNCHANGED <<thread_id_counter, quantums_elapsed>>
  BY <1>1, <1>2 DEF Dispatch
<1>4. DefaultQueue' = taken.queue
  BY <1>3, DefaultQueueTypes DEF DefaultQueue, RunQueues
<1>5. Created(Main) /\ InQueue(q, Main)
  BY <1>1 DEF QueueInv, ThreadPlaces, MainStays, OnBoard
<1>6. t \in Threads /\ TakenFrom(q, taken)
  <2>1. ~q_is_empty(q)
    BY <1>5 DEF InQueue, q_is_empty
  <2>2. QED
    BY <2>1, QuantumsType, DefaultQueueTypes, ShortestType, ShortestContents
<1>7. /\ Ordered(taken.queue.items, key) /\ StrayBehindMain(taken.queue)
      /\ Least(t, taken.queue.items, key)
  BY <1>5, QuantumsType, DefaultQueueTypes, ShortestOrdered DEF MainStays
<1>8. OnBoard(Main)' \/ InQueue(taken.queue, Main)
  BY <1>3, <1>5, <1>6 DEF TakenFrom, OnBoard
<1>9. current_thread' # NULL
  BY <1>3, <1>6, MainIsThread DEF NULL
<1> HIDE DEF taken
<1>10. QED
  BY <1>1, <1>3, <1>4, <1>7, <1>8, <1>9 DEF MainStays, Created

LEMMA MainNext == QueueInv /\ MainStays /\ [Next]_vars => MainStays'
<1> SUFFICES ASSUME QueueInv, MainStays, [Next]_vars PROVE MainStays'
  OBVIOUS
<1>1. ASSUME NEW t \in Threads, Step(t)
      PROVE  MainStays'
  BY <1>1, StepIsQuiet, StepCharges, MainQuiet, MainCreate, MainPush
<1>2. CASE UNCHANGED vars
  <2>1. UNCHANGED <<run_queue, thread_id_counter, current_thread, cpu, status,
                    quantums_elapsed>>
    BY <1>2 DEF vars, tcbVars, schedVars
  <2>2. DefaultQueue' = DefaultQueue /\ (OnBoard(Main)' <=> OnBoard(Main))
    BY <2>1 DEF DefaultQueue, OnBoard
  <2>3. QED
    BY <2>1, <2>2 DEF MainStays, Created
<1>3. QED
  BY <1>1, <1>2, MainTick, MainRequeue, MainForget, MainDispatch
  DEF Next, Ended

\* Main has the CPU or waits for it, from its first worker_create on.
MainIsSafe == Created(Main) => OnBoard(Main) \/ Queued(run_queue, Main)

LEMMA MainSafe == QueueInv /\ (NothingLost \/ MainStays) => MainIsSafe
<1> SUFFICES ASSUME QueueInv, NothingLost \/ MainStays, Created(Main)
             PROVE  OnBoard(Main) \/ Queued(run_queue, Main)
  BY DEF MainIsSafe
<1>1. Unfinished(Main)
  BY MainUnfinished DEF Unfinished
<1>2. CASE NothingLost
  BY <1>1, <1>2, MainIsThread DEF NothingLost
<1>3. CASE MainStays
  BY <1>3, DefaultQueueTypes DEF MainStays, Queued, DefaultQueue
<1>4. QED
  BY <1>2, <1>3

LEMMA MainSafeInit ==
    Init /\ Mutexes = {} /\ (Policy = "MLFQ" \/ MainStartsAbove)
      => QueueInv /\ (NothingLost \/ MainStays)
  BY QueueInit, LostInit, MainInit

LEMMA MainSafeNext ==
    QueueInv /\ (NothingLost \/ MainStays) /\ [Next]_vars
      => QueueInv' /\ (NothingLost \/ MainStays)'
  BY LostNext, QueueNext, MainNext

\* The queue functions leave q->tail on a node that was taken out, and PSJF and
\* MATRIX lose what is appended there. It is not main, if main's uninitialised
\* quantums_elapsed does not start below -1: the tail is left only where main
\* is the last one, and main is appended only when it had the CPU.
THEOREM MainNeverLost ==
    Mutexes = {} /\ (Policy = "MLFQ" \/ MainStartsAbove) /\ Spec
      => []MainIsSafe
  BY MainSafeInit, MainSafeNext, MainSafe, PTL DEF Spec

\* So schedule() never finds all queues empty with its timer running, under
\* any policy, from the same start; and no thread that is queued has finished.
THEOREM SchedulerNeverFails ==
    /\ Mutexes = {} /\ ~LibraryTicks
    /\ Policy = "MLFQ" \/ MainStartsAbove
    /\ Spec
    => []NoFault
<1> DEFINE Inv == /\ QueueInv /\ (NothingLost \/ MainStays)
                  /\ ~LibraryTicks /\ NoFault
<1>1. /\ Mutexes = {} /\ ~LibraryTicks
      /\ Policy = "MLFQ" \/ MainStartsAbove
      /\ Init
      => Inv
  BY MainSafeInit DEF Init, NoFault
<1>2. Inv /\ [Next]_vars => Inv'
  <2> SUFFICES ASSUME QueueInv, NothingLost \/ MainStays, ~LibraryTicks,
                      NoFault, [Next]_vars
               PROVE  fault' = "none"
    BY MainSafeNext DEF NoFault
  <2>1. ASSUME NEW t \in Threads, Step(t)
        PROVE  fault' = fault
    BY <2>1, StepIsQuiet DEF QuietStep, worker_create, PushCreated
  <2>2. ASSUME TickInScheduler
        PROVE  FALSE
    <3>1. cpu = "dispatch" /\ rq_is_all_empty
      BY <2>2 DEF TickInScheduler, IdleTick, TickWhileRequeued,
                  TickWhileFinished
    <3>2. PICK p \in Prios : InQueue(run_queue[p], Main)
      BY <3>1, MainSafe
      DEF MainIsSafe, QueueInv, ThreadPlaces, OnBoard, Queued
    <3>3. QED
      BY <3>1, <3>2 DEF rq_is_all_empty, q_is_empty, InQueue
  <2>3. ASSUME NEW t \in Threads, timer_schedule_handler(t)
        PROVE  fault' = fault
    BY <2>3 DEF timer_schedule_handler
  <2>4. CASE Requeue \/ Forget
    BY <2>4 DEF Requeue, Forget, NoFault
  <2>5. CASE Dispatch
    BY <2>5, KeptByDispatch DEF NoFault
  <2>6. CASE UNCHANGED vars
    BY <2>6 DEF vars, NoFault
  <2>7. QED
    BY <2>1, <2>2, <2>3, <2>4, <2>5, <2>6 DEF Next, Ended, NoFault
<1>3. QED
  BY <1>1, <1>2, PTL DEF Spec

-----------------------------------------------------------------------------
(***************************************************************************)
(* What a join returns, in programs without mutexes, under any policy      *)
(***************************************************************************)

\* No label becomes one of an end or was one.
LEMMA ResultMove ==
    ASSUME ResultInv, QueueInv',
           \A u \in Threads : \/ pc'[u] = pc[u]
                              \/ pc[u] \notin Ends /\ pc'[u] \notin Ends,
           \A u \in Threads : pc[u] # "exit_value",
           UNCHANGED <<return_value, passed, joined>>,
           joining' = joining \/ joining' = 1
    PROVE  ResultInv'
<1>1. joining \in Nat
  BY DEF ResultInv, QueueInv, TypeInv, TypeOK
<1>2. \A u \in Threads : /\ pc'[u] # "exit_value"
                         /\ pc'[u] \in Past <=> pc[u] \in Past
  BY DEF Ends, Past
<1>3. \A u \in 1 .. (joining' - 1) : u \in 1 .. (joining - 1)
  BY <1>1
<1>4. QED
  BY <1>2, <1>3 DEF ResultInv

\* One thread with the CPU goes from a label k to a label l.
LEMMA ResultGoto ==
    ASSUME ResultInv, QueueInv', NEW t \in Threads, NEW k, NEW l,
           cpu = "thread", OnCpu = t, pc[t] = k, k \notin Ends, l \notin Ends,
           UNCHANGED pc \/ Goto(t, l),
           UNCHANGED <<return_value, passed, joined>>,
           joining' = joining \/ joining' = 1
    PROVE  ResultInv'
<1>1. pc \in [Threads -> Labels]
  BY DEF ResultInv, QueueInv, TypeInv, TypeOK
<1>2. \A u \in Threads : \/ pc'[u] = pc[u]
                         \/ pc[u] \notin Ends /\ pc'[u] \notin Ends
  BY <1>1 DEF Goto
<1>3. \A u \in Threads : pc[u] # "exit_value"
  BY MainIsThread DEF ResultInv, OnCpu, Ends, NULL
<1>4. QED
  BY <1>2, <1>3, ResultMove

\* A thread ends: by return, or through worker_exit in two steps.
LEMMA ResultEnd ==
    ASSUME ResultInv, QueueInv', NEW t \in Threads,
           \/ \E v \in Values \cup {NULL} :
                 thread_function_wrapper(t, v) \/ worker_exit(t, v)
           \/ StoreExitValue(t)
    PROVE  ResultInv'
<1>1. /\ pc \in [Threads -> Labels]
      /\ return_value \in [Threads -> Values \cup {NULL}]
      /\ passed \in [Threads -> Values \cup {NULL}]
      /\ pc[Main] # "exit_value" /\ joining \in Nat
  BY DEF ResultInv, QueueInv, TypeInv, TypeOK, WhereThreadsAre, Ends
<1>2. cpu = "thread" /\ OnCpu = t /\ t # Main /\ current_thread = t
      /\ pc[t] \in {"user", "exit_value"}
  BY <1>1 DEF thread_function_wrapper, worker_exit, StoreExitValue, At, OnCpu
<1>3. /\ \A u \in Threads \ {t} : /\ pc[u] # "exit_value"
                                  /\ pc'[u] = pc[u]
                                  /\ return_value'[u] = return_value[u]
                                  /\ passed'[u] = passed[u]
      /\ UNCHANGED <<joining, joined>>
  BY <1>1, <1>2
  DEF thread_function_wrapper, worker_exit, StoreExitValue, Goto, ResultInv
<1>4. \A u \in 1 .. (joining - 1) : u # t
  BY <1>2 DEF ResultInv, Past
<1>5. ASSUME NEW v \in Values \cup {NULL}, thread_function_wrapper(t, v)
      PROVE  ResultInv'
  <2>1. pc'[t] = "done" /\ return_value'[t] = v /\ passed'[t] = v
    BY <1>1, <1>5 DEF thread_function_wrapper, Goto
  <2>2. QED
    BY <1>3, <1>4, <2>1 DEF ResultInv, Past
<1>6. ASSUME NEW v \in Values \cup {NULL}, worker_exit(t, v)
      PROVE  ResultInv'
  <2>1. /\ pc'[t] = "exit_value"
        /\ UNCHANGED <<return_value, cpu, current_thread>>
        /\ pc[t] = "user"
    BY <1>1, <1>6 DEF worker_exit, Goto, schedVars, At
  <2>2. QED
    BY <1>2, <1>3, <1>4, <2>1 DEF ResultInv, Past
<1>7. CASE StoreExitValue(t)
  <2>1. pc'[t] = "past_exit" /\ pc[t] = "exit_value" /\ passed' = passed
    BY <1>1, <1>7 DEF StoreExitValue, Goto, At
  <2>2. return_value[t] = NULL
    BY <2>1 DEF ResultInv, Past
  <2>3. return_value'[t] = passed[t]
    BY <1>1, <1>7, <2>2 DEF StoreExitValue, HasValue
  <2>4. QED
    BY <1>3, <1>4, <2>1, <2>3 DEF ResultInv, Past
<1>8. QED
  BY <1>5, <1>6, <1>7

\* Main joins a thread that is marked finished: it is past its end, for it has
\* not been interrupted between its status and its value.
LEMMA ResultJoin ==
    ASSUME ResultInv, QueueInv', worker_join, JoinDone(joining)
    PROVE  ResultInv'
<1>1. /\ pc[Main] = "join" /\ cpu = "thread" /\ OnCpu = Main
      /\ joined' = [joined EXCEPT ![joining] = return_value[joining]]
      /\ joining' = joining + 1
      /\ Goto(Main, IF Created(joining + 1) THEN "join" ELSE "exited")
      /\ UNCHANGED <<return_value, passed>>
  BY DEF worker_join, At, tcbVars
<1>2. /\ joining \in Threads /\ joining \in Nat
      /\ joined \in [Threads -> Values \cup {NULL}]
      /\ pc \in [Threads -> Labels]
  BY <1>1 DEF ResultInv, QueueInv, TypeInv, TypeOK, WhereThreadsAre
<1>3. \A u \in Threads : pc[u] # "exit_value"
  BY <1>1, MainIsThread DEF ResultInv, OnCpu, NULL
<1>4. pc[joining] \in Past
  BY <1>2, <1>3 DEF JoinDone, ResultInv, QueueInv, ThreadPlaces, Ends, Past
<1>5. \A u \in Threads : /\ pc'[u] # "exit_value"
                         /\ pc'[u] \in Past <=> pc[u] \in Past
  BY <1>1, <1>2, <1>3, MainIsThread DEF Goto, Past
<1>6. ASSUME NEW u \in 1 .. (joining' - 1)
      PROVE  u \in Threads /\ pc'[u] \in Past /\ joined'[u] = passed'[u]
  <2>1. CASE u = joining
    <3>1. joined'[u] = return_value[u] /\ return_value[u] = passed[u]
      BY <1>1, <1>2, <1>4, <2>1 DEF ResultInv
    <3>2. QED
      BY <1>1, <1>2, <1>4, <1>5, <2>1, <3>1
  <2>2. CASE u # joining
    <3>1. u \in 1 .. (joining - 1)
      BY <1>1, <1>2, <2>2
    <3>2. u \in Threads /\ pc[u] \in Past /\ joined[u] = passed[u]
      BY <3>1 DEF ResultInv
    <3>3. joined'[u] = joined[u]
      BY <1>1, <1>2, <2>2, <3>2
    <3>4. QED
      BY <1>1, <1>5, <3>2, <3>3
  <2>3. QED
    BY <2>1, <2>2
<1>7. QED
  BY <1>1, <1>5, <1>6 DEF ResultInv

\* Steps of schedule() and ticks: a thread at exit_value is not interrupted.
LEMMA ResultScheduler ==
    ASSUME ResultInv, QueueInv',
           \/ \E t \in Threads : timer_schedule_handler(t)
           \/ TickInScheduler \/ Requeue \/ Forget \/ Dispatch
           \/ UNCHANGED vars
    PROVE  ResultInv'
<1>1. QueueInv /\ ~LibraryTicks
  BY DEF ResultInv
<1>2. UNCHANGED <<return_value, pc, passed, joining, joined>>
  <2>1. CASE Dispatch
    BY <1>1, <2>1, KeptByDispatch DEF Dispatch
  <2>2. CASE TickInScheduler
    BY <1>1, <2>2
    DEF TickInScheduler, IdleTick, TickWhileRequeued, TickWhileFinished
  <2>3. QED
    BY <2>1, <2>2
    DEF timer_schedule_handler, Requeue, Forget, clientVars, vars, tcbVars
<1>3. \A u \in Threads : pc[u] = "exit_value"
                           => cpu' = "thread" /\ current_thread' = u
  <2> SUFFICES ASSUME NEW u \in Threads, pc[u] = "exit_value"
               PROVE  cpu' = "thread" /\ current_thread' = u
    OBVIOUS
  <2>1. cpu = "thread" /\ current_thread = u /\ OnCpu = u
    BY MainIsThread DEF ResultInv, OnCpu, NULL
  <2>2. ASSUME NEW t \in Threads, timer_schedule_handler(t)
        PROVE  FALSE
    BY <1>1, <2>1, <2>2 DEF timer_schedule_handler, ClientLabels
  <2>3. CASE UNCHANGED vars
    BY <2>1, <2>3 DEF vars, schedVars
  <2>4. QED
    BY <1>1, <2>1, <2>2, <2>3
    DEF TickInScheduler, IdleTick, TickWhileRequeued, TickWhileFinished,
        Requeue, Forget, Dispatch
<1>4. QED
  BY <1>2, <1>3 DEF ResultInv

LEMMA ResultStep ==
    ASSUME ResultInv, QueueInv', NEW t \in Threads, Step(t)
    PROVE  ResultInv'
<1> DEFINE Rest == UNCHANGED <<return_value, passed, joined>>
           On   == cpu = "thread" /\ OnCpu = t
<1> USE DEF Ends, At, tcbVars
<1>1. /\ QueueInv /\ Mutexes = {} /\ pc \in [Threads -> Labels]
      /\ pc[t] \notin MutexLabels
  BY NoMutexLabel DEF ResultInv, QueueInv, TypeInv, TypeOK
<1>2. CASE t = Main /\ worker_create
  <2>1. /\ pc[t] = "user" /\ On /\ Rest /\ joining' = joining
        /\ Goto(t, "user") \/ Goto(t, "create")
    BY <1>2 DEF worker_create
  <2>2. QED
    BY <2>1, ResultGoto
<1>3. CASE t = Main /\ PushCreated
  <2> DEFINE id == thread_id_counter
  <2>1. /\ pc[Main] = "create" /\ cpu = "thread" /\ OnCpu = Main
        /\ pc' = [pc EXCEPT ![Main] = "user", ![id] = "user"]
        /\ Rest /\ joining' = joining
    BY <1>3 DEF PushCreated
  <2>2. id \in Threads /\ id # Main /\ pc[id] = "none"
    <3>1. id \in Threads /\ id # Main /\ ~Created(id)
      BY <1>1, <2>1, ConstantsAssumption
      DEF QueueInv, TypeInv, TypeOK, WhereThreadsAre, TableFull, Threads,
          Main, Created
    <3>2. QED
      BY <1>1, <3>1 DEF QueueInv, TypeInv, WhereThreadsAre, Places
  <2>3. \A u \in Threads : \/ pc'[u] = pc[u]
                           \/ pc[u] \notin Ends /\ pc'[u] \notin Ends
    BY <1>1, <2>1, <2>2, MainIsThread
  <2>4. \A u \in Threads : pc[u] # "exit_value"
    BY <2>1, MainIsThread DEF ResultInv, OnCpu, NULL
  <2>5. QED
    BY <2>1, <2>3, <2>4, ResultMove
<1>4. CASE t = Main /\ StartJoin
  <2>1. /\ pc[t] = "user" /\ On /\ Rest /\ joining' = 1
        /\ Goto(t, "join") \/ Goto(t, "exited")
    BY <1>4 DEF StartJoin
  <2>2. QED
    BY <2>1, ResultGoto
<1>5. CASE t = Main /\ worker_join
  <2>1. CASE JoinDone(joining)
    BY <1>5, <2>1, ResultJoin
  <2>2. CASE ~JoinDone(joining)
    <3>1. /\ pc[t] = "join" /\ On /\ Rest
          /\ joining' = joining /\ Goto(t, "yield_join")
      BY <1>5, <2>2 DEF worker_join, YieldFrom
    <3>2. QED
      BY <3>1, ResultGoto
  <2>3. QED
    BY <2>1, <2>2
<1>6. CASE worker_yield(t)
  <2>1. /\ pc[t] \in {"user", "cs"} /\ On /\ Rest /\ joining' = joining
        /\ UNCHANGED pc \/ Goto(t, "yield_user") \/ Goto(t, "yield_cs")
    BY <1>6 DEF worker_yield, YieldFrom
  <2>2. pc[t] \notin Ends
    BY <2>1
  <2>3. QED
    BY <2>1, <2>2, ResultGoto
<1>7. CASE YieldSwap(t)
  <2>1. /\ On /\ pc[t] \in DOMAIN YieldReturn
        /\ Goto(t, YieldReturn[pc[t]]) /\ Rest /\ joining' = joining
    BY <1>7 DEF YieldSwap
  <2>2. /\ pc[t] \notin Ends
        /\ Goto(t, "user") \/ Goto(t, "cs") \/ Goto(t, "join")
    BY <2>1 DEF YieldReturn
  <2>3. QED
    BY <2>1, <2>2, ResultGoto
<1>8. ASSUME NEW u \in Threads, NEW p \in SetPrios, worker_setschedprio(t, u, p)
      PROVE  ResultInv'
  <2>1. On /\ pc[t] = "user" /\ Rest /\ UNCHANGED <<pc, joining>>
    BY <1>8 DEF worker_setschedprio
  <2>2. QED
    BY <2>1, ResultGoto
<1>9. ASSUME \/ StoreOwner(t) \/ MarkBlocked(t) \/ Park(t)
             \/ worker_mutex_unlock(t) \/ ClearOwner(t)
             \/ DrainTest(t) \/ DrainOne(t)
      PROVE  FALSE
  <2>1. pc[t] \in MutexLabels
    BY <1>9
    DEF StoreOwner, MarkBlocked, Park, worker_mutex_unlock, ClearOwner,
        DrainTest, DrainOne, MutexLabels, HolderLabels
  <2>2. QED
    BY <1>1, <2>1
<1>10. QED
  BY <1>1, <1>2, <1>3, <1>4, <1>5, <1>6, <1>7, <1>8, <1>9, ResultEnd DEF Step

LEMMA ResultInit == Init /\ Mutexes = {} /\ ~LibraryTicks => ResultInv
<1> SUFFICES ASSUME Init, Mutexes = {}, ~LibraryTicks PROVE ResultInv
  OBVIOUS
<1>1. QueueInv
  BY QueueInit
<1>2. QED
  BY <1>1 DEF Init, ResultInv, Past

LEMMA ResultNext == ResultInv /\ [Next]_vars => ResultInv'
<1> SUFFICES ASSUME ResultInv, [Next]_vars PROVE ResultInv'
  OBVIOUS
<1>1. QueueInv'
  BY QueueNext DEF ResultInv
<1>2. QED
  BY <1>1, ResultStep, ResultScheduler DEF Next, Ended

\* What main gets from its joins is what the threads ended with, whatever the
\* policy, in programs without mutexes, if no quantum ends inside the library:
\* worker_exit marks the thread finished before it stores the value. With
\* mutexes a finished thread can come back and end with another value.
THEOREM JoinsReturnResults ==
    Mutexes = {} /\ ~LibraryTicks /\ Spec => []JoinReturnsResult
<1>1. ResultInv => JoinReturnsResult
  BY DEF ResultInv, JoinReturnsResult
<1>2. QED
  BY <1>1, ResultInit, ResultNext, PTL DEF Spec
=============================================================================
