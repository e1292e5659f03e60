----------------------------- MODULE QueueNodes -----------------------------
(***************************************************************************)
(* The linked list behind the queues of thread-worker.c: nodes that        *)
(* q_enqueue allocates, the pointers head and tail, and the two ways to    *)
(* take a thread out. A run queue of MLFQ and the list of a mutex are      *)
(* emptied by q_dequeue only, the run queue of PSJF and MATRIX by          *)
(* q_dequeue_shortest_runtime and q_dequeue_longest_runtime only, which    *)
(* have the same body. Nodes may be reused as soon as they are freed.      *)
(*                                                                         *)
(* The timer is off while an operation changes the list, so each is one    *)
(* step, except that q_dequeue starts the timer again before it reads and  *)
(* frees the node it took out: that is a step of its own. The field size   *)
(* is left out, for no function reads it.                                  *)
(*                                                                         *)
(* Nodes that q_dequeue_shortest_runtime takes out are never freed: the    *)
(* model stops when every address is in use, as the program does when      *)
(* malloc returns NULL.                                                    *)
(***************************************************************************)
EXTENDS Integers, Sequences, FiniteSets

CONSTANTS
    Threads,
    Nodes,              \* addresses that malloc may return
    NULL,
    MaxQuantums         \* bound on quantums_elapsed

\* The address space is finite.
ASSUME NodesAssumption ==
    /\ IsFiniteSet(Nodes) /\ NULL \notin Nodes
    /\ MaxQuantums \in Nat

VARIABLES
    takes,              \* "first" or "shortest": how threads are taken out
    node,               \* the allocated nodes
    head, tail,
    unlinked,           \* nodes q_dequeue has yet to free, and what it took
    quantums_elapsed,
    out,                \* the thread taken out last
    fault               \* "none" or "use_after_free"

vars == <<takes, node, head, tail, unlinked, quantums_elapsed, out, fault>>

Allocated == DOMAIN node
Pointers  == Nodes \cup {NULL}

TypeOK ==
    /\ takes \in {"first", "shortest"}
    /\ Allocated \subseteq Nodes
    /\ \A n \in Allocated : /\ node[n].data \in Threads
                            /\ node[n].next \in Pointers
    /\ head \in Pointers
    /\ tail \in Pointers
    /\ DOMAIN unlinked \subseteq Nodes
    /\ \A n \in DOMAIN unlinked : unlinked[n] \in Threads
    /\ quantums_elapsed \in [Threads -> 0 .. MaxQuantums]
    /\ out \in Threads
    /\ fault \in {"none", "use_after_free"}

\* q_init
Init ==
    /\ takes \in {"first", "shortest"}
    /\ node = [n \in {} |-> NULL]
    /\ head = NULL
    /\ tail = NULL
    /\ unlinked = [n \in {} |-> NULL]
    /\ quantums_elapsed = [t \in Threads |-> 0]
    /\ out \in Threads
    /\ fault = "none"

q_is_empty == head = NULL

Without(f, n) == [m \in DOMAIN f \ {n} |-> f[m]]
With(f, n, x) == [m \in DOMAIN f \cup {n} |-> IF m = n THEN x ELSE f[m]]

UseAfterFree ==
    /\ fault' = "use_after_free"
    /\ UNCHANGED <<takes, node, head, tail, unlinked, quantums_elapsed, out>>

-----------------------------------------------------------------------------
(***************************************************************************)
(* The operations                                                          *)
(***************************************************************************)

\* Mutant: next is what malloc left.
NewNode_Mutant(t) == [data |-> t, next |-> t]
NewNode(t) == [data |-> t, next |-> NULL]

\* Mutant: the tail stays.
TailAfter_Mutant(new) == IF q_is_empty THEN new ELSE tail
TailAfter(new) == new

\* Behind the tail, wherever the tail is.
q_enqueue(t) ==
    \E new \in Nodes \ Allocated :
        /\ fault = "none"
        /\ IF ~q_is_empty /\ tail \notin Allocated
             THEN UseAfterFree
             ELSE /\ IF q_is_empty
                       THEN /\ head' = new
                            /\ node' = With(node, new, NewNode(t))
                       ELSE /\ node' = With([node EXCEPT ![tail].next = new],
                                            new, NewNode(t))
                            /\ UNCHANGED head
                  /\ tail' = TailAfter(new)
                  /\ UNCHANGED <<takes, unlinked, quantums_elapsed, out, fault>>

\* The callers test q_is_empty first. The thread is read here to say what the
\* node held when it was taken out; the code reads it in q_dequeue_free.
q_dequeue ==
    /\ fault = "none" /\ takes = "first" /\ ~q_is_empty
    /\ IF head \notin Allocated
         THEN UseAfterFree
         ELSE /\ head' = node[head].next
              /\ unlinked' = With(unlinked, head, node[head].data)
              /\ out' = node[head].data
              /\ UNCHANGED <<takes, node, tail, quantums_elapsed, fault>>

\* Mutant: the node is not freed.
Freed_Mutant(n) == node
Freed(n) == Without(node, n)

\* The second half of q_dequeue, with the timer running again.
q_dequeue_free(n) ==
    /\ fault = "none" /\ n \in DOMAIN unlinked
    /\ IF n \notin Allocated
         THEN UseAfterFree
         ELSE /\ node' = Freed(n)
              /\ unlinked' = Without(unlinked, n)
              /\ UNCHANGED <<takes, head, tail, quantums_elapsed, out, fault>>

\* The node that i steps lead to from the head; NULL at the end of the list
\* and where a node was freed.
NodeAt ==
    LET at[i \in 0 .. Cardinality(Nodes)] ==
          IF i = 0 THEN head
          ELSE IF at[i - 1] \in Allocated THEN node[at[i - 1]].next
          ELSE NULL
    IN  at

\* The nodes that can be reached from the head.
List ==
    LET length == Cardinality({i \in DOMAIN NodeAt : NodeAt[i] # NULL})
    IN  [i \in 1 .. length |-> NodeAt[i - 1]]

Quantums(n) == quantums_elapsed[node[n].data]

\* Mutant: the last of the shortest.
Shorter_Mutant(n, m) == Quantums(n) <= Quantums(m)
Shorter(n, m) == Quantums(n) < Quantums(m)

\* The scan: the place of the shortest among the first i nodes.
ShortestOf(list) ==
    LET best[i \in 1 .. Len(list)] ==
          IF i = 1 THEN 1
          ELSE IF Shorter(list[i], list[best[i - 1]]) THEN i
          ELSE best[i - 1]
    IN  best[Len(list)]

\* Mutant: the node is freed, as q_dequeue does.
AfterTaking_Mutant(nodes, result) == Without(nodes, result)
AfterTaking(nodes, result) == nodes

\* Whether the node taken is the head is decided by comparing thread ids. The
\* node is not freed, and the tail does not move.
q_dequeue_shortest_runtime ==
    LET list   == List
        i      == ShortestOf(list)
        result == list[i]
        prev   == IF i = 1 THEN node[result].next ELSE list[i - 1]
        isHead == node[result].data = node[head].data
        linked == IF isHead THEN node
                  ELSE [node EXCEPT ![prev].next = node[result].next]
    IN  /\ fault = "none" /\ takes = "shortest" /\ ~q_is_empty
        /\ IF \E j \in DOMAIN list : list[j] \notin Allocated
             THEN UseAfterFree
             ELSE /\ out' = node[result].data
                  /\ head' = IF isHead THEN node[result].next ELSE head
                  /\ node' = AfterTaking(linked, result)
                  /\ UNCHANGED <<takes, tail, unlinked, quantums_elapsed,
                                 fault>>

\* schedule() charges the thread that ran, which may be queued too.
Charge(t) ==
    /\ fault = "none" /\ quantums_elapsed[t] < MaxQuantums
    /\ quantums_elapsed' = [quantums_elapsed EXCEPT ![t] = @ + 1]
    /\ UNCHANGED <<takes, node, head, tail, unlinked, out, fault>>

Next ==
    \/ \E t \in Threads : q_enqueue(t) \/ Charge(t)
    \/ q_dequeue
    \/ \E n \in DOMAIN unlinked : q_dequeue_free(n)
    \/ q_dequeue_shortest_runtime

Spec == Init /\ [][Next]_vars

-----------------------------------------------------------------------------
(***************************************************************************)
(* Properties                                                              *)
(***************************************************************************)

ListNodes == {List[i] : i \in DOMAIN List}

\* No freed node is ever read or written, though q_dequeue lets the tail of
\* an emptied queue point to one and addresses are used again
\* (thread-worker.c:513-522, 533-543, 555-578).
NoUseAfterFree == fault = "none"

\* Where threads are taken by q_dequeue a node is allocated exactly while it
\* is in the list or about to be freed, and until then holds the thread that
\* was taken (thread-worker.c:508, 533-543).
NoLeak ==
    takes = "first" =>
        /\ Allocated = ListNodes \cup DOMAIN unlinked
        /\ ListNodes \cap DOMAIN unlinked = {}
        /\ \A n \in DOMAIN unlinked : node[n].data = unlinked[n]

\* There the tail is the last node, so that no thread is appended where the
\* head does not lead (thread-worker.c:513-522, 535).
TailIsLast ==
    takes = "first" /\ ~q_is_empty => tail = List[Len(List)]

\* The queue that ThreadWorker works with.
queue == [items |-> [i \in DOMAIN List |-> node[List[i]].data],
          stray |-> ~q_is_empty /\ tail \notin ListNodes]

Abstract == INSTANCE RunQueue WITH q <- queue

\* Nodes and pointers behave like the sequence with a stray bit of
\* ThreadQueue, also after the tail was left behind, after nodes were used
\* again and with a thread queued twice (thread-worker.c:496-617).
ImplementsRunQueue == Abstract!Spec
=============================================================================
