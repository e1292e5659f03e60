---------------------------- MODULE ThreadQueue ----------------------------
(***************************************************************************)
(* The FIFO queue of thread-worker.c (struct queue_t and the q_*           *)
(* functions), which serves as run queue and as the list of threads        *)
(* blocked on a mutex.                                                     *)
(*                                                                         *)
(* A queue is what its linked list can still reach from q->head (items)    *)
(* together with one bit about q->tail (stray): q->tail points to a node   *)
(* that was unlinked, so that whatever is appended to it is unreachable.   *)
(* The size field is left out: no function reads it.                          *)
(***************************************************************************)
EXTENDS Integers, Sequences

QueueOf(T) == [items : Seq(T), stray : BOOLEAN]

q_init == [items |-> <<>>, stray |-> FALSE]

q_is_empty(q) == q.items = <<>>

\* A queue whose head became NULL forgets its tail: q_enqueue resets both.
WithItems(s, stray) == [items |-> s, stray |-> stray /\ s # <<>>]

\* q->tail->next = new_node links behind the tail, wherever the tail is.
q_enqueue(q, t) ==
    IF q.stray THEN q ELSE [q EXCEPT !.items = Append(@, t)]

\* Of a non-empty queue; the code dereferences q->head without a test.
q_dequeue(q) == [thread |-> Head(q.items),
                 queue  |-> WithItems(Tail(q.items), q.stray)]

\* The first of the nodes whose key is the least (the scan compares with <).
FirstLeast(s, key) ==
    CHOOSE i \in 1..Len(s) :
        /\ \A j \in 1..Len(s) : key[s[i]] <= key[s[j]]
        /\ \A j \in 1..(i - 1) : key[s[i]] < key[s[j]]

WithoutIndex(s, i) ==
    [j \in 1..(Len(s) - 1) |-> IF j < i THEN s[j] ELSE s[j + 1]]

\* Unlinks the node without moving q->tail: taking the last node of a longer
\* list leaves the tail on it.
q_dequeue_shortest_runtime(q, key) ==
    LET i == FirstLeast(q.items, key)
    IN  [thread |-> q.items[i],
         queue  |-> WithItems(WithoutIndex(q.items, i),
                              q.stray \/ i = Len(q.items))]

\* The comparison is the same < as in q_dequeue_shortest_runtime.
q_dequeue_longest_runtime(q, key) == q_dequeue_shortest_runtime(q, key)

=============================================================================
