------------------------------ MODULE RunQueue ------------------------------
(***************************************************************************)
(* What a queue of thread-worker.c does, as a state machine over the       *)
(* operators of ThreadQueue, which ThreadWorker uses: the specification    *)
(* that QueueNodes implements with nodes and pointers.                     *)
(***************************************************************************)
EXTENDS ThreadQueue

CONSTANTS Threads, MaxQuantums

VARIABLES
    q,
    quantums_elapsed,   \* of each thread
    out                 \* the thread taken out last

Init ==
    /\ q = q_init
    /\ quantums_elapsed = [t \in Threads |-> 0]
    /\ out \in Threads

Enqueue(t) ==
    /\ q' = q_enqueue(q, t)
    /\ UNCHANGED <<quantums_elapsed, out>>

TakeFirst ==
    /\ ~q_is_empty(q)
    /\ q' = q_dequeue(q).queue
    /\ out' = q_dequeue(q).thread
    /\ UNCHANGED quantums_elapsed

TakeShortest ==
    LET taken == q_dequeue_shortest_runtime(q, quantums_elapsed)
    IN  /\ ~q_is_empty(q)
        /\ q' = taken.queue
        /\ out' = taken.thread
        /\ UNCHANGED quantums_elapsed

\* A thread is charged for a quantum, wherever it is.
Charge(t) ==
    /\ quantums_elapsed[t] < MaxQuantums
    /\ quantums_elapsed' = [quantums_elapsed EXCEPT ![t] = @ + 1]
    /\ UNCHANGED <<q, out>>

Next ==
    \/ \E t \in Threads : Enqueue(t) \/ Charge(t)
    \/ TakeFirst
    \/ TakeShortest

Spec == Init /\ [][Next]_<<q, quantums_elapsed, out>>
=============================================================================
