---------------------------- MODULE ThreadWorker ----------------------------
(***************************************************************************)
(* The user-level thread library of Project2/code/thread-worker.c: thread  *)
(* creation, yield, exit and join, the mutex, the timer handler and the    *)
(* scheduler loop under its three policies.                                *)
(*                                                                         *)
(* One kernel thread runs everything. At any time it is in the code of one *)
(* thread (cpu = "thread"), or in schedule(), either behind the            *)
(* swapcontext that brought it there (cpu = "requeue"), behind the count   *)
(* of a finished thread (cpu = "counted"), or in front of the choice of    *)
(* the next thread (cpu = "dispatch"). pc[t] is the point at which thread  *)
(* t is, or at which its saved context resumes. The labels "user", "cs"    *)
(* and "join" are client code; the others are points inside library calls. *)
(*                                                                         *)
(* Time. Every queue operation of the library restarts the one interval    *)
(* timer with a whole TIME_QUANTUM, so no tick is modelled between a queue *)
(* operation and the code that follows it in the same call (but inside the *)
(* first worker_create, which allocates a stack behind sch_init). With     *)
(* LibraryTicks ticks come at every other point of the library at which    *)
(* they make a difference; without, they come in client code, in the loop  *)
(* of worker_join and in the idle loop of schedule() only.                 *)
(*                                                                         *)
(* Undefined behaviour ends a run of the model: fault records which.       *)
(***************************************************************************)
EXTENDS Integers, Sequences, FiniteSets, ThreadQueue

CONSTANTS
    MAX_THREADS,    \* slots of thread_table
    Policy,         \* the compile-time choice of the Makefile's SCHED
    Mutexes,        \* initialised mutexes
    NoMutex,        \* not a mutex
    Values,         \* non-NULL values a thread may end with
    NumWorkers,     \* worker_create calls the main thread makes
    Work,           \* library calls a thread makes before it ends
    Spinners,       \* threads that compute forever and never end or yield
    SetPrios,       \* priorities passed to worker_setschedprio
    ChecksLock,     \* do clients test what worker_mutex_lock returns?
    LibraryTicks,   \* may a quantum end inside a library call?
    MaxQuantums,    \* bound on quantums_elapsed
    MainQuantums,   \* what malloc may have left in main's quantums_elapsed
    MaxFinished     \* bound on threads_finished_counter where a tick makes
                    \* schedule() count a finished thread again

NULL == -1                  \* NULL pointers, and the owner of a free mutex
Main == 0                   \* the thread id of main()
Threads == 0 .. (MAX_THREADS - 2)
Prios == 0 .. 3             \* NUMPRIO queues
HIGH_PRIO == 3
DEFAULT_PRIO == 1
LOW_PRIO == 0
REFRESH_QUANTUM == 3

\* The range of int, the type of quantums_elapsed.
INT_MIN == -2147483647 - 1
INT_MAX == 2147483647
Quantums == INT_MIN .. MaxQuantums

ASSUME ConstantsAssumption ==
    /\ MAX_THREADS \in Nat /\ MAX_THREADS >= 3
    /\ Policy \in {"PSJF", "MLFQ", "MATRIX"}
    /\ NoMutex \notin Mutexes
    /\ NULL \notin Values
    /\ NumWorkers \in Nat
    /\ Work \in [Threads -> Nat]
    /\ Spinners \subseteq Threads \ {Main}
    /\ SetPrios \subseteq Prios
    /\ ChecksLock \in BOOLEAN
    /\ LibraryTicks \in BOOLEAN
    /\ MaxQuantums \in 0 .. INT_MAX
    /\ MainQuantums \subseteq Quantums
    /\ MaxFinished \in Nat

VARIABLES
    \* fields of the thread control blocks, by thread id
    status, priority, quantums_elapsed, return_value,
    \* the scheduler and the counters of the library
    thread_id_counter, current_thread, run_queue, cpu,
    time_quantum_counter, threads_finished_counter,
    \* the mutexes
    mutex,
    \* the client: where a thread is, the mutex it works with, the calls it
    \* has left, and what it ended with; for main the worker_create calls to
    \* come, the thread it joins next and what its joins returned
    pc, using, work, passed, to_create, joining, joined,
    \* "none", or the undefined behaviour that was reached
    fault

tcbVars    == <<status, priority, quantums_elapsed, return_value>>
schedVars  == <<thread_id_counter, current_thread, run_queue, cpu,
                time_quantum_counter, threads_finished_counter>>
clientVars == <<pc, using, work, passed, to_create, joining, joined>>
vars       == <<tcbVars, schedVars, mutex, clientVars, fault>>

Statuses == {"WAITING", "READY", "RUNNING", "BLOCKED", "FINISHED"}
Faults   == {"none", "null_deref", "stale_context", "context_lost"}

\* Where a worker_yield that switched resumes.
YieldReturn == [yield_user |-> "user", yield_cs |-> "cs", yield_join |-> "join"]

\* Client code, in which a tick may always come.
ClientLabels == {"user", "cs", "join"}

\* Points of the library at which a quantum may end: all but the one between
\* two queue operations of worker_mutex_unlock.
LibraryLabels ==
    {"create", "yield_user", "yield_cs", "yield_join", "exit_value",
     "lock_won", "lock_fail", "lock_park", "unlock_owner", "unlock_drain",
     "unlock_take"}

Labels == ClientLabels \cup LibraryLabels
            \cup {"none", "unlock_more", "past_exit", "done", "exited"}

TypeOK ==
    /\ status \in [Threads -> Statuses]
    /\ priority \in [Threads -> Prios]
    /\ quantums_elapsed \in [Threads -> Quantums]
    /\ return_value \in [Threads -> Values \cup {NULL}]
    /\ thread_id_counter \in 0 .. (MAX_THREADS - 1)
    /\ current_thread \in Threads \cup {NULL}
    /\ run_queue \in [Prios -> QueueOf(Threads)]
    /\ cpu \in {"thread", "requeue", "counted", "dispatch"}
    /\ time_quantum_counter \in 0 .. (REFRESH_QUANTUM - 1)
    /\ threads_finished_counter \in Nat
    /\ mutex \in [Mutexes -> [locked : BOOLEAN, owner : Threads \cup {NULL},
                              blocked_threads : QueueOf(Threads)]]
    /\ pc \in [Threads -> Labels]
    /\ using \in [Threads -> Mutexes \cup {NoMutex}]
    /\ work \in [Threads -> Nat]
    /\ passed \in [Threads -> Values \cup {NULL}]
    /\ to_create \in 0 .. NumWorkers
    /\ joining \in Nat
    /\ joined \in [Threads -> Values \cup {NULL}]
    /\ fault \in Faults

Init ==
    /\ status = [t \in Threads |-> "WAITING"]
    /\ priority = [t \in Threads |-> DEFAULT_PRIO]
    /\ \E q \in MainQuantums :
          quantums_elapsed = [t \in Threads |-> IF t = Main THEN q ELSE 0]
    /\ return_value = [t \in Threads |-> NULL]
    /\ thread_id_counter = 0
    /\ current_thread = NULL
    /\ run_queue = [p \in Prios |-> q_init]
    /\ cpu = "thread"
    /\ time_quantum_counter = 0
    /\ threads_finished_counter = 0
    /\ mutex = [m \in Mutexes |-> [locked |-> FALSE, owner |-> NULL,
                                   blocked_threads |-> q_init]]
    /\ pc = [t \in Threads |-> IF t = Main THEN "user" ELSE "none"]
    /\ using = [t \in Threads |-> NoMutex]
    /\ work = Work
    /\ passed = [t \in Threads |-> NULL]
    /\ to_create = NumWorkers
    /\ joining = 0
    /\ joined = [t \in Threads |-> NULL]
    /\ fault = "none"

-----------------------------------------------------------------------------
(***************************************************************************)
(* Helpers                                                                 *)
(***************************************************************************)

\* Until the first tick hands the CPU to schedule(), main runs although
\* current_thread is NULL.
OnCpu == IF current_thread = NULL THEN Main ELSE current_thread

\* The process goes on; it ends when main returns.
Alive == fault = "none" /\ pc[Main] # "exited"

At(t, l) == Alive /\ cpu = "thread" /\ OnCpu = t /\ pc[t] = l

Created(t) == t < thread_id_counter

Goto(t, l) == pc' = [pc EXCEPT ![t] = l]

\* One of the calls t makes; spinners never run out of them.
CanCall(t) == work[t] > 0
Spend(t) == work' = IF t \in Spinners THEN work
                                      ELSE [work EXCEPT ![t] = @ - 1]

\* swapcontext(current_thread->context, scheduler_context)
SwapToScheduler == cpu' = "requeue"

\* MaxQuantums bounds the count: MLFQ never reads it and the model stops
\* counting there, under the other policies no thread is dispatched beyond.
Elapsed(q) == IF q < MaxQuantums THEN q + 1 ELSE q

ChargeQuantum(t) ==
    quantums_elapsed' = [quantums_elapsed EXCEPT ![t] = Elapsed(@)]

\* The queue a thread is put into.
TargetQueue(t, prio) == IF Policy = "MLFQ" THEN prio[t] ELSE DEFAULT_PRIO

Enqueued(rq, p, t) == [rq EXCEPT ![p] = q_enqueue(@, t)]

sch_schedule(rq, t) == Enqueued(rq, TargetQueue(t, priority), t)

rq_is_all_empty == \A p \in Prios : q_is_empty(run_queue[p])

rq_get_index_highest_nonempty ==
    CHOOSE p \in Prios :
        /\ ~q_is_empty(run_queue[p])
        /\ \A h \in Prios : h > p => q_is_empty(run_queue[h])

TableFull(id) == id >= MAX_THREADS - 1

-----------------------------------------------------------------------------
(***************************************************************************)
(* Thread creation, termination and join                                   *)
(***************************************************************************)

\* The first call runs sch_init, which takes id 0 for main and queues main
\* although it is running. Only main creates threads.
worker_create ==
    /\ At(Main, "user") /\ to_create > 0
    /\ to_create' = to_create - 1
    /\ IF thread_id_counter = 0
         THEN /\ thread_id_counter' = 1
              /\ status' = [status EXCEPT ![Main] = "READY"]
              /\ run_queue' = sch_schedule(run_queue, Main)
         ELSE UNCHANGED <<thread_id_counter, status, run_queue>>
    /\ Goto(Main, IF TableFull(thread_id_counter') THEN "user" ELSE "create")
    /\ UNCHANGED <<priority, quantums_elapsed, return_value, current_thread,
                   cpu, time_quantum_counter, threads_finished_counter, mutex,
                   using, work, passed, joining, joined, fault>>

\* The control block is complete and sch_schedule queues the thread. (Its id
\* is taken before, at line 56; nobody else reads the counter in between.)
PushCreated ==
    /\ At(Main, "create")
    /\ thread_id_counter' = thread_id_counter + 1
    /\ status' = [status EXCEPT ![thread_id_counter] = "READY"]
    /\ run_queue' = sch_schedule(run_queue, thread_id_counter)
    /\ pc' = [pc EXCEPT ![Main] = "user", ![thread_id_counter] = "user"]
    /\ UNCHANGED <<priority, quantums_elapsed, return_value, current_thread,
                   cpu, time_quantum_counter, threads_finished_counter, mutex,
                   using, work, passed, to_create, joining, joined, fault>>

\* The function of the thread returns v to the wrapper, whose own return
\* goes to scheduler_context through uc_link.
thread_function_wrapper(t, v) ==
    /\ At(t, "user") /\ t \notin Spinners \cup {Main}
    /\ passed' = [passed EXCEPT ![t] = v]
    /\ return_value' = [return_value EXCEPT ![t] = v]
    /\ status' = [status EXCEPT ![t] = "FINISHED"]
    /\ Goto(t, "done")
    /\ SwapToScheduler
    /\ UNCHANGED <<priority, quantums_elapsed, thread_id_counter,
                   current_thread, run_queue, time_quantum_counter,
                   threads_finished_counter, mutex, using, work, to_create,
                   joining, joined, fault>>

\* worker_exit(v) marks the thread finished before it stores v.
worker_exit(t, v) ==
    /\ At(t, "user") /\ t \notin Spinners \cup {Main}
    /\ passed' = [passed EXCEPT ![t] = v]
    /\ status' = [status EXCEPT ![t] = "FINISHED"]
    /\ Goto(t, "exit_value")
    /\ UNCHANGED <<priority, quantums_elapsed, return_value, schedVars, mutex,
                   using, work, to_create, joining, joined, fault>>

\* Mutant: the test of value_ptr is inverted.
HasValue_Mutant(v) == v = NULL
HasValue(v) == v # NULL

\* The context that is saved here resumes behind the swapcontext.
StoreExitValue(t) ==
    /\ At(t, "exit_value")
    /\ return_value' = IF HasValue(passed[t])
                         THEN [return_value EXCEPT ![t] = passed[t]]
                         ELSE return_value
    /\ Goto(t, "past_exit")
    /\ SwapToScheduler
    /\ UNCHANGED <<status, priority, quantums_elapsed, thread_id_counter,
                   current_thread, run_queue, time_quantum_counter,
                   threads_finished_counter, mutex, using, work, passed,
                   to_create, joining, joined, fault>>

\* worker_yield does nothing before the first tick and for a thread that is
\* marked blocked.
YieldRefused(t) == current_thread = NULL \/ status[t] = "BLOCKED"

YieldFrom(t, l) ==
    /\ status' = [status EXCEPT ![t] = "READY"]
    /\ Goto(t, l)
    /\ UNCHANGED <<priority, quantums_elapsed, return_value, schedVars, mutex,
                   using, passed, to_create, joined, fault>>

worker_yield(t) ==
    /\ CanCall(t) /\ t \notin Spinners
    /\ Spend(t)
    /\ \/ /\ At(t, "user") \/ At(t, "cs")
          /\ YieldRefused(t)
          /\ UNCHANGED <<tcbVars, schedVars, mutex, pc, using, passed,
                         to_create, joining, joined, fault>>
       \/ /\ At(t, "user") /\ ~YieldRefused(t)
          /\ YieldFrom(t, "yield_user") /\ UNCHANGED joining
       \/ /\ At(t, "cs") /\ ~YieldRefused(t)
          /\ YieldFrom(t, "yield_cs") /\ UNCHANGED joining

YieldSwap(t) ==
    /\ \E l \in DOMAIN YieldReturn : At(t, l)
    /\ Goto(t, YieldReturn[pc[t]])
    /\ SwapToScheduler
    /\ UNCHANGED <<tcbVars, thread_id_counter, current_thread, run_queue,
                   time_quantum_counter, threads_finished_counter, mutex,
                   using, work, passed, to_create, joining, joined, fault>>

JoinDone(t) == status[t] = "FINISHED"

\* Main has created its threads and joins them in the order of their ids;
\* after the last one it returns from main().
StartJoin ==
    /\ At(Main, "user") /\ to_create = 0
    /\ joining' = 1
    /\ Goto(Main, IF Created(1) THEN "join" ELSE "exited")
    /\ UNCHANGED <<tcbVars, schedVars, mutex, using, work, passed, to_create,
                   joined, fault>>

worker_join ==
    /\ At(Main, "join")
    /\ IF JoinDone(joining)
         THEN /\ joined' = [joined EXCEPT ![joining] = return_value[joining]]
              /\ joining' = joining + 1
              /\ Goto(Main, IF Created(joining + 1) THEN "join" ELSE "exited")
              /\ UNCHANGED <<tcbVars, schedVars, mutex, using, work, passed,
                             to_create, fault>>
         ELSE /\ ~YieldRefused(Main)     \* refused: the loop spins
              /\ YieldFrom(Main, "yield_join")
              /\ UNCHANGED <<work, joining>>

\* The build has this function under MLFQ only. It moves nothing.
worker_setschedprio(t, u, p) ==
    /\ Policy = "MLFQ"
    /\ At(t, "user") /\ CanCall(t) /\ Created(u)
    /\ Spend(t)
    /\ priority' = [priority EXCEPT ![u] = p]
    /\ UNCHANGED <<status, quantums_elapsed, return_value, schedVars, mutex,
                   pc, using, passed, to_create, joining, joined, fault>>

-----------------------------------------------------------------------------
(***************************************************************************)
(* The mutex                                                               *)
(***************************************************************************)

\* Mutant: the lock is taken for free whatever it holds.
TestAndSet_Mutant(m) == FALSE
\* __sync_lock_test_and_set returns the old value.
TestAndSet(m) == mutex[m].locked

\* worker_mutex_lock, up to and including the test-and-set.
worker_mutex_lock(t, m) ==
    /\ At(t, "user") /\ CanCall(t)
    /\ Spend(t)
    /\ using' = [using EXCEPT ![t] = m]
    /\ mutex' = [mutex EXCEPT ![m].locked = TRUE]
    /\ Goto(t, IF TestAndSet(m) THEN "lock_fail" ELSE "lock_won")
    /\ UNCHANGED <<tcbVars, schedVars, passed, to_create, joining, joined,
                   fault>>

\* mutex->owner = current_thread->threadId, then return 0.
StoreOwner(t) ==
    /\ At(t, "lock_won")
    /\ IF current_thread = NULL
         THEN fault' = "null_deref" /\ UNCHANGED <<mutex, pc>>
         ELSE /\ mutex' = [mutex EXCEPT ![using[t]].owner = t]
              /\ Goto(t, "cs")
              /\ UNCHANGED fault
    /\ UNCHANGED <<tcbVars, schedVars, using, work, passed, to_create,
                   joining, joined>>

MarkBlocked(t) ==
    /\ At(t, "lock_fail")
    /\ IF current_thread = NULL
         THEN fault' = "null_deref" /\ UNCHANGED <<status, pc>>
         ELSE /\ status' = [status EXCEPT ![t] = "BLOCKED"]
              /\ Goto(t, "lock_park")
              /\ UNCHANGED fault
    /\ UNCHANGED <<priority, quantums_elapsed, return_value, schedVars, mutex,
                   using, work, passed, to_create, joining, joined>>

\* A client that does not test the result goes on as if it had the mutex.
AfterFailedLock == IF ChecksLock THEN "user" ELSE "cs"

\* q_enqueue on the blocked list, worker_yield, return 1. The yield is
\* refused as long as the thread is marked blocked, which it is unless it
\* was switched out and made ready between the two.
Park(t) ==
    /\ At(t, "lock_park")
    /\ mutex' = [mutex EXCEPT
                   ![using[t]].blocked_threads = q_enqueue(@, t)]
    /\ Goto(t, AfterFailedLock)
    /\ using' = IF ChecksLock THEN [using EXCEPT ![t] = NoMutex] ELSE using
    /\ IF YieldRefused(t)
         THEN UNCHANGED <<status, cpu>>
         ELSE /\ status' = [status EXCEPT ![t] = "READY"]
              /\ SwapToScheduler
    /\ UNCHANGED <<priority, quantums_elapsed, return_value,
                   thread_id_counter, current_thread, run_queue,
                   time_quantum_counter, threads_finished_counter, work,
                   passed, to_create, joining, joined, fault>>

\* Mutant: the release is forgotten.
Released_Mutant(m) == m
Released(m) == [m EXCEPT !.locked = FALSE]

worker_mutex_unlock(t) ==
    /\ At(t, "cs")
    /\ mutex' = [mutex EXCEPT ![using[t]] = Released(@)]
    /\ Goto(t, "unlock_owner")
    /\ UNCHANGED <<tcbVars, schedVars, using, work, passed, to_create,
                   joining, joined, fault>>

ClearOwner(t) ==
    /\ At(t, "unlock_owner")
    /\ mutex' = [mutex EXCEPT ![using[t]].owner = NULL]
    /\ Goto(t, "unlock_drain")
    /\ UNCHANGED <<tcbVars, schedVars, using, work, passed, to_create,
                   joining, joined, fault>>

ReturnFromUnlock(t) ==
    /\ Goto(t, "user")
    /\ using' = [using EXCEPT ![t] = NoMutex]

\* The first test of while (!q_is_empty(blocked_threads)).
DrainTest(t) ==
    /\ At(t, "unlock_drain")
    /\ IF q_is_empty(mutex[using[t]].blocked_threads)
         THEN ReturnFromUnlock(t)
         ELSE Goto(t, "unlock_take") /\ UNCHANGED using
    /\ UNCHANGED <<tcbVars, schedVars, mutex, work, passed, to_create,
                   joining, joined, fault>>

\* One iteration: q_dequeue, sch_schedule and the next test.
DrainOne(t) ==
    LET blocked == mutex[using[t]].blocked_threads
        taken   == q_dequeue(blocked)
    IN  /\ At(t, "unlock_take") \/ At(t, "unlock_more")
        /\ IF q_is_empty(blocked)
             THEN /\ fault' = "null_deref"
                  /\ UNCHANGED <<status, run_queue, mutex, pc, using>>
             ELSE /\ mutex' = [mutex EXCEPT
                                 ![using[t]].blocked_threads = taken.queue]
                  /\ status' = [status EXCEPT ![taken.thread] = "READY"]
                  /\ run_queue' = sch_schedule(run_queue, taken.thread)
                  /\ IF q_is_empty(taken.queue)
                       THEN ReturnFromUnlock(t)
                       ELSE Goto(t, "unlock_more") /\ UNCHANGED using
                  /\ UNCHANGED fault
        /\ UNCHANGED <<priority, quantums_elapsed, return_value,
                       thread_id_counter, current_thread, cpu,
                       time_quantum_counter, threads_finished_counter, work,
                       passed, to_create, joining, joined>>

-----------------------------------------------------------------------------
(***************************************************************************)
(* The timer                                                               *)
(***************************************************************************)

\* Mutant: the LOW queue is never emptied.
RefreshDue_Mutant == FALSE
RefreshDue == Policy = "MLFQ"
              /\ (time_quantum_counter + 1) % REFRESH_QUANTUM = 0

\* Every thread of the LOW queue goes behind those of the HIGH queue. (Under
\* MLFQ no queue is ever stray.)
Refreshed_MutantLoses(rq) == [rq EXCEPT ![LOW_PRIO] = q_init]
Refreshed_MutantCopies(rq) ==
    [rq EXCEPT ![HIGH_PRIO].items = @ \o rq[LOW_PRIO].items]
Refreshed(rq) ==
    [rq EXCEPT ![HIGH_PRIO].items = @ \o rq[LOW_PRIO].items,
               ![LOW_PRIO] = q_init]

\* The part of timer_schedule_handler under #ifdef MLFQ.
RefreshLow ==
    /\ time_quantum_counter' =
          IF Policy = "MLFQ" THEN (time_quantum_counter + 1) % REFRESH_QUANTUM
                             ELSE time_quantum_counter
    /\ IF RefreshDue
         THEN /\ priority' =
                   [t \in Threads |->
                      IF \E i \in 1..Len(run_queue[LOW_PRIO].items) :
                            run_queue[LOW_PRIO].items[i] = t
                        THEN HIGH_PRIO ELSE priority[t]]
              /\ run_queue' = Refreshed(run_queue)
         ELSE UNCHANGED <<priority, run_queue>>

\* The tick that interrupts thread t. schedule() starts from its top on the
\* first one and continues behind its swapcontext on later ones.
timer_schedule_handler(t) ==
    /\ Alive /\ cpu = "thread" /\ OnCpu = t /\ thread_id_counter > 0
    /\ pc[t] \in ClientLabels \cup (IF LibraryTicks THEN LibraryLabels ELSE {})
    /\ RefreshLow
    /\ cpu' = IF current_thread = NULL THEN "dispatch" ELSE "requeue"
    /\ UNCHANGED <<status, quantums_elapsed, return_value, thread_id_counter,
                   current_thread, threads_finished_counter, mutex,
                   clientVars, fault>>

\* A tick that interrupts schedule() saves that point as the context of the
\* current thread, or of main, and resumes schedule() behind its swapcontext.
IdleTick ==
    /\ cpu = "dispatch" /\ current_thread = NULL
    /\ \/ rq_is_all_empty                      \* the loop of line 289
       \/ /\ LibraryTicks                      \* behind line 347 or 360
          /\ \E t \in Threads : status[t] \in {"BLOCKED", "FINISHED"}
    /\ fault' = "null_deref"
    /\ UNCHANGED <<quantums_elapsed, cpu, pc>>

\* The context of a thread that goes on is overwritten.
TickWhileRequeued ==
    /\ LibraryTicks /\ cpu = "requeue"
    /\ status[current_thread] # "FINISHED"
    /\ fault' = "context_lost"
    /\ UNCHANGED <<quantums_elapsed, cpu, pc>>

\* A finished thread is charged and counted again from line 322 on, as long
\* as it is the current thread: the tick came in front of line 322 or behind
\* it (cpu = "requeue"), or behind the count (cpu = "counted").
TickWhileFinished ==
    /\ LibraryTicks /\ cpu \in {"requeue", "counted"}
    /\ status[current_thread] = "FINISHED"
    /\ cpu = "counted" => threads_finished_counter < MaxFinished
    /\ cpu' = "requeue"
    /\ \/ UNCHANGED quantums_elapsed
       \/ cpu = "requeue" /\ ChargeQuantum(current_thread)
    /\ Goto(current_thread, "done")
    /\ UNCHANGED fault

TickInScheduler ==
    /\ Alive
    /\ IdleTick \/ TickWhileRequeued \/ TickWhileFinished
    /\ RefreshLow
    /\ UNCHANGED <<status, return_value, thread_id_counter, current_thread,
                   threads_finished_counter, mutex, using, work, passed,
                   to_create, joining, joined>>

-----------------------------------------------------------------------------
(***************************************************************************)
(* The scheduler loop                                                      *)
(***************************************************************************)

\* Mutant: a finished thread goes back into the run queue.
MayContinue_Mutant(s) == s # "BLOCKED"
MayContinue(s) == s \in {"RUNNING", "READY"}

\* Mutant: every thread that is not READY counts as finished.
FinishedAfter_Mutant(s) ==
    threads_finished_counter + (IF s # "READY" THEN 1 ELSE 0)
FinishedAfter(s) ==
    threads_finished_counter + (IF s = "FINISHED" THEN 1 ELSE 0)

\* Mutant: the priority is not kept above LOW_PRIO.
LowerPrio_Mutant(p) == p - 1
LowerPrio(p) == IF p - 1 > LOW_PRIO THEN p - 1 ELSE LOW_PRIO

\* schedule() behind its swapcontext.
Requeue ==
    LET c == current_thread
        s == status[c]
        p == IF Policy = "MLFQ" THEN [priority EXCEPT ![c] = LowerPrio(@)]
                                ELSE priority
    IN  /\ Alive /\ cpu = "requeue"
        /\ ChargeQuantum(c)
        /\ threads_finished_counter' = FinishedAfter(s)
        /\ \/ /\ MayContinue(s)
              /\ status' = [status EXCEPT ![c] = "READY"]
              /\ priority' = p
              /\ run_queue' = Enqueued(run_queue, TargetQueue(c, p), c)
              /\ cpu' = "dispatch"
              /\ UNCHANGED current_thread
           \/ /\ s = "BLOCKED"
              /\ current_thread' = NULL
              /\ cpu' = "dispatch"
              /\ UNCHANGED <<status, priority, run_queue>>
           \/ /\ s = "FINISHED" /\ ~MayContinue(s)
              /\ cpu' = "counted"
              /\ UNCHANGED <<status, priority, run_queue, current_thread>>
        /\ UNCHANGED <<return_value, thread_id_counter, time_quantum_counter,
                       mutex, clientVars, fault>>

\* The finished thread has been counted and is forgotten.
Forget ==
    /\ Alive /\ cpu = "counted"
    /\ current_thread' = NULL
    /\ cpu' = "dispatch"
    /\ UNCHANGED <<tcbVars, thread_id_counter, run_queue,
                   time_quantum_counter, threads_finished_counter, mutex,
                   clientVars, fault>>

sched_psjf == [p |-> DEFAULT_PRIO,
               taken |-> q_dequeue_shortest_runtime(run_queue[DEFAULT_PRIO],
                                                    quantums_elapsed)]

sched_mlfq == LET p == rq_get_index_highest_nonempty
              IN  [p |-> p, taken |-> q_dequeue(run_queue[p])]

sched_matrix == [p |-> DEFAULT_PRIO,
                 taken |-> q_dequeue_longest_runtime(run_queue[DEFAULT_PRIO],
                                                     quantums_elapsed)]

Chosen == CASE Policy = "PSJF"   -> sched_psjf
            [] Policy = "MLFQ"   -> sched_mlfq
            [] Policy = "MATRIX" -> sched_matrix

\* worker_exit returns to its caller when its thread, finished but found in
\* the list of a mutex, is made ready and gets the CPU again.
Resumed(l) == IF l = "past_exit" THEN "user" ELSE l

\* schedule() up to its swapcontext. The context of a thread whose function
\* returned is stale: what runs when it is resumed is undefined.
Dispatch ==
    /\ Alive /\ cpu = "dispatch" /\ ~rq_is_all_empty
    /\ LET t == Chosen.taken.thread
       IN  /\ Policy = "MLFQ" \/ quantums_elapsed[t] < MaxQuantums
           /\ run_queue' = [run_queue EXCEPT ![Chosen.p] = Chosen.taken.queue]
           /\ current_thread' = t
           /\ status' = [status EXCEPT ![t] = "RUNNING"]
           /\ cpu' = "thread"
           /\ Goto(t, Resumed(pc[t]))
           /\ fault' = IF pc[t] = "done" THEN "stale_context" ELSE fault
    /\ UNCHANGED <<priority, quantums_elapsed, return_value,
                   thread_id_counter, time_quantum_counter,
                   threads_finished_counter, mutex, using, work, passed,
                   to_create, joining, joined>>

-----------------------------------------------------------------------------
\* What thread t does by itself.
Step(t) ==
    \/ t = Main /\ (worker_create \/ PushCreated \/ StartJoin \/ worker_join)
    \/ \E v \in Values \cup {NULL} :
          thread_function_wrapper(t, v) \/ worker_exit(t, v)
    \/ StoreExitValue(t)
    \/ worker_yield(t)
    \/ YieldSwap(t)
    \/ \E u \in Threads, p \in SetPrios : worker_setschedprio(t, u, p)
    \/ \E m \in Mutexes : worker_mutex_lock(t, m)
    \/ StoreOwner(t) \/ MarkBlocked(t) \/ Park(t)
    \/ worker_mutex_unlock(t) \/ ClearOwner(t) \/ DrainTest(t) \/ DrainOne(t)

\* The process ended, or its behaviour is no longer defined.
Ended == ~Alive /\ UNCHANGED vars

Next ==
    \/ \E t \in Threads : Step(t) \/ timer_schedule_handler(t)
    \/ TickInScheduler
    \/ Requeue
    \/ Forget
    \/ Dispatch
    \/ Ended

Spec == Init /\ [][Next]_vars

(***************************************************************************)
(* Fairness. The library's own code never waits. A thread executes its     *)
(* instructions whenever it is on the CPU, at least one per quantum        *)
(* (strong fairness, for ticks take the CPU away in between). A tick is    *)
(* certain only where the interval timer is left alone long enough: while  *)
(* main spins in worker_join before the first tick, and while a spinner    *)
(* computes.                                                               *)
(***************************************************************************)
Fairness ==
    /\ WF_vars(Requeue)
    /\ WF_vars(Forget)
    /\ WF_vars(Dispatch)
    /\ \A t \in Threads \ Spinners : SF_vars(Step(t))
    /\ WF_vars(current_thread = NULL /\ timer_schedule_handler(Main))
    /\ \A t \in Spinners : WF_vars(timer_schedule_handler(t))

FairSpec == Spec /\ Fairness

-----------------------------------------------------------------------------
(***************************************************************************)
(* Properties                                                              *)
(***************************************************************************)

\* Occurrences of t in a queue.
Count(q, t) == Cardinality({i \in 1..Len(q.items) : q.items[i] = t})

\* The scheduler has t on the CPU, or has not yet decided where it goes.
OnBoard(t) == cpu \in {"thread", "requeue"} /\ current_thread = t

InRunQueue(t) == Count(run_queue[0], t) + Count(run_queue[1], t)
                 + Count(run_queue[2], t) + Count(run_queue[3], t)

BlockedOn(t) == {m \in Mutexes : Count(mutex[m].blocked_threads, t) > 0}

Unfinished(t) == Created(t) /\ status[t] # "FINISHED"

\* A thread that has not finished is on the CPU, in a run queue or in the
\* list of a mutex: no path of schedule(), of the handler or of the queue
\* functions drops it (lines 242-371, 504-612).
NoLostThread ==
    \A t \in Threads : fault = "none" /\ Unfinished(t)
        => OnBoard(t) \/ InRunQueue(t) > 0 \/ BlockedOn(t) # {}

\* A thread waits in the run queues at most once, and only while it is
\* unfinished and off the CPU: nothing runs twice or after its end.
NoDuplicate ==
    \A t \in Threads :
        InRunQueue(t) <= (IF Unfinished(t) /\ ~OnBoard(t) THEN 1 ELSE 0)

\* FINISHED_STATUS is final: no path makes a finished thread ready or
\* running again (README.md:33).
FinishedIsFinal ==
    [][\A t \in Threads :
          status[t] = "FINISHED" => status'[t] = "FINISHED"]_vars

\* worker_join returns what the thread ended with, by return or through
\* worker_exit (lines 137-177).
JoinReturnsResult ==
    \A t \in 1 .. (joining - 1) : joined[t] = passed[t]

\* threads_finished_counter, the divisor of the averages in
\* calc_and_update_stats, counts each finished thread once.
FinishedCounted ==
    fault = "none" => threads_finished_counter =
        Cardinality({t \in Threads : status[t] = "FINISHED" /\ ~OnBoard(t)})

\* The scheduler never idles with its timer running, which ends in the NULL
\* dereference of line 322, and resumes no finished thread.
NoFault == fault = "none"

\* The program comes to its end: main joins every thread.
Completes == <>(pc[Main] = "exited")

\* Every thread that is ready gets the CPU, even when others compute forever
\* and raise their own priority: the refresh of line 249 is for that.
NoStarvation ==
    \A t \in Threads :
        (status[t] = "READY") ~> (cpu = "thread" /\ OnCpu = t)

\* Threads that took a mutex and have not released it.
Holders(m) == {t \in Threads :
                 using[t] = m /\ pc[t] \in {"lock_won", "cs", "yield_cs"}}

\* At most one thread is between worker_mutex_lock and worker_mutex_unlock.
MutualExclusion ==
    \A m \in Mutexes : \A t, u \in Holders(m) : t = u

\* The lock word tells the truth: it is set exactly while some thread holds
\* the mutex, so a free mutex can be taken and a held one cannot.
LockedWhileHeld ==
    \A m \in Mutexes : mutex[m].locked <=> Holders(m) # {}

=============================================================================
