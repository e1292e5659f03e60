----------------------------- MODULE Statistics -----------------------------
(***************************************************************************)
(* The statistics of thread-worker.c: the times a control block keeps, the *)
(* averages that calc_and_update_stats carries from one finished thread to *)
(* the next, and the total of context switches.                            *)
(*                                                                         *)
(* Of the threads only what moves the clocks is here: one thread at a time *)
(* is on the CPU, schedule() dispatches any that is ready, and a thread    *)
(* that failed to lock is made ready by somebody's unlock. An average is a *)
(* fraction, so that no result depends on rounding.                        *)
(***************************************************************************)
EXTENDS Integers, FiniteSets, FiniteSetsExt

CONSTANTS
    Threads,        \* workers; main never finishes
    MaxTime,        \* bound on the clock
    Locks,          \* do threads use a mutex?
    Garbage,        \* what malloc may leave in current_context_switches
    MaxSwitches     \* bound on current_context_switches

VARIABLES
    now,                        \* CLOCK_REALTIME
    status,
    time_enqueued, time_scheduled, time_finished,
    current_context_switches,
    threads_finished_counter,
    tot_cntx_switches, avg_turn_time, avg_resp_time,
    created                     \* when worker_create was called

averages == <<threads_finished_counter, tot_cntx_switches, avg_turn_time,
              avg_resp_time>>
vars == <<now, status, time_enqueued, time_scheduled, time_finished,
          current_context_switches, averages, created>>

\* A timespec of all zeros is a time that was not taken.
Never == 0

Init ==
    /\ now = 1
    /\ status = [t \in Threads |-> "WAITING"]
    /\ time_enqueued = [t \in Threads |-> Never]
    /\ time_scheduled = [t \in Threads |-> Never]
    /\ time_finished = [t \in Threads |-> Never]
    /\ current_context_switches \in [Threads -> Garbage]
    /\ threads_finished_counter = 0
    /\ tot_cntx_switches = 0
    /\ avg_turn_time = [sum |-> 0, of |-> 1]
    /\ avg_resp_time = [sum |-> 0, of |-> 1]
    /\ created = [t \in Threads |-> Never]

-----------------------------------------------------------------------------
Passes ==
    /\ now < MaxTime
    /\ now' = now + 1
    /\ UNCHANGED <<status, time_enqueued, time_scheduled, time_finished,
                   current_context_switches, averages, created>>

\* sch_schedule stamps the thread, whoever calls it: worker_create, and
\* worker_mutex_unlock for a thread it takes off the blocked list.
sch_schedule(t) ==
    /\ status' = [status EXCEPT ![t] = "READY"]
    /\ time_enqueued' = [time_enqueued EXCEPT ![t] = now]
    /\ UNCHANGED <<now, time_scheduled, time_finished,
                   current_context_switches, averages>>

worker_create(t) ==
    /\ status[t] = "WAITING"
    /\ sch_schedule(t)
    /\ created' = [created EXCEPT ![t] = now]

Unlocked(t) ==
    /\ status[t] = "BLOCKED"
    /\ sch_schedule(t)
    /\ UNCHANGED created

\* schedule() up to its swapcontext.
Dispatch(t) ==
    /\ status[t] = "READY"
    /\ \A u \in Threads : status[u] # "RUNNING"
    /\ current_context_switches[t] < MaxSwitches
    /\ status' = [status EXCEPT ![t] = "RUNNING"]
    /\ time_scheduled' = IF time_scheduled[t] = Never
                           THEN [time_scheduled EXCEPT ![t] = now]
                           ELSE time_scheduled
    /\ current_context_switches' =
          [current_context_switches EXCEPT ![t] = @ + 1]
    /\ UNCHANGED <<now, time_enqueued, time_finished, averages, created>>

\* schedule() behind it: a thread that goes back to the run queue is not
\* stamped, one that failed to lock is set aside.
Requeue(t) ==
    /\ status[t] = "RUNNING"
    /\ \E s \in {"READY"} \cup (IF Locks THEN {"BLOCKED"} ELSE {}) :
          status' = [status EXCEPT ![t] = s]
    /\ UNCHANGED <<now, time_enqueued, time_scheduled, time_finished,
                   current_context_switches, averages, created>>

\* The duration between two times, whichever is later.
get_duration_micro(start, end) ==
    IF end < start THEN start - end ELSE end - start

\* The average after one more duration: the sum of the n durations so far is
\* taken from the average of them.
NextAverage(average, n, duration) ==
    [sum |-> average.sum * n + duration * average.of,
     of  |-> average.of * (n + 1)]

\* The sums of both averages are computed from avg_resp_time.
calc_and_update_stats(t, finished) ==
    /\ tot_cntx_switches' = tot_cntx_switches + current_context_switches[t]
    /\ avg_turn_time' =
          NextAverage(avg_resp_time, threads_finished_counter,
                      get_duration_micro(time_enqueued[t], finished))
    /\ avg_resp_time' =
          NextAverage(avg_resp_time, threads_finished_counter,
                      get_duration_micro(time_enqueued[t], time_scheduled[t]))

Finish(t) ==
    /\ status[t] = "RUNNING"
    /\ status' = [status EXCEPT ![t] = "FINISHED"]
    /\ time_finished' = [time_finished EXCEPT ![t] = now]
    /\ calc_and_update_stats(t, now)
    /\ threads_finished_counter' = threads_finished_counter + 1
    /\ UNCHANGED <<now, time_enqueued, time_scheduled,
                   current_context_switches, created>>

Next ==
    \/ Passes
    \/ \E t \in Threads :
          \/ worker_create(t) \/ Unlocked(t)
          \/ Dispatch(t) \/ Requeue(t) \/ Finish(t)

Spec == Init /\ [][Next]_vars

-----------------------------------------------------------------------------
(***************************************************************************)
(* Properties                                                              *)
(***************************************************************************)

Finished == {t \in Threads : status[t] = "FINISHED"}

IsMean(average, durations) ==
    average.sum * Cardinality(Finished)
        = average.of * MapThenSumSet(LAMBDA t : durations[t], Finished)

\* avg_turn_time is the mean of the times from the creation of a thread to its
\* end, over the threads that have ended, as the comments in thread-worker.h
\* (lines 44-48) and in calc_and_update_stats (thread-worker.c:405) say.
TurnaroundIsMean ==
    Finished # {} =>
        IsMean(avg_turn_time,
               [t \in Finished |-> time_finished[t] - created[t]])
=============================================================================
