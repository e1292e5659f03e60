# Verification of the thread library and the virtual memory of this repository

The repository has three projects. `src/Project2/code` is a user-level thread
library (`thread-worker.c`): threads, a mutex, a timer and a scheduler with
three policies. `src/Project3/code` is a user-level virtual memory (`my_vm.c`,
with the variants `my_vm_frag.c` and `my_vm64.c`): page tables, a TLB, bitmaps
and an allocator. `src/Project1` holds small exercises. This directory models
the first two in TLA+, checks the models with TLC and proves theorems about
them with TLAPS. `PROJECT.json` lists components, runs, mutants, the source
lines of every definition, hazards, findings and theorems.

## Inventory

### Thread library (`Project2/code/thread-worker.c`, `.h`)

| Component | State | Operations | What makes it correct |
| --- | --- | --- | --- |
| Thread operations | the control blocks of `thread_table` (status, priority, quantums, return value, context), `thread_id_counter` | `worker_create`, `worker_yield`, `worker_exit`, `worker_join`, `worker_setschedprio`, the wrapper around a thread's function | no thread is lost or runs twice, a join returns what the thread ended with, a finished thread stays finished |
| Mutex | `locked`, `owner`, `blocked_threads` | `worker_mutex_lock`, `worker_mutex_unlock`, `init`, `destroy` | mutual exclusion; the lock word tells whether somebody holds it |
| Scheduler | `current_thread`, `run_queue` (4 queues), `scheduler_context` | `sch_init`, `sch_schedule`, `schedule` with `sched_psjf`, `sched_mlfq`, `sched_matrix` | every ready thread runs again; it never resumes a finished context or a NULL thread |
| Timer | the interval timer, `time_quantum_counter` | `timer_schedule_handler`, `create_timer`, enabling and disabling | refreshing the LOW queue starves nobody and drops nobody |
| Queues | nodes, `head`, `tail` | `q_*`, `rq_*` | what is queued comes out once |
| Statistics | the times of the control blocks, counters of switches and finished threads, two averages | `calc_and_update_stats`, `get_duration_micro`, `print_app_stats` | the averages are means over the threads that ended, each counted once |

The components share memory and run on one kernel thread. A thread reaches the
scheduler by `swapcontext` from `worker_yield`, by the end of its function
(`uc_link`), or because SIGALRM arrives and the handler swaps contexts. What is
hard is the order of these: a tick may come between any two instructions of the
library, the scheduler itself can be interrupted, main runs without being
`current_thread` until the first tick, a failed lock returns to its caller, and
`schedule` continues behind its own `swapcontext`.

### Virtual memory (`Project3/code/my_vm.c`, `.h`)

| Component | State | Operations | What makes it correct |
| --- | --- | --- | --- |
| Page table and allocator | page directory, second-level tables, two bitmaps | `set_physical_mem`, `map_page`, `translate`, `n_malloc`, `n_free` | tables and bitmaps agree; allocations overlap nowhere |
| TLB | direct-mapped entries | `TLB_add`, `TLB_check`, `TLB_remove` | a valid entry says what the page table says |
| Data access | the physical memory | `put_data`, `get_data`, `mat_mult` | a read returns what was last written there |
| `my_vm_frag` | the same and `page_metadata` | `n_malloc` that packs small allocations, `n_free` | packed allocations overlap nowhere and stay mapped |
| `my_vm64` | a tree of four levels of tables, allocated on the way | as `my_vm` | the tree is a tree, loses no table and says what the flat table of `my_vm` says |

All public calls take `global_lock` for their whole length, except `mat_mult`,
which is a client of `get_data` and `put_data`. What is hard: five structures
that must agree through failures in the middle of a call, stale TLB entries,
translations of pages that have no frame, addresses with an offset, and the end
of the address space.

### Left out

The context-switching samples, the printing of queues and reports, and
Project1 (a handler that patches its return address, two pthread counters, bit
functions that `my_vm.c` repeats) have no state that the library depends on. So
have the benchmarks, whose shape is in the clients of the models. See "Not
modelled" below.

## Modules

| Module | Models | Its state and actions in the code |
| --- | --- | --- |
| `ThreadQueue` | the queues | a queue is the list reachable from `head` and whether `tail` still points into it; one operator per `q_*` function |
| `ThreadWorker` | the library, with a client | one action per call, or one per store where the order of stores matters: `worker_mutex_lock`, `StoreOwner`, `MarkBlocked`, `Park`; `worker_exit`, `StoreExitValue`; `worker_create`, `PushCreated`; `Dispatch` and `Requeue` are the two sides of the `swapcontext` in `schedule`, `Forget` is line 360 |
| `RunQueue` | what `ThreadWorker` assumes of a queue: `ThreadQueue`'s operators as a state machine | abstract specification |
| `QueueNodes` | the queues as nodes and pointers, and the memory they live in | `head`, `tail`, `next`, the nodes allocated; `q_dequeue` and its later `free` are two actions, because the timer runs again in between |
| `Statistics` | the times, the averages and the total of context switches | a clock, the stamps of `sch_schedule` and `schedule`, `calc_and_update_stats` when a thread ends; the run queue is any order |
| `MCThreadWorker`, `MCQueueNodes` | instances for TLC | |
| `ThreadWorkerTypeProofs` | proofs about the mutex, the types of the thread library and where its threads are | |
| `ThreadWorkerQueueProofs` | proofs about run queues, finished threads and joins | extends the types |
| `QueueNodesProofs` | proofs about the nodes; they implement `RunQueue` | |
| `VirtualMemory` | the promise of `my_vm.c`: allocations and their bytes, no page tables | abstract specification |
| `MyVm` | `my_vm.c` | `call` is the call that holds `global_lock`; a Begin action for its first part, one action for each page of its loop, an End action for its return |
| `MyVmRefinement` | invariants of `MyVm`, its refinement mapping to `VirtualMemory` | |
| `MyVmFrag` | `my_vm_frag.c` | extends `MyVm`: `page_metadata`, packing in `n_malloc`, accounting in `n_free`; the rest of its code repeats `my_vm.c` |
| `MyVm64` | `my_vm64.c` | the tree of tables with `translate`, `map_page` and the unchecked walk of `n_free`, otherwise the actions of `MyVm`, which it implements |
| `MCMyVm`, `MCMyVmFrag`, `MCMyVm64` | instances for TLC | |
| `MyVmProofs` | proofs about the tables | |
| `MyVmAllocationProofs` | proofs about allocations and undefined behaviour | extends `MyVmProofs` |
| `MyVmRefinementProofs` | `MyVm` implements `VirtualMemory`; reads return writes | extends `MyVmAllocationProofs` |
| `MyVmFragProofs` | proofs about the tables and the packing of `MyVmFrag` | extends `MyVmProofs` |
| `MyVm64Proofs` | the tree of `MyVm64` is sound and implements `MyVm`, so that what is proved of `my_vm.c` holds | extends `MyVm64`, instances `MyVmRefinementProofs` |

### ThreadWorker in detail

`cpu` says whether the kernel thread is in a thread, behind the scheduler's
`swapcontext` (`requeue`), behind the count of a finished thread and before
`current_thread = NULL` (`counted`), or before the choice of the next thread
(`dispatch`). `pc[t]` is where thread `t` is or where its saved context resumes.
`OnCpu` is main while
`current_thread` is NULL, as in the code. The client is the shape of the
benchmarks: main creates threads and joins them in order, workers yield, set
priorities, lock, unlock and end by return or by `worker_exit`.

Ticks. Each queue operation restarts the timer with a whole quantum, so no tick
is placed between it and the rest of its call. `LibraryTicks` puts ticks at
every other point of the library at which they make a difference
(`LibraryLabels` for the calls, inside `worker_create` too; `TickInScheduler` for
`schedule`); otherwise ticks come in client code, in the loop of `worker_join`
and in the idle loop of `schedule`. A tick that interrupts `schedule` makes it
go on at line 322. With a thread that continues, its context is overwritten
(`TickWhileRequeued`). With a finished one the branch of line 350 starts again, so
that the thread is counted twice if the tick comes behind the count
(`TickWhileFinished`). A quantum is long
against a library call, which is why some properties are checked without
`LibraryTicks`: the hazards name those that fail with it.

Undefined behaviour (`null_deref`, `stale_context`, `context_lost` in
`ThreadWorker`; `null_deref`, `wild_memcpy` in `MyVm`) is recorded in `fault`
and ends the behaviour. With a mutex a thread that ended may get the CPU again:
one that ended through `worker_exit` goes on behind the `swapcontext` of line 148,
that is, returns to its caller (`Resumed`); one whose function returned has no
frame left to go on in (`stale_context`). Memory that `malloc` returned is
arbitrary: `Junk` for physical memory, and for `quantums_elapsed` of main's control
block any set `MainQuantums` of values of an `int` up to `MaxQuantums`, negative
ones included. The runs start it at 0; what other starts do is said with
`MainNeverLost` below.

### MyVm in detail

An address is a page and an offset. Page 0 and frame 0 are marked used by
`set_physical_mem` and double as NULL, and the model keeps that. `translate`
returns the start of the frame on a TLB hit and adds the offset on a walk, as
the code does, and it caches unmapped pages as frame 0.
`Clients` chooses what clients do: `"any"` passes any address and size to any
call, `"legal"` keeps to its allocations, `"aligned"` also accesses them at page
boundaries only. `live` and, in `MyVmFrag`, `held` are what clients were given:
they have no counterpart in the code and no table depends on them.

In `MyVmFrag` the clients are `"legal"`, or `"alone"`: they allocate at most a
page and free an allocation only while it is the only one in its page. So a free of
theirs always empties its page. A free that leaves something in it (line 557
with room left) is what `vm_frag_free` is about, and allocations of more than a
page, whose unsigned `PGSIZE - num_bytes` wraps, are modelled in `NewPage` and
reached by no run that passes.

### QueueNodes in detail

A queue's nodes are addresses of a small set; `malloc` may return any that is
not in use, freed ones included. `q_dequeue` takes a node off the list, restarts
the timer, and only then reads the thread from it and frees it: `unlinked` holds the
nodes between the two, so that other threads queue and dequeue in the meantime.
`TailIsLast` and `NoLeak` say what the use of `q_dequeue` alone keeps; under PSJF
and MATRIX `q_dequeue_shortest_runtime` leaves the tail behind and frees nothing.
`ImplementsRunQueue` holds for both kinds of dequeueing. It is where the order of
`q_dequeue_longest_runtime`, which is that of the shortest, is derived from the
code.

### MyVm64 in detail

`node` is the sequence of the tables allocated; an entry is the index of a table
below, or a frame in the last level. `IndexAt` cuts a page number into its parts
with the powers of `TableSize` (`Power`), `Walk` follows the parts
of an address, `WithTables` adds the tables that `map_page` misses on its way.
The mapping to `MyVm` flattens the tree: `ImplementsMyVm` says that every step of
`my_vm64.c` is one of `my_vm.c`, for clients that call anything.
`NullOnlyBeforeMalloc` is about the walk of `n_free`, which tests neither the
directory nor the tables it goes through: the only NULL it can meet is the
directory of a free before any `n_malloc`.

`get_next_avail_virtual` multiplies a page number by `PGSIZE` in `int` and
converts the product to a 64-bit address. From page 2^19 on the product is
negative and the address lies outside of the 4 GB of pages. In `my_vm.c` the same
product wraps to the right 32-bit address. `AddressFits` is the limit; an
allocation above it takes `MallocOutside`, which stores a fault and ends the
behaviour (`Undefined`). So the refinement is about behaviours up to that
allocation. It is not a remote one: the search is first-fit, but a few rounds of
large allocations and frees push it into the upper half.

## Runs

| Run | Instance | Shows |
| --- | --- | --- |
| `mlfq` | main and 2 workers, a refused third, one yield or change of priority (LOW or HIGH) each by main and worker 1, no mutex, fair | no thread is lost, queued twice or counted twice, joins return results, nothing faults, the program ends |
| `refresh` | a spinner that sets MEDIUM, 2 more workers, fair | nobody starves |
| `mutex` | 2 workers, with 2 calls and with 1, one mutex, ticks in the library | mutual exclusion and an honest lock word, even after threads were lost or came back from `worker_exit` |
| `vm_aligned` | 5 pages, 4 frames, TLB of 2, pages of 2 bytes, sizes 1 and 3 | tables agree, allocations are disjoint, nothing undefined happens, reads return what was written, `MyVm` implements `VirtualMemory` |
| `vm_frag` | 4 pages of 3 bytes, 3 frames, sizes 1 to 3, `"alone"` clients | packed allocations are disjoint and mapped, no byte is lost to the accounting |
| `vm64` | 6 pages of one byte, 4 frames, TLB of 2, tables of 2 in 4 levels, sizes 0 to 2, any call | the tree is sound and implements `MyVm`; `n_free`'s unchecked walk meets no missing table; pages 1 to 3 get mapped |
| `queue` | 2 threads, 5 node addresses, both kinds of dequeueing | nodes and pointers implement `RunQueue`; no freed node is touched |
| `ignored_lock` | clients that ignore the result of `worker_mutex_lock` | finding: two are in the critical section |
| `psjf` | PSJF, no mutex | finding: a thread is lost |
| `statistics` | 2 threads, a clock of 4, no mutex | finding: the average turnaround time is no mean |
| `vm_offset` | accesses with an offset | finding: wrong bytes are read |
| `vm_frag_free` | `"legal"` clients | finding: a page is unmapped under an allocation |

Bounds and why they are enough:

- Two workers next to main make every pairwise order of library steps; the third
  `worker_create` meets the full table. `Work` bounds the calls a thread makes:
  one is enough to change a priority between two requeues, two are enough to
  lock and to do something while locked (yield) before the unlock, which is not
  counted; the other worker then finds the mutex taken.
- `REFRESH_QUANTUM` is the header's value, 3: the refresh falls between any two
  requeues.
- `MaxQuantums` bounds the key of PSJF and MATRIX. Under MLFQ nothing reads it
  and it is 0, where it stops counting. `MaxFinished` bounds how often ticks
  count a finished thread again: the counter is 2 before the last.
- The TLB has two entries for four or five pages and tables have two entries, so
  that pages conflict, evict each other and lie in tables that do not exist.
  Frames are fewer than pages so that an allocation runs out in its middle.
  Sizes stay within a page and cross one.
- The address space wraps at `num_virtual_pages`, as 32-bit addresses do.
- `vm64` has four levels because that is what the code has; with tables of two
  entries, pages 1 to 3 lie in tables that share all or some of the way. The middle
  of the address space, page 3, stands for page 2^19: a run of pages that starts
  behind it does not fit (`AddressFits`), and a longer address space, which
  would map more pages, takes longer to search than it adds. How pages of
  every table meet is what the theorems are about. `NUM_LEVELS` and
  `TableSize` are constants. The size 0 is in this run and not in `vm_aligned`,
  whose states it would multiply beyond what can be searched in minutes.
  `VirtualMemory` describes calls about no bytes (`FreeNothing`,
  `AccessNothing`: they take effect on nothing, whatever their address; without
  them the refinement is false), and `MemoryKeepsItsPromise` below is proved
  with them.
- Five nodes for two threads let a thread be queued twice, as `sch_init` does
  with main, while nodes taken off are not yet freed. PSJF and MATRIX free no
  node: when every address is in use the model stops.
- `Statistics` needs two threads that end and times that differ.

Four runs do not check deadlock, because their models stop: `psjf` at
`MaxQuantums`, `queue` when every address is in use, `statistics` at the end of
its clock, `vm_offset` where a client of `MyVm` reaches undefined behaviour.
Elsewhere a stop is an error; a process that ended, or a memory whose behaviour
is undefined, stutters (`Ended` in `ThreadWorker`, `Undefined` in `MyVm64`). In
`vm_aligned` and `vm_frag` TLC would report undefined behaviour as a deadlock.

Fairness (`ThreadWorker`, used by the two temporal runs): `schedule` never
waits, so `Requeue`, `Forget` and `Dispatch` are weakly fair. A thread that is on the CPU
again and again executes instructions there, since a quantum is longer than an
instruction: strong fairness of `Step(t)`. A tick is assumed only where nothing
re-arms the timer, while main spins in `worker_join` before the first tick and
while a spinner computes. `MyVm` has no liveness property: its calls end by
themselves once they hold the lock, and who gets a pthread mutex is not its
business.

Each property of a passing run has a mutant, a one-line change to a definition
of the model (`*_Mutant` next to the definition it changes) under which the
property fails.

## Theorems

Each theorem holds for every value of the constants that the assumption of its
module allows (`ConstantsAssumption`, `HoldersAssumption`, `NodesAssumption`:
sizes are positive, `MAX_THREADS` is 3 or more, main's quanta start with any
`int` up to `MaxQuantums`, NULL is no address, the address space is finite). A hypothesis beyond that is named below, with the run that
satisfies it. A formula of a run is what the theorem states, so the run is the
small instance of the theorem. TLC has also checked the inductive invariants
themselves, on the instances of these runs and with `LibraryTicks` where a
theorem allows it.

### Thread library

`ThreadWorkerTypeProofs`, mutexes: `LockInv` is inductive under `ChecksLock` (clients test
what `worker_mutex_lock` returns; run `mutex`, and `ignored_lock` shows what
happens without).

- `MutexCorrect` (`MutualExclusion`) and `LockWordCorrect` (`LockedWhileHeld`)
  hold for all policies and ticks anywhere. `LockInv` adds that threads not yet
  created are nowhere, so that `worker_create` makes no holder, and that a thread
  in the middle of a call knows its mutex. No part of it is about the scheduler,
  which is the point: mutual exclusion rests on the test-and-set alone and
  survives threads that are lost, or that come back after their end.

`ThreadWorkerTypeProofs`, types: `TypeInv == TypeOK /\ WhereThreadsAre` is inductive for
every policy, with mutexes, ticks anywhere.

- `TypesCorrect` (`TypeOK`). Types alone are not inductive: that `Dispatch` puts
  a thread on the CPU that exists needs `WhereThreadsAre`, which relates `cpu`,
  `current_thread` and where each thread is.

`ThreadWorkerQueueProofs`, about programs without mutexes (`Mutexes = {}`, as in
`mlfq`, `psjf` and `refresh`). `QueueInv` is
`TypeInv`, no thread twice in the four queues together, `ThreadPlaces` (a queued
thread is created, unfinished and not running; it is finished exactly if its pc
says so) and `Counted`.

- `ThreadQueuedOnce` (`NoDuplicate`) and the action property
  `FinishedStaysFinished` (`FinishedIsFinal`), for every policy and ticks
  anywhere. Not for programs with mutexes: `worker_mutex_lock` leaves a thread that
  runs on a list of blocked threads, and an unlock queues it a second time, or
  after its end.
- `FinishedThreadsCounted` (`FinishedCounted`), for every policy, without
  `LibraryTicks`: with them a tick between lines 355 and 360 counts a thread
  twice. `FinishedThreadsNotMissed` (`NoneMissed`) says what is left with ticks
  anywhere: the counter is never below the number of threads `schedule` has seen
  end.
- `NoThreadLost` (`NoLostThread`), for MLFQ and ticks anywhere: `NothingLost`
  adds that no tail is stray, so that what is enqueued can be reached, and that
  an unfinished thread is on board or queued. Under PSJF and MATRIX it is
  false, as `psjf` shows.
- `MainNeverLost` (`MainIsSafe`), with ticks anywhere, for MLFQ, and for PSJF and
  MATRIX if main's uninitialised `quantums_elapsed` starts at -1 or more
  (`MainStartsAbove`): from its first `worker_create` on main has the CPU or is in a queue the scheduler can
  reach. Under PSJF and MATRIX that is no matter of course, because
  `q_dequeue_shortest_runtime` may leave the tail on a node taken out, and
  whatever is queued next is lost. `MainStays` says why it is not main. The
  queue is `Ordered` by quanta: what waits in front of main has no more than
  main, what waits behind it is sorted and at most one quantum ahead of all
  others. So the last thread is taken only when main is just in front of it, or
  when main is alone; a stray tail therefore stands behind main
  (`StrayBehindMain`) until main is taken, and then the queue is empty and the
  tail reset. `Least` carries the order over the time a thread spends on the
  CPU: whoever was taken had the fewest quanta, and what waits behind main, or
  everything when main was taken, is at most one ahead. For that main may
  start at most one quantum behind its workers, which start at 0. The hypothesis
  is sharp: with a start of -2 TLC finds main, queued last and yet the
  shortest, taken from behind the head; its own next requeue is lost on the
  tail it left, and the scheduler idles until line 322 dereferences NULL. `malloc`
  may leave such a value, which is a hazard the code has. TLC has checked
  `MainStays` under PSJF and MATRIX with three workers.
- `SchedulerNeverFails` (`NoFault`), without `LibraryTicks`, for MLFQ, and for PSJF
  and MATRIX with the same `MainStartsAbove`: as main is never lost and never finished, `schedule` never finds all queues
  empty with its timer running, and nothing that is queued has ended. The
  hazards say what a tick inside the library does.
- `JoinsReturnResults` (`JoinReturnsResult`), for every policy, without
  `LibraryTicks`: a tick between the two stores of `worker_exit` loses the value.
  With mutexes a finished thread may come back and end with another value. `ResultInv` says that a thread that is finished has at most that
  second store to make, and makes it before anybody else runs.

`QueueNodesProofs`: `NodesInv` says that nothing faulted and that `head` leads
along a list of allocated, distinct nodes (`Chain`); with `q_dequeue` these and
the nodes to be freed are all there are and `tail` is the last (`Accounts`); with
`q_dequeue_shortest_runtime` nothing is freed and the tail is the last node or
outside of the list (`Strays`). The list is what the code's loops walk, a
recursive function on nodes; that it is well defined rests on the finiteness of the
address space, by a least-element argument that the module proves.

- `NodeTypesCorrect` (`TypeOK`), `FreedNodesUnused` (`NoUseAfterFree`),
  `NodesAccountedFor` (`NoLeak`), `TailCorrect` (`TailIsLast`).
- `NodesImplementQueue` (`ImplementsRunQueue`): each step of the nodes is a step
  of the abstract queue or a stutter, for both kinds of dequeueing. So the queues
  that the theorems about `ThreadWorker` assume are the ones that nodes and
  pointers make.

### Virtual memory

`MyVmProofs`, for every size of pages, tables, memory and TLB, and clients that
call anything:

- `TypeCorrect` (`TypeOK`).
- `TablesAlwaysAgree` (`TablesAgree`). `TypeOK /\ TablesAgree` is
  inductive. Besides the agreement of bitmaps, page table and TLB it needs
  `PagesToMapAreFree`: `n_malloc` looks for free pages once and maps them one by
  one, so the pages still to come must be free at each step. `FrameOfAddress`
  and `TranslateFrame` show that dividing a translated address gives back the
  frame, which is why `n_free` clears the right bit, with a TLB hit or an offset
  as well; an unmapped page with an offset gives frame 0, which no part of the
  invariant is about.

`MyVmAllocationProofs`, for the same constants:

- `AllocationsNeverOverlap` (`AllocationsDisjoint`). That live
  allocations are disjoint is not inductive: `n_malloc` returns after many steps
  and `n_free` takes as many to unmap. `LiveInv` says of the first that what it
  has mapped so far is nobody's and adds up to the allocation, and of the second
  that what it has yet to unmap is nobody's. That a page mapped anew is in no
  live allocation follows from `PagesToMapAreFree`; that frames are disjoint,
  from `FramesNotShared`.
- `AlignedClientsAreSafe` (`AlignedNeverUndefined`). Without an offset
  `translate` gives the start of a frame or 0 (`TranslateAligned`), and a chunk
  from there ends inside memory (`FrameInMemory`); nothing is live before the
  first `n_malloc`, so no `n_free` finds the directory missing.

`MyVmRefinementProofs`, for `Clients = "aligned"`, as in `vm_aligned`:

- `MemoryKeepsItsPromise` (`ImplementsVirtualMemory`): the initial states map to
  initial states, and each step is a step of `VirtualMemory` or a stutter. Each
  call takes effect at one instant: a put and a free when they begin (the mapping
  counts the bytes yet to be copied as written), an allocation and a get when they
  return. `RefinementInv` conjoins what the other two modules prove and
  `CallInv`: what a call still has to copy lies in a live allocation, and what
  `get_data` has copied is what the frames still hold.
- `AlignedReadsReturnWrites` (`ReadsReturnWrites`): the property that
  `vm_offset` refutes for accesses with an offset holds without one.

`MyVmFragProofs`:

- `FragTypesCorrect` (`FragTypeOK`) and `FragTablesAgree` (`TablesAgree`), for
  both kinds of clients, so also where `n_free` unmaps a page that others share.
  `FragInv` adds `FirstUnmapped` (once `n_free` is past the page it was given, that
  page is unmapped, which matters because the code translates the later pages
  from its address) and `MallocFits` (an `n_malloc` that found pages fits behind
  page 0).
- `AllocationsShareNoByte` (`HeldDisjoint`), `AllocationsStayMapped`
  (`HeldMapped`) and `NoSpaceLost` (`SpaceAccounted`), for `Holders = "alone"`,
  as in `vm_frag`; `vm_frag_free` refutes the second for all legal
  clients. `AloneInv` says that an allocation lies in one page that is
  initialised and mapped, below what the page's metadata count as used, and that
  what `n_malloc` and `n_free` are about to change belongs to nobody.

`MyVm64Proofs`, for every number of levels and every size of the tables that
reach all pages (`num_virtual_pages <= Power[LastLevel]`, as the four levels of
the code do), and clients that call anything where nothing else is said:

- `TypesCorrect64` (`TypeOK64`), `TreeStaysSound` (`TreeSound`),
  `NoMissingTable` (`NullOnlyBeforeMalloc`) and `FlatTableImplemented`
  (`ImplementsMyVm`). `Inv64` conjoins the types of `MyVm`, the agreement of its
  tables (`Flat!TablesAgree`) and `Tree`: an entry above the last level leads to
  a table or nowhere (`TreeTyped`), pages whose ways meet in a table came there
  by the same indices (`TreeApart`), and every table is on a way
  (`TreeCovered`). The agreement is needed because only a page whose bit is set
  has tables, which is what keeps the walk of `n_free` from a missing one.
  The proof first gets the equations of the two recursive functions, `Power` and
  `Walk`, from a least-element argument on sets, and shows that a page number is
  determined by its indices (`WayTellsPage`). Then `map_page` and `n_free` change
  one entry of the flat table and leave the ways of the other pages alone
  (`Stores`, `TreeStored`).
- `TablesAgree64`, `AllocationsNeverOverlap64`, `AlignedClientsAreSafe64`,
  `MemoryKeepsItsPromise64` and `AlignedReadsReturnWrites64`: the theorems about
  `MyVm` hold of `my_vm64.c`, through an instance of `MyVmRefinementProofs`
  (`Flat`) with the flat table in the place of the page table. The last three
  are about aligned clients; the one fault that is left to them is the
  allocation in the upper half of the address space.

### Only model-checked

- `Completes` and `NoStarvation`: liveness under fairness is out of the prover's
  reach.
- `TurnaroundIsMean` and the other properties of runs that expect a violation,
  where no hypothesis above makes them true.

## Findings

1. `worker_mutex_lock` returns 1 without blocking; clients that ignore it, as
   the benchmarks do, are not excluded (`ignored_lock`).
2. `q_dequeue_shortest_runtime` leaves `tail` on an unlinked node; the next
   thread queued is lost (`psjf`). While main's uninitialised count starts at -1
   or more it is a worker (`MainNeverLost`), so the program does not crash: main
   waits for it forever. From -2 on down it may be main, and then it crashes.
3. `calc_and_update_stats` computes the sum of the turnaround times from the
   average response time (`statistics`).
4. A TLB hit drops the offset of the address (`vm_offset`).
5. `my_vm_frag`'s `n_free` unmaps a page that other allocations share
   (`vm_frag_free`).

Behaviours that no line of the repository denies, met on the way and recorded as
hazards: with a mutex, a thread that ended while on the blocked list is made
ready by the unlock, so `FinishedIsFinal` fails where mutexes are used; a tick
behind the count of a finished thread counts it again; a thread that raises itself to HIGH each time it runs starves the DEFAULT queue,
which the refresh leaves alone, so `NoStarvation` holds for spinners that set
MEDIUM only.

## Not modelled

- The arithmetic of `mat_mult` and of the benchmarks. `mat_mult` holds no lock
  of its own; the calls it makes are calls the clients of `MyVm` may make.
- `worker_mutex_destroy`, which frees the blocked list; `print_app_stats`, the
  printing of queues, the counters of TLB hits and misses: no decision reads
  them.
- Stacks, contexts and signal masks below the granularity of "this context
  resumes there".
- The samples, Project1 and the reports.

## Plan

Written, in this order: `ThreadQueue`, `ThreadWorker`, `MyVm`, `VirtualMemory`,
`MyVmRefinement`, the first proof modules, `MyVmFrag`, `MyVm64`, `RunQueue`,
`QueueNodes`, `Statistics`, and the proofs about queues, types, threads, nodes,
packing, the refinement of `MyVm`, the tree of `MyVm64`, and main under PSJF and
MATRIX.

All properties of passing runs but the two about liveness are theorems. What is
left is to say more: as much of `QueueInv` as survives the use of mutexes
(a thread that parks goes on running while it is on a list), and, for `MyVmFrag`, what its
clients read, as `MyVmRefinementProofs` says it for `MyVm`.
