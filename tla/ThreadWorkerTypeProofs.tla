----------------------- MODULE ThreadWorkerTypeProofs -----------------------
(***************************************************************************)
(* Mutual exclusion, what the queues of thread-worker.c hand out, and the  *)
(* type correctness of the thread library, for every number of threads and *)
(* mutexes, every policy and ticks anywhere in the library.                *)
(***************************************************************************)
EXTENDS ThreadWorker, SequenceTheorems, WellFoundedInduction, TLAPS

-----------------------------------------------------------------------------
(***************************************************************************)
(* Mutexes                                                                 *)
(***************************************************************************)

\* Labels of a thread that has a mutex, and of one that works with a mutex.
HolderLabels == {"lock_won", "cs", "yield_cs"}
MutexLabels  == HolderLabels \cup {"lock_fail", "lock_park", "unlock_owner",
                                   "unlock_drain", "unlock_take",
                                   "unlock_more"}

LockTypes ==
    /\ pc \in [Threads -> Labels]
    /\ using \in [Threads -> Mutexes \cup {NoMutex}]
    /\ thread_id_counter \in Nat
    /\ DOMAIN mutex = Mutexes
    /\ \A m \in Mutexes : /\ "locked" \in DOMAIN mutex[m]
                          /\ mutex[m].locked \in BOOLEAN

\* Threads that are not created yet are nowhere, and a thread in the middle
\* of a call knows its mutex.
Places ==
    /\ \A t \in Threads : t # Main /\ ~Created(t) => pc[t] = "none"
    /\ \A t \in Threads : pc[t] \in MutexLabels => using[t] \in Mutexes

\* The inductive invariant, for clients that test what worker_mutex_lock
\* returns.
LockInv ==
    /\ ChecksLock
    /\ LockTypes
    /\ Places
    /\ MutualExclusion
    /\ LockedWhileHeld

SameLocks ==
    /\ DOMAIN mutex' = Mutexes
    /\ \A m \in Mutexes : /\ "locked" \in DOMAIN mutex'[m]
                          /\ mutex'[m].locked = mutex[m].locked

LEMMA MainIsThread == Main \in Threads /\ 1 \in Threads /\ Threads \subseteq Nat
  BY ConstantsAssumption DEF Main, Threads

LEMMA HoldersByLabel ==
    \A m : Holders(m) = {t \in Threads : using[t] = m /\ pc[t] \in HolderLabels}
  BY DEF Holders, HolderLabels

LEMMA LockInit == Init /\ ChecksLock => LockInv
<1> SUFFICES ASSUME Init, ChecksLock PROVE LockInv
  OBVIOUS
<1>1. \A t \in Threads : pc[t] \in {"user", "none"} /\ using[t] = NoMutex
  BY DEF Init
<1>2. LockTypes
  BY <1>1 DEF Init, LockTypes, Labels, ClientLabels
<1>3. Places
  BY <1>1 DEF Init, Places, MutexLabels, HolderLabels
<1>4. \A m \in Mutexes : Holders(m) = {} /\ mutex[m].locked = FALSE
  BY <1>1 DEF Init, Holders
<1>5. QED
  BY <1>2, <1>3, <1>4 DEF LockInv, MutualExclusion, LockedWhileHeld

\* The same threads hold the same mutexes.
LEMMA SameHolders ==
    ASSUME LockInv, LockTypes', Places', SameLocks,
           \A t \in Threads :
              (pc'[t] \in HolderLabels /\ using'[t] \in Mutexes)
                 \/ (pc[t] \in HolderLabels /\ using[t] \in Mutexes)
              => /\ pc'[t] \in HolderLabels /\ pc[t] \in HolderLabels
                 /\ using'[t] = using[t]
    PROVE  LockInv'
<1>1. ASSUME NEW m \in Mutexes
      PROVE  Holders(m)' = Holders(m)
  BY DEF Holders, HolderLabels
<1>2. MutualExclusion' /\ LockedWhileHeld'
  BY <1>1 DEF LockInv, MutualExclusion, LockedWhileHeld, SameLocks
<1>3. QED
  BY <1>2 DEF LockInv

\* Steps of the scheduler and of calls that have nothing to do with a mutex.
LEMMA LockUndisturbed ==
    ASSUME LockInv, UNCHANGED <<pc, using, mutex, thread_id_counter>>
    PROVE  LockInv'
<1>1. LockTypes' /\ Places'
  BY DEF LockInv, LockTypes, Places, Created
<1>2. MutualExclusion' /\ LockedWhileHeld'
  BY DEF LockInv, MutualExclusion, LockedWhileHeld, Holders
<1>3. QED
  BY <1>1, <1>2 DEF LockInv

\* A thread goes to label k, and both or none of its labels are a holder's.
\* It keeps its mutex or, when it holds none, may have another one next.
LEMMA LockMove ==
    ASSUME LockInv, NEW t \in Threads, NEW k \in Labels,
           NEW x \in Mutexes \cup {NoMutex},
           Goto(t, k), using' = [using EXCEPT ![t] = x],
           pc[t] # "none", thread_id_counter' = thread_id_counter, SameLocks,
           pc[t] \in HolderLabels <=> k \in HolderLabels,
           pc[t] \in HolderLabels => x = using[t],
           k \in MutexLabels => x \in Mutexes
    PROVE  LockInv'
<1>1. /\ pc'[t] = k /\ using'[t] = x
      /\ \A u \in Threads \ {t} : pc'[u] = pc[u] /\ using'[u] = using[u]
      /\ pc' \in [Threads -> Labels]
      /\ using' \in [Threads -> Mutexes \cup {NoMutex}]
  BY DEF LockInv, LockTypes, Goto
<1>2. LockTypes'
  BY <1>1 DEF LockInv, LockTypes, SameLocks
<1>3. Places'
  <2>1. t = Main \/ Created(t)
    BY DEF LockInv, Places
  <2>2. QED
    BY <1>1, <2>1 DEF LockInv, Places, Created
<1>4. QED
  BY <1>1, <1>2, <1>3, SameHolders

\* The same for a thread that keeps its mutex or has none.
LEMMA LockStay ==
    ASSUME LockInv, NEW t \in Threads, NEW k \in Labels,
           Goto(t, k), using' = using, pc[t] # "none",
           thread_id_counter' = thread_id_counter, SameLocks,
           pc[t] \in HolderLabels <=> k \in HolderLabels,
           k \in MutexLabels => pc[t] \in MutexLabels
    PROVE  LockInv'
<1>1. using' = [using EXCEPT ![t] = using[t]]
  BY DEF LockInv, LockTypes
<1>2. using[t] \in Mutexes \cup {NoMutex}
  BY DEF LockInv, LockTypes
<1>3. k \in MutexLabels => using[t] \in Mutexes
  BY DEF LockInv, Places
<1>4. QED
  BY <1>1, <1>2, <1>3, LockMove

\* The owner and the list of blocked threads do not matter for the lock.
LEMMA OtherFields ==
    ASSUME LockInv, NEW m \in Mutexes, NEW x,
           \/ mutex' = mutex
           \/ mutex' = [mutex EXCEPT ![m].owner = x]
           \/ mutex' = [mutex EXCEPT ![m].blocked_threads = x]
    PROVE  SameLocks
<1>1. CASE mutex' = mutex
  BY <1>1 DEF SameLocks, LockInv, LockTypes
<1>2. CASE mutex' = [mutex EXCEPT ![m].owner = x]
  BY <1>2 DEF SameLocks, LockInv, LockTypes
<1>3. CASE mutex' = [mutex EXCEPT ![m].blocked_threads = x]
  BY <1>3 DEF SameLocks, LockInv, LockTypes
<1>4. QED
  BY <1>1, <1>2, <1>3

LEMMA SameMutex ==
    ASSUME LockInv, mutex' = mutex PROVE SameLocks
  BY DEF SameLocks, LockInv, LockTypes

\* The test-and-set takes a mutex that nobody holds, or changes nothing.
LEMMA LockAttempt ==
    ASSUME LockInv, NEW t \in Threads, NEW m \in Mutexes,
           worker_mutex_lock(t, m)
    PROVE  LockInv'
<1>1. /\ pc[t] = "user" /\ using' = [using EXCEPT ![t] = m]
      /\ mutex' = [mutex EXCEPT ![m].locked = TRUE]
      /\ thread_id_counter' = thread_id_counter
      /\ Goto(t, IF TestAndSet(m) THEN "lock_fail" ELSE "lock_won")
  BY DEF worker_mutex_lock, At, schedVars
<1>2. /\ DOMAIN mutex' = Mutexes /\ mutex'[m].locked = TRUE
      /\ \A n \in Mutexes : "locked" \in DOMAIN mutex'[n]
      /\ \A n \in Mutexes \ {m} : mutex'[n] = mutex[n]
  BY <1>1 DEF LockInv, LockTypes
<1>3. CASE mutex[m].locked
  <2>1. SameLocks
    BY <1>2, <1>3 DEF SameLocks, LockInv, LockTypes
  <2>2. Goto(t, "lock_fail")
    BY <1>1, <1>3 DEF TestAndSet
  <2>3. /\ "lock_fail" \in Labels /\ pc[t] # "none"
        /\ pc[t] \notin HolderLabels /\ "lock_fail" \notin HolderLabels
    BY <1>1 DEF Labels, LibraryLabels, HolderLabels
  <2>4. QED
    BY <1>1, <2>1, <2>2, <2>3, LockMove
<1>4. CASE ~mutex[m].locked
  <2>1. /\ pc'[t] = "lock_won" /\ using'[t] = m
        /\ \A u \in Threads \ {t} : pc'[u] = pc[u] /\ using'[u] = using[u]
        /\ pc' \in [Threads -> Labels]
        /\ using' \in [Threads -> Mutexes \cup {NoMutex}]
    BY <1>1, <1>4
    DEF LockInv, LockTypes, Goto, TestAndSet, Labels, LibraryLabels
  <2>2. LockTypes'
    BY <1>1, <1>2, <2>1 DEF LockInv, LockTypes
  <2>3. Places'
    <3>1. t = Main \/ Created(t)
      BY <1>1 DEF LockInv, Places
    <3>2. QED
      BY <1>1, <2>1, <3>1 DEF LockInv, Places, Created
  <2>4. Holders(m) = {} /\ Holders(m)' = {t}
    <3>1. Holders(m) = {}
      BY <1>4 DEF LockInv, LockedWhileHeld
    <3>2. QED
      BY <2>1, <3>1 DEF Holders
  <2>5. ASSUME NEW n \in Mutexes \ {m}
        PROVE  Holders(n)' = Holders(n)
    BY <1>1, <2>1 DEF Holders
  <2>6. MutualExclusion' /\ LockedWhileHeld'
    <3>1. \A n \in Mutexes : mutex'[n].locked <=> Holders(n)' # {}
      BY <1>2, <2>4, <2>5 DEF LockInv, LockedWhileHeld
    <3>2. \A n \in Mutexes : \A u, w \in Holders(n)' : u = w
      BY <2>4, <2>5 DEF LockInv, MutualExclusion
    <3>3. QED
      BY <3>1, <3>2 DEF MutualExclusion, LockedWhileHeld
  <2>7. QED
    BY <2>2, <2>3, <2>6 DEF LockInv
<1>5. QED
  BY <1>3, <1>4

\* The only holder releases its mutex.
LEMMA LockReleased ==
    ASSUME LockInv, NEW t \in Threads, worker_mutex_unlock(t)
    PROVE  LockInv'
<1>1. /\ pc[t] = "cs" /\ using' = using
      /\ mutex' = [mutex EXCEPT ![using[t]] = Released(@)]
      /\ thread_id_counter' = thread_id_counter
      /\ Goto(t, "unlock_owner")
  BY DEF worker_mutex_unlock, At, schedVars
<1>2. PICK m \in Mutexes : m = using[t] /\ t \in Holders(m)
  BY <1>1 DEF LockInv, Places, MutexLabels, HolderLabels, Holders
<1>3. /\ DOMAIN mutex' = Mutexes /\ mutex'[m].locked = FALSE
      /\ \A n \in Mutexes : "locked" \in DOMAIN mutex'[n]
      /\ \A n \in Mutexes \ {m} : mutex'[n] = mutex[n]
  BY <1>1, <1>2 DEF LockInv, LockTypes, Released
<1>4. /\ pc'[t] = "unlock_owner"
      /\ \A u \in Threads \ {t} : pc'[u] = pc[u]
      /\ pc' \in [Threads -> Labels]
  BY <1>1 DEF LockInv, LockTypes, Goto, Labels, LibraryLabels
<1>5. LockTypes'
  BY <1>1, <1>3, <1>4 DEF LockInv, LockTypes
<1>6. Places'
  <2>1. t = Main \/ Created(t)
    BY <1>1 DEF LockInv, Places
  <2>2. QED
    BY <1>1, <1>2, <1>4, <2>1 DEF LockInv, Places, Created
<1>7. Holders(m)' = {}
  <2>1. \A u \in Holders(m) : u = t
    BY <1>2 DEF LockInv, MutualExclusion
  <2>2. QED
    BY <1>1, <1>4, <2>1 DEF Holders
<1>8. ASSUME NEW n \in Mutexes \ {m}
      PROVE  Holders(n)' = Holders(n)
  BY <1>1, <1>2, <1>4 DEF Holders
<1>9. MutualExclusion' /\ LockedWhileHeld'
  <2>1. \A n \in Mutexes : mutex'[n].locked <=> Holders(n)' # {}
    BY <1>3, <1>7, <1>8 DEF LockInv, LockedWhileHeld
  <2>2. \A n \in Mutexes : \A u, w \in Holders(n)' : u = w
    BY <1>7, <1>8 DEF LockInv, MutualExclusion
  <2>3. QED
    BY <2>1, <2>2 DEF MutualExclusion, LockedWhileHeld
<1>10. QED
  BY <1>5, <1>6, <1>9 DEF LockInv

\* Main is on its way to a new thread, or finds no id left.
LEMMA LockCreate ==
    ASSUME LockInv, worker_create
    PROVE  LockInv'
<1> DEFINE k == IF TableFull(thread_id_counter') THEN "user" ELSE "create"
<1>1. /\ UNCHANGED <<using, mutex>> /\ pc[Main] = "user" /\ Goto(Main, k)
      /\ thread_id_counter' \in {1, thread_id_counter}
      /\ thread_id_counter = 0 \/ thread_id_counter' = thread_id_counter
  BY DEF worker_create, At
<1>2. k \in {"user", "create"} /\ k \in Labels
  BY DEF Labels, ClientLabels, LibraryLabels
<1> HIDE DEF k
<1>3. /\ pc'[Main] = k
      /\ \A u \in Threads \ {Main} : pc'[u] = pc[u]
      /\ pc' \in [Threads -> Labels]
  BY <1>1, <1>2, MainIsThread DEF LockInv, LockTypes, Goto
<1>4. LockTypes' /\ SameLocks
  BY <1>1, <1>3, SameMutex DEF LockInv, LockTypes
<1>5. Places'
  <2>1. \A t \in Threads : Created(t) => Created(t)'
    BY <1>1, MainIsThread DEF Created, LockInv, LockTypes
  <2>2. QED
    BY <1>1, <1>2, <1>3, <2>1, MainIsThread
    DEF LockInv, Places, MutexLabels, HolderLabels
<1>6. QED
  BY <1>1, <1>2, <1>3, <1>4, <1>5, SameHolders, MainIsThread DEF HolderLabels

\* A new thread was nowhere before.
LEMMA LockPush ==
    ASSUME LockInv, PushCreated, thread_id_counter > 0,
           ~TableFull(thread_id_counter)
    PROVE  LockInv'
<1> DEFINE id == thread_id_counter
<1>1. /\ UNCHANGED <<using, mutex>> /\ pc[Main] = "create"
      /\ thread_id_counter' = id + 1
      /\ pc' = [pc EXCEPT ![Main] = "user", ![id] = "user"]
  BY DEF PushCreated, At
<1>2. id \in Threads /\ id # Main /\ ~Created(id)
  BY ConstantsAssumption
  DEF LockInv, LockTypes, TableFull, Threads, Main, Created
<1>3. /\ pc'[id] = "user" /\ pc[id] = "none" /\ pc'[Main] = "user"
      /\ \A u \in Threads \ {Main, id} : pc'[u] = pc[u]
      /\ pc' \in [Threads -> Labels]
  BY <1>1, <1>2, MainIsThread
  DEF LockInv, LockTypes, Places, Labels, ClientLabels
<1>4. LockTypes' /\ SameLocks
  BY <1>1, <1>3, SameMutex DEF LockInv, LockTypes
<1>5. Places'
  <2>1. \A t \in Threads : Created(t) \/ t = id => Created(t)'
    BY <1>1, MainIsThread DEF Created, LockInv, LockTypes
  <2>2. QED
    BY <1>1, <1>3, <2>1, MainIsThread
    DEF LockInv, Places, MutexLabels, HolderLabels
<1>6. QED
  BY <1>1, <1>3, <1>4, <1>5, SameHolders, MainIsThread DEF HolderLabels

\* What a thread does by itself keeps the invariant.
LEMMA LockStep ==
    ASSUME LockInv, NEW t \in Threads, Step(t),
           pc[Main] = "create"
              => thread_id_counter > 0 /\ ~TableFull(thread_id_counter)
    PROVE  LockInv'
<1> USE DEF Labels, ClientLabels, LibraryLabels, HolderLabels, MutexLabels,
            schedVars, At
<1>1. CASE t = Main /\ worker_create
  BY <1>1, LockCreate
<1>2. CASE t = Main /\ StartJoin
  <2>1. /\ pc[Main] = "user" /\ UNCHANGED <<using, mutex, thread_id_counter>>
        /\ Goto(Main, "join") \/ Goto(Main, "exited")
    BY <1>2 DEF StartJoin
  <2>2. QED
    BY <1>2, <2>1, LockStay, SameMutex
<1>3. CASE t = Main /\ worker_join
  <2>1. /\ pc[Main] = "join" /\ UNCHANGED <<using, mutex, thread_id_counter>>
        /\ \/ Goto(Main, "join") \/ Goto(Main, "exited")
           \/ Goto(Main, "yield_join")
    BY <1>3 DEF worker_join, YieldFrom
  <2>2. QED
    BY <1>3, <2>1, LockStay, SameMutex
<1>4. ASSUME NEW v \in Values \cup {NULL}, thread_function_wrapper(t, v)
      PROVE  LockInv'
  BY <1>4, LockStay, SameMutex DEF thread_function_wrapper
<1>5. ASSUME NEW v \in Values \cup {NULL}, worker_exit(t, v)
      PROVE  LockInv'
  BY <1>5, LockStay, SameMutex DEF worker_exit
<1>6. CASE StoreExitValue(t)
  BY <1>6, LockStay, SameMutex DEF StoreExitValue
<1>7. CASE worker_yield(t)
  <2>1. UNCHANGED <<using, mutex, thread_id_counter>>
    BY <1>7 DEF worker_yield, YieldFrom
  <2>2. \/ pc' = pc
        \/ pc[t] = "user" /\ Goto(t, "yield_user")
        \/ pc[t] = "cs" /\ Goto(t, "yield_cs")
    BY <1>7 DEF worker_yield, YieldFrom
  <2>3. QED
    BY <2>1, <2>2, LockStay, LockUndisturbed, SameMutex
<1>8. CASE YieldSwap(t)
  <2>1. /\ UNCHANGED <<using, mutex, thread_id_counter>>
        /\ pc[t] \in DOMAIN YieldReturn /\ Goto(t, YieldReturn[pc[t]])
    BY <1>8 DEF YieldSwap
  <2>2. \/ pc[t] = "yield_user" /\ Goto(t, "user")
        \/ pc[t] = "yield_cs" /\ Goto(t, "cs")
        \/ pc[t] = "yield_join" /\ Goto(t, "join")
    BY <2>1 DEF YieldReturn
  <2>3. QED
    BY <2>1, <2>2, LockStay, SameMutex
<1>9. ASSUME NEW u \in Threads, NEW p \in SetPrios, worker_setschedprio(t, u, p)
      PROVE  LockInv'
  BY <1>9, LockUndisturbed DEF worker_setschedprio
<1>10. ASSUME NEW m \in Mutexes, worker_mutex_lock(t, m)
       PROVE  LockInv'
  BY <1>10, LockAttempt
<1>11. CASE StoreOwner(t)
  <2>1. /\ pc[t] = "lock_won" /\ UNCHANGED <<using, thread_id_counter>>
        /\ \/ UNCHANGED <<mutex, pc>>
           \/ /\ Goto(t, "cs")
              /\ mutex' = [mutex EXCEPT ![using[t]].owner = t]
    BY <1>11 DEF StoreOwner
  <2>2. using[t] \in Mutexes
    BY <2>1 DEF LockInv, Places
  <2>3. SameLocks
    BY <2>1, <2>2, OtherFields
  <2>4. QED
    BY <2>1, <2>3, LockStay, LockUndisturbed
<1>12. CASE MarkBlocked(t)
  <2>1. /\ pc[t] = "lock_fail"
        /\ UNCHANGED <<using, mutex, thread_id_counter>>
        /\ UNCHANGED pc \/ Goto(t, "lock_park")
    BY <1>12 DEF MarkBlocked
  <2>2. QED
    BY <2>1, LockStay, LockUndisturbed, SameMutex
<1>13. CASE Park(t)
  <2>1. /\ pc[t] = "lock_park" /\ UNCHANGED thread_id_counter
        /\ Goto(t, "user") /\ using' = [using EXCEPT ![t] = NoMutex]
        /\ mutex' = [mutex EXCEPT ![using[t]].blocked_threads = q_enqueue(@, t)]
    BY <1>13 DEF Park, AfterFailedLock, LockInv
  <2>2. using[t] \in Mutexes
    BY <2>1 DEF LockInv, Places
  <2>3. SameLocks
    BY <2>1, <2>2, OtherFields
  <2>4. QED
    BY <2>1, <2>3, LockMove
<1>14. CASE worker_mutex_unlock(t)
  BY <1>14, LockReleased
<1>15. CASE ClearOwner(t)
  <2>1. /\ pc[t] = "unlock_owner" /\ UNCHANGED <<using, thread_id_counter>>
        /\ Goto(t, "unlock_drain")
        /\ mutex' = [mutex EXCEPT ![using[t]].owner = NULL]
    BY <1>15 DEF ClearOwner
  <2>2. using[t] \in Mutexes
    BY <2>1 DEF LockInv, Places
  <2>3. SameLocks
    BY <2>1, <2>2, OtherFields
  <2>4. QED
    BY <2>1, <2>3, LockStay
<1>16. CASE DrainTest(t)
  <2>1. /\ pc[t] = "unlock_drain" /\ UNCHANGED <<mutex, thread_id_counter>>
        /\ \/ Goto(t, "user") /\ using' = [using EXCEPT ![t] = NoMutex]
           \/ Goto(t, "unlock_take") /\ UNCHANGED using
    BY <1>16 DEF DrainTest, ReturnFromUnlock
  <2>2. QED
    BY <2>1, LockStay, LockMove, SameMutex
<1>17. CASE DrainOne(t)
  <2> DEFINE rest == q_dequeue(mutex[using[t]].blocked_threads).queue
  <2>1. /\ pc[t] \in {"unlock_take", "unlock_more"}
        /\ UNCHANGED thread_id_counter
        /\ \/ UNCHANGED <<mutex, pc, using>>
           \/ /\ mutex' = [mutex EXCEPT ![using[t]].blocked_threads = rest]
              /\ \/ Goto(t, "user") /\ using' = [using EXCEPT ![t] = NoMutex]
                 \/ Goto(t, "unlock_more") /\ UNCHANGED using
    BY <1>17 DEF DrainOne, ReturnFromUnlock
  <2> HIDE DEF rest
  <2>2. using[t] \in Mutexes
    BY <2>1 DEF LockInv, Places
  <2>3. SameLocks
    BY <2>1, <2>2, OtherFields
  <2>4. QED
    BY <2>1, <2>3, LockStay, LockMove, LockUndisturbed
<1>18. CASE t = Main /\ PushCreated
  BY <1>18, LockPush DEF PushCreated
<1>19. QED
  BY <1>1, <1>2, <1>3, <1>4, <1>5, <1>6, <1>7, <1>8, <1>9, <1>10, <1>11,
     <1>12, <1>13, <1>14, <1>15, <1>16, <1>17, <1>18
  DEF Step

-----------------------------------------------------------------------------
(***************************************************************************)
(* Queues                                                                  *)
(***************************************************************************)

\* A non-empty set of naturals has a least member.
LEMMA LeastNatural ==
    ASSUME NEW S \in SUBSET Nat, S # {}
    PROVE  \E n \in S : \A m \in S : n <= m
<1> DEFINE R == {ss \in Nat \X Nat : ss[1] < ss[2]}
<1>1. IsWellFoundedOn(R, Nat)
  BY NatLessThanWellFounded, Zenon DEF OpToRel
<1>2. \A x, y \in Nat : <<x, y>> \in R <=> x < y
  OBVIOUS
<1> HIDE DEF R
<1>3. PICK n \in S : \A m \in S : ~(<<m, n>> \in R)
  BY <1>1, WFMin
<1>4. ASSUME NEW m \in S PROVE n <= m
  <2>1. n \in Nat /\ m \in Nat /\ ~(m < n)
    BY <1>2, <1>3
  <2>2. QED
    BY <2>1
<1>5. QED
  BY <1>4

\* So has one of integers that are bounded below.
LEMMA LeastInteger ==
    ASSUME NEW low \in Int, NEW S \in SUBSET Int, S # {},
           \A n \in S : low <= n
    PROVE  \E n \in S : \A m \in S : n <= m
<1> DEFINE D == {d \in Nat : d + low \in S}
<1>1. ASSUME NEW n \in S PROVE n - low \in D
  <2>1. n \in Int /\ low <= n
    OBVIOUS
  <2>2. n - low \in Nat /\ (n - low) + low = n
    BY <2>1
  <2>3. QED
    BY <2>2
<1>2. D \in SUBSET Nat /\ D # {}
  BY <1>1
<1> HIDE DEF D
<1>3. PICK d \in D : \A e \in D : d <= e
  BY <1>2, LeastNatural
<1>4. d \in Nat /\ d + low \in S
  BY <1>3 DEF D
<1>5. ASSUME NEW m \in S PROVE d + low <= m
  <2>1. d <= m - low /\ m \in Int
    BY <1>1, <1>3
  <2>2. QED
    BY <1>4, <2>1
<1>6. QED
  BY <1>4, <1>5

\* Times by thread, bounded below as the values of an int are.
Keys(T, low) == {key \in [T -> Int] : \A t \in T : low <= key[t]}

\* The scan of q_dequeue_shortest_runtime finds a node: the first one whose
\* key is the least.
LEMMA FirstLeastExists ==
    ASSUME NEW T, NEW s \in Seq(T), s # <<>>,
           NEW low \in Int, NEW key \in Keys(T, low)
    PROVE  /\ FirstLeast(s, key) \in 1..Len(s)
           /\ \A j \in 1..Len(s) : key[s[FirstLeast(s, key)]] <= key[s[j]]
           /\ \A j \in 1..(FirstLeast(s, key) - 1) :
                 key[s[FirstLeast(s, key)]] < key[s[j]]
<1> DEFINE K == {key[s[i]] : i \in 1..Len(s)}
<1>1. Len(s) \in Nat /\ 1 \in 1..Len(s) /\ \A i \in 1..Len(s) : s[i] \in T
  BY EmptySeq, LenProperties, ElementOfSeq
<1>2. PICK k \in K : \A m \in K : k <= m
  <2>1. K \subseteq Int /\ K # {} /\ \A m \in K : low <= m
    BY <1>1 DEF Keys
  <2>2. QED
    BY <2>1, LeastInteger
<1> DEFINE I == {i \in 1..Len(s) : key[s[i]] = k}
<1>3. PICK i \in I : \A j \in I : i <= j
  <2>1. I \subseteq Nat /\ I # {}
    BY <1>1, <1>2
  <2>2. QED
    BY <2>1, LeastNatural
<1>4. /\ \A j \in 1..Len(s) : key[s[i]] <= key[s[j]]
      /\ \A j \in 1..(i - 1) : key[s[i]] < key[s[j]]
  <2>1. \A j \in 1..Len(s) : k <= key[s[j]] /\ key[s[j]] \in Int
    BY <1>1, <1>2 DEF Keys
  <2>2. i \in 1..Len(s) /\ key[s[i]] = k /\ k \in Int
    BY <2>1
  <2>3. ASSUME NEW j \in 1..(i - 1) PROVE k < key[s[j]]
    <3>1. j \in 1..Len(s) /\ ~(i <= j)
      BY <2>2, <1>1
    <3>2. key[s[j]] # k
      BY <3>1, <1>3
    <3>3. k <= key[s[j]] /\ key[s[j]] \in Int
      BY <3>1, <2>1
    <3>4. QED
      BY <2>2, <3>2, <3>3
  <2>4. QED
    BY <2>1, <2>2, <2>3
<1>5. \E l \in 1..Len(s) :
          /\ \A j \in 1..Len(s) : key[s[l]] <= key[s[j]]
          /\ \A j \in 1..(l - 1) : key[s[l]] < key[s[j]]
  BY <1>4
<1>6. QED
  BY <1>5 DEF FirstLeast

\* A queue without one of its nodes.
LEMMA WithoutIndexSeq ==
    ASSUME NEW T, NEW s \in Seq(T), NEW i \in 1..Len(s)
    PROVE  /\ WithoutIndex(s, i) \in Seq(T)
           /\ Len(WithoutIndex(s, i)) = Len(s) - 1
           /\ \A j \in 1..(Len(s) - 1) :
                 WithoutIndex(s, i)[j] = IF j < i THEN s[j] ELSE s[j + 1]
<1>1. Len(s) \in Nat /\ Len(s) - 1 \in Nat /\ \A j \in 1..Len(s) : s[j] \in T
  BY LenProperties, ElementOfSeq
<1>2. WithoutIndex(s, i) \in [1..(Len(s) - 1) -> T]
  BY <1>1 DEF WithoutIndex
<1>3. WithoutIndex(s, i) \in Seq(T)
  BY <1>1, <1>2, SeqDef
<1>4. Len(WithoutIndex(s, i)) = Len(s) - 1
  BY <1>1, <1>2, <1>3, LenProperties
<1>5. QED
  BY <1>3, <1>4 DEF WithoutIndex

LEMMA QInitType == \A T : q_init \in QueueOf(T)
  BY EmptySeq DEF q_init, QueueOf

LEMMA EnqueueType ==
    ASSUME NEW T, NEW q \in QueueOf(T), NEW t \in T
    PROVE  q_enqueue(q, t) \in QueueOf(T)
  BY AppendProperties DEF q_enqueue, QueueOf

LEMMA DequeueType ==
    ASSUME NEW T, NEW q \in QueueOf(T), ~q_is_empty(q)
    PROVE  q_dequeue(q).thread \in T /\ q_dequeue(q).queue \in QueueOf(T)
  BY HeadTailProperties DEF q_dequeue, QueueOf, q_is_empty, WithItems

LEMMA ShortestType ==
    ASSUME NEW T, NEW q \in QueueOf(T), ~q_is_empty(q),
           NEW low \in Int, NEW key \in Keys(T, low)
    PROVE  /\ q_dequeue_shortest_runtime(q, key).thread \in T
           /\ q_dequeue_shortest_runtime(q, key).queue \in QueueOf(T)
<1> DEFINE i == FirstLeast(q.items, key)
<1>1. q.items \in Seq(T) /\ q.items # <<>> /\ q.stray \in BOOLEAN
  BY DEF QueueOf, q_is_empty
<1>2. i \in 1..Len(q.items)
  BY <1>1, FirstLeastExists
<1>3. q.items[i] \in T /\ WithoutIndex(q.items, i) \in Seq(T)
  BY <1>1, <1>2, ElementOfSeq, WithoutIndexSeq
<1> HIDE DEF i
<1>4. WithItems(WithoutIndex(q.items, i), q.stray \/ i = Len(q.items))
          \in QueueOf(T)
  BY <1>3 DEF WithItems, QueueOf
<1>5. QED
  BY <1>3, <1>4 DEF q_dequeue_shortest_runtime, i

-----------------------------------------------------------------------------
(***************************************************************************)
(* Run queues                                                              *)
(***************************************************************************)
RunQueues == [Prios -> QueueOf(Threads)]

LEMMA EnqueuedType ==
    ASSUME NEW rq \in RunQueues, NEW p \in Prios, NEW t \in Threads
    PROVE  /\ Enqueued(rq, p, t) \in RunQueues
           /\ Enqueued(rq, p, t)[p] = q_enqueue(rq[p], t)
           /\ \A r \in Prios \ {p} : Enqueued(rq, p, t)[r] = rq[r]
  BY EnqueueType DEF RunQueues, Enqueued

LEMMA RefreshedType ==
    ASSUME NEW rq \in RunQueues
    PROVE  Refreshed(rq) \in RunQueues
<1>1. rq[HIGH_PRIO].items \o rq[LOW_PRIO].items \in Seq(Threads)
  BY ConcatProperties DEF RunQueues, QueueOf, Prios, HIGH_PRIO, LOW_PRIO
<1>2. QED
  BY <1>1, QInitType
  DEF Refreshed, RunQueues, QueueOf, Prios, HIGH_PRIO, LOW_PRIO

\* rq_get_index_highest_nonempty finds a queue when there is one.
LEMMA HighestExists ==
    ASSUME ~rq_is_all_empty
    PROVE  /\ rq_get_index_highest_nonempty \in Prios
           /\ ~q_is_empty(run_queue[rq_get_index_highest_nonempty])
           /\ \A h \in Prios : h > rq_get_index_highest_nonempty
                                 => q_is_empty(run_queue[h])
<1>1. Prios = {0, 1, 2, 3}
  BY DEF Prios
<1>2. PICK q \in Prios : ~q_is_empty(run_queue[q])
  BY DEF rq_is_all_empty
<1>3. \E p \in Prios : /\ ~q_is_empty(run_queue[p])
                       /\ \A h \in Prios : h > p => q_is_empty(run_queue[h])
  <2>1. CASE ~q_is_empty(run_queue[3])
    BY <1>1, <2>1
  <2>2. CASE q_is_empty(run_queue[3]) /\ ~q_is_empty(run_queue[2])
    BY <1>1, <2>2
  <2>3. CASE /\ q_is_empty(run_queue[3]) /\ q_is_empty(run_queue[2])
             /\ ~q_is_empty(run_queue[1])
    BY <1>1, <2>3
  <2>4. CASE /\ q_is_empty(run_queue[3]) /\ q_is_empty(run_queue[2])
             /\ q_is_empty(run_queue[1]) /\ ~q_is_empty(run_queue[0])
    BY <1>1, <2>4
  <2>5. QED
    BY <1>1, <1>2, <2>1, <2>2, <2>3, <2>4
<1>4. QED
  BY <1>3 DEF rq_get_index_highest_nonempty

-----------------------------------------------------------------------------
(***************************************************************************)
(* Types                                                                   *)
(***************************************************************************)

\* Labels behind the end of a thread.
Ends == {"exit_value", "past_exit", "done"}

\* The least value of an int is a bound for all of them.
LEMMA QuantumsType ==
    /\ INT_MIN \in Int
    /\ \A key \in [Threads -> Quantums] : key \in Keys(Threads, INT_MIN)
    /\ \A q \in Quantums : Elapsed(q) \in Quantums
    /\ 0 \in Quantums
<1>1. INT_MIN \in Int /\ INT_MIN <= 0 /\ INT_MAX \in Nat
  BY SMT DEF INT_MIN, INT_MAX
<1>2. MaxQuantums \in Nat
  BY <1>1, ConstantsAssumption
<1>3. QED
  BY <1>1, <1>2 DEF Quantums, Keys, Elapsed

\* Where threads can be: what the types of the next state depend on.
\* Only workers end, main joins a thread there is, schedule() is entered
\* behind its swapcontext with a current thread only, main does not yield
\* before the first tick and creates a thread only while there is an id, and
\* PSJF and MATRIX use one queue.
WhereThreadsAre ==
    /\ Places
    /\ pc[Main] \notin {"none"} \cup Ends
    /\ \A t \in Threads : status[t] = "FINISHED" => pc[t] \in Ends
    /\ pc[Main] = "create"
          => thread_id_counter > 0 /\ ~TableFull(thread_id_counter)
    /\ pc[Main] \in {"join", "yield_join"}
          => joining \in Threads /\ Created(joining)
    /\ cpu \in {"requeue", "counted"} => current_thread # NULL
    /\ cpu = "thread" /\ current_thread = NULL
          => pc[Main] \notin DOMAIN YieldReturn
    /\ Policy # "MLFQ"
          => \A p \in Prios \ {DEFAULT_PRIO} : q_is_empty(run_queue[p])

\* The inductive invariant of the types.
TypeInv == TypeOK /\ WhereThreadsAre

LEMMA TypeInit == Init => TypeInv
<1> SUFFICES ASSUME Init PROVE TypeInv
  OBVIOUS
<1> USE MainIsThread, ConstantsAssumption
    DEF Init, Labels, ClientLabels, LibraryLabels, MutexLabels, HolderLabels,
        DEFAULT_PRIO, REFRESH_QUANTUM, Prios
<1>1. \A T : q_init \in QueueOf(T) /\ q_is_empty(q_init)
  BY QInitType DEF q_init, q_is_empty
<1>2. quantums_elapsed \in [Threads -> Quantums]
  BY QuantumsType
<1>3. mutex \in [Mutexes -> [locked : BOOLEAN, owner : Threads \cup {NULL},
                             blocked_threads : QueueOf(Threads)]]
  BY <1>1
<1>4. TypeOK
  BY <1>1, <1>2, <1>3 DEF TypeOK, Statuses, Faults
<1>5. WhereThreadsAre
  BY <1>1 DEF WhereThreadsAre, Places, Created, YieldReturn, Main, Ends
<1>6. QED
  BY <1>4, <1>5 DEF TypeInv

\* What is chosen by any policy comes out of a queue of the run queues.
LEMMA ChosenType ==
    ASSUME TypeInv, ~rq_is_all_empty
    PROVE  /\ Chosen.p \in Prios
           /\ Chosen.taken.thread \in Threads
           /\ Chosen.taken.queue \in QueueOf(Threads)
           /\ Policy # "MLFQ" => Chosen.p = DEFAULT_PRIO
<1>1. run_queue \in [Prios -> QueueOf(Threads)]
  BY DEF TypeInv, TypeOK
<1>2. CASE Policy = "MLFQ"
  <2>1. Chosen = sched_mlfq
    BY <1>2 DEF Chosen
  <2>2. QED
    BY <1>1, <1>2, <2>1, HighestExists, DequeueType DEF sched_mlfq
<1>3. CASE Policy # "MLFQ"
  <2>1. quantums_elapsed \in Keys(Threads, INT_MIN)
    BY QuantumsType DEF TypeInv, TypeOK
  <2>2. DEFAULT_PRIO \in Prios /\ ~q_is_empty(run_queue[DEFAULT_PRIO])
    BY <1>3 DEF TypeInv, WhereThreadsAre, rq_is_all_empty, DEFAULT_PRIO, Prios
  <2>3. Chosen = [p |-> DEFAULT_PRIO,
                  taken |-> q_dequeue_shortest_runtime(run_queue[DEFAULT_PRIO],
                                                       quantums_elapsed)]
    BY <1>3, ConstantsAssumption
    DEF Chosen, sched_psjf, sched_matrix, q_dequeue_longest_runtime
  <2>4. QED
    BY <1>1, <2>1, <2>2, <2>3, ShortestType, QuantumsType
<1>4. QED
  BY <1>2, <1>3

LEMMA TypeRequeue == TypeInv /\ Requeue => TypeInv'
<1> SUFFICES ASSUME TypeInv, Requeue PROVE TypeInv'
  OBVIOUS
<1> DEFINE c == current_thread
           p == IF Policy = "MLFQ" THEN [priority EXCEPT ![c] = LowerPrio(@)]
                                   ELSE priority
<1>1. c \in Threads /\ status[c] \in Statuses
  BY DEF TypeInv, TypeOK, WhereThreadsAre, Requeue
<1>2. quantums_elapsed' \in [Threads -> Quantums]
  BY <1>1, QuantumsType DEF TypeInv, TypeOK, Requeue, ChargeQuantum
<1>3. threads_finished_counter' \in Nat
  BY DEF TypeInv, TypeOK, Requeue, FinishedAfter
<1>4. p \in [Threads -> Prios]
  BY <1>1 DEF TypeInv, TypeOK, LowerPrio, LOW_PRIO, Prios
<1>5. /\ TargetQueue(c, p) \in Prios
      /\ Policy # "MLFQ" => TargetQueue(c, p) = DEFAULT_PRIO
  BY <1>1, <1>4 DEF TargetQueue, DEFAULT_PRIO, Prios
<1> HIDE DEF p
<1>6. run_queue \in RunQueues
  BY DEF TypeInv, TypeOK, RunQueues
<1>7. CASE /\ run_queue' = Enqueued(run_queue, TargetQueue(c, p), c)
           /\ status' = [status EXCEPT ![c] = "READY"] /\ priority' = p
           /\ current_thread' = current_thread /\ cpu' = "dispatch"
  <2>1. /\ run_queue' \in RunQueues
        /\ Policy # "MLFQ"
              => \A r \in Prios \ {DEFAULT_PRIO} : run_queue'[r] = run_queue[r]
    BY <1>1, <1>5, <1>6, <1>7, EnqueuedType
  <2>2. status' \in [Threads -> Statuses] /\ current_thread' \in Threads
    BY <1>1, <1>7 DEF TypeInv, TypeOK, Statuses
  <2>3. TypeOK'
    BY <1>2, <1>3, <1>4, <1>7, <2>1, <2>2
    DEF TypeInv, TypeOK, Requeue, clientVars, RunQueues
  <2>4. QED
    BY <2>1, <2>3, <1>7
    DEF TypeInv, WhereThreadsAre, Places, Created, Requeue, clientVars
<1>8. CASE /\ UNCHANGED <<status, priority, run_queue>>
           /\ \/ cpu' = "dispatch" /\ current_thread' = NULL
              \/ cpu' = "counted" /\ current_thread' = current_thread
  BY <1>1, <1>2, <1>3, <1>8, MainIsThread
  DEF TypeInv, TypeOK, WhereThreadsAre, Places, Created, Requeue, clientVars,
      NULL
<1>9. QED
  BY <1>7, <1>8 DEF Requeue, p

LEMMA TypeForget == TypeInv /\ Forget => TypeInv'
  BY DEF TypeInv, TypeOK, WhereThreadsAre, Places, Created, Forget, clientVars,
         tcbVars

LEMMA TypeDispatch == TypeInv /\ Dispatch => TypeInv'
<1> SUFFICES ASSUME TypeInv, Dispatch PROVE TypeInv'
  OBVIOUS
<1>1. ~rq_is_all_empty
  BY DEF Dispatch
<1> DEFINE ch == Chosen
<1>2. /\ ch.p \in Prios /\ ch.taken.thread \in Threads
      /\ ch.taken.queue \in QueueOf(Threads)
      /\ Policy # "MLFQ" => ch.p = DEFAULT_PRIO
  BY <1>1, ChosenType
<1> DEFINE t == ch.taken.thread
<1>3. /\ run_queue' = [run_queue EXCEPT ![ch.p] = ch.taken.queue]
      /\ current_thread' = t
      /\ status' = [status EXCEPT ![t] = "RUNNING"]
      /\ Goto(t, Resumed(pc[t]))
      /\ cpu' = "thread" /\ fault' \in {fault, "stale_context"}
      /\ UNCHANGED <<priority, quantums_elapsed, return_value,
                     thread_id_counter, time_quantum_counter,
                     threads_finished_counter, mutex, using, work, passed,
                     to_create, joining, joined>>
  BY DEF Dispatch
<1> HIDE DEF ch
<1>4. current_thread' # NULL
  BY <1>2, <1>3, MainIsThread DEF NULL
<1>5. pc' \in [Threads -> Labels] /\ pc'[Main] = pc[Main]
  BY <1>2, <1>3, MainIsThread
  DEF TypeInv, TypeOK, WhereThreadsAre, Goto, Resumed, Labels, ClientLabels,
      Ends
<1>6. Places'
  BY <1>2, <1>3
  DEF TypeInv, TypeOK, WhereThreadsAre, Places, Created, Goto, Resumed,
      MutexLabels, HolderLabels
<1>7. \A u \in Threads : status'[u] = "FINISHED" => pc'[u] \in Ends
  BY <1>2, <1>3 DEF TypeInv, TypeOK, WhereThreadsAre, Goto
<1>8. TypeOK'
  BY <1>2, <1>3, <1>5 DEF TypeInv, TypeOK, Statuses, Faults
<1>9. WhereThreadsAre'
  BY <1>2, <1>3, <1>4, <1>5, <1>6, <1>7
  DEF TypeInv, TypeOK, WhereThreadsAre, Created, TableFull
<1>10. QED
  BY <1>8, <1>9 DEF TypeInv

\* The refresh of the LOW queue by either kind of tick.
LEMMA TypeRefresh ==
    ASSUME TypeInv, RefreshLow
    PROVE  /\ time_quantum_counter' \in 0 .. (REFRESH_QUANTUM - 1)
           /\ priority' \in [Threads -> Prios]
           /\ run_queue' \in RunQueues
           /\ Policy # "MLFQ" => run_queue' = run_queue
<1>1. run_queue \in RunQueues /\ priority \in [Threads -> Prios]
  BY DEF TypeInv, TypeOK, RunQueues
<1>2. time_quantum_counter' \in 0 .. (REFRESH_QUANTUM - 1)
  BY DEF TypeInv, TypeOK, RefreshLow, REFRESH_QUANTUM
<1>3. QED
  BY <1>1, <1>2, RefreshedType DEF RefreshLow, RefreshDue, HIGH_PRIO, Prios

LEMMA TypeTick ==
    ASSUME TypeInv,
           (\E t \in Threads : timer_schedule_handler(t)) \/ TickInScheduler
    PROVE  TypeInv'
<1>1. RefreshLow
  BY DEF timer_schedule_handler, TickInScheduler
<1>2. /\ time_quantum_counter' \in 0 .. (REFRESH_QUANTUM - 1)
      /\ priority' \in [Threads -> Prios]
      /\ run_queue' \in [Prios -> QueueOf(Threads)]
      /\ Policy # "MLFQ" => run_queue' = run_queue
  BY <1>1, TypeRefresh DEF RunQueues
<1>3. CASE \E t \in Threads : timer_schedule_handler(t)
  <2>1. /\ UNCHANGED <<status, quantums_elapsed, return_value,
                       thread_id_counter, current_thread,
                       threads_finished_counter, mutex, clientVars, fault>>
        /\ cpu' = IF current_thread = NULL THEN "dispatch" ELSE "requeue"
    BY <1>3 DEF timer_schedule_handler
  <2>2. QED
    BY <1>2, <2>1
    DEF TypeInv, TypeOK, WhereThreadsAre, Places, Created, clientVars
<1>4. CASE TickInScheduler /\ (IdleTick \/ TickWhileRequeued)
  <2>1. /\ UNCHANGED <<status, quantums_elapsed, return_value,
                       thread_id_counter, current_thread, cpu,
                       threads_finished_counter, mutex, clientVars>>
        /\ fault' \in Faults
    BY <1>4
    DEF TickInScheduler, IdleTick, TickWhileRequeued, clientVars, Faults
  <2>2. QED
    BY <1>2, <2>1
    DEF TypeInv, TypeOK, WhereThreadsAre, Places, Created, clientVars
<1>5. CASE TickInScheduler /\ TickWhileFinished
  <2> DEFINE c == current_thread
  <2>1. /\ cpu \in {"requeue", "counted"} /\ status[c] = "FINISHED"
        /\ cpu' = "requeue" /\ Goto(c, "done")
        /\ UNCHANGED quantums_elapsed \/ ChargeQuantum(c)
        /\ UNCHANGED <<status, return_value, thread_id_counter,
                       current_thread, threads_finished_counter, mutex, using,
                       work, passed, to_create, joining, joined, fault>>
    BY <1>5 DEF TickInScheduler, TickWhileFinished
  <2>2. c \in Threads /\ pc[c] \in Ends /\ c # Main
    BY <2>1 DEF TypeInv, TypeOK, WhereThreadsAre
  <2>3. /\ pc' \in [Threads -> Labels] /\ pc'[c] = "done"
        /\ \A u \in Threads \ {c} : pc'[u] = pc[u]
    BY <2>1, <2>2 DEF TypeInv, TypeOK, Goto, Labels
  <2>4. quantums_elapsed' \in [Threads -> Quantums]
    BY <2>1, <2>2, QuantumsType DEF TypeInv, TypeOK, ChargeQuantum
  <2>5. Places'
    BY <2>1, <2>2, <2>3
    DEF TypeInv, WhereThreadsAre, Places, Created, Ends, MutexLabels,
        HolderLabels
  <2>6. TypeOK'
    BY <1>2, <2>1, <2>3, <2>4 DEF TypeInv, TypeOK
  <2>7. WhereThreadsAre'
    BY <1>2, <2>1, <2>2, <2>3, <2>5, MainIsThread
    DEF TypeInv, WhereThreadsAre, Created, TableFull, Ends
  <2>8. QED
    BY <2>6, <2>7 DEF TypeInv
<1>6. QED
  BY <1>3, <1>4, <1>5 DEF TickInScheduler

LEMMA TypeUndisturbed == TypeInv /\ UNCHANGED vars => TypeInv'
  BY DEF TypeInv, TypeOK, WhereThreadsAre, Places, Created, vars, tcbVars,
         schedVars, clientVars

\* No thread but t, on its way to label k, finishes in a step.
EndsBy(t, k) ==
    \A u \in Threads : status'[u] = "FINISHED"
        => status[u] = "FINISHED" \/ (u = t /\ k \in Ends)

LEMMA NoneEnds ==
    ASSUME TypeInv, NEW t, NEW k,
           \/ UNCHANGED status
           \/ \E u \in Threads, x \in Statuses :
                 /\ status' = [status EXCEPT ![u] = x]
                 /\ x = "FINISHED" => u = t /\ k \in Ends
    PROVE  EndsBy(t, k)
<1>1. CASE UNCHANGED status
  BY <1>1 DEF EndsBy
<1>2. ASSUME NEW u \in Threads, NEW x \in Statuses,
             status' = [status EXCEPT ![u] = x],
             x = "FINISHED" => u = t /\ k \in Ends
      PROVE  EndsBy(t, k)
  BY <1>2 DEF EndsBy, TypeInv, TypeOK
<1>3. QED
  BY <1>1, <1>2

\* Calls that leave the control blocks' other fields, the scheduler and the
\* mutexes alone: a thread on the CPU goes to label k.
LEMMA TypeMove ==
    ASSUME TypeInv, NEW t \in Threads, NEW k \in Labels, Goto(t, k),
           pc[t] # "none",
           k # "create", k \in Ends \/ pc[t] \notin Ends, EndsBy(t, k),
           t = Main => /\ k \notin {"none"} \cup Ends
                       /\ k \in {"join", "yield_join"}
                            => joining' \in Threads /\ Created(joining'),
           t # Main => joining' = joining,
           k \in MutexLabels => using'[t] \in Mutexes,
           \A u \in Threads \ {t} : using'[u] = using[u],
           cpu' \in {"requeue", "counted"} => current_thread # NULL,
           cpu' = "thread" /\ current_thread = NULL
              => cpu = "thread" /\ k \notin DOMAIN YieldReturn,
           UNCHANGED <<thread_id_counter, current_thread>>,
           \/ run_queue' = run_queue
           \/ \A r \in Prios \ {DEFAULT_PRIO} :
                 Policy # "MLFQ" => run_queue'[r] = run_queue[r]
    PROVE  pc' \in [Threads -> Labels] /\ WhereThreadsAre'
<1>1. /\ pc'[t] = k
      /\ \A u \in Threads \ {t} : pc'[u] = pc[u]
      /\ pc' \in [Threads -> Labels]
  BY DEF TypeInv, TypeOK, Goto
<1>2. t = Main \/ Created(t)
  BY DEF TypeInv, WhereThreadsAre, Places
<1>3. Places'
  BY <1>1, <1>2 DEF TypeInv, WhereThreadsAre, Places, Created
<1>4. QED
  <2>1. \A u \in Threads : status'[u] = "FINISHED" => pc'[u] \in Ends
    BY <1>1 DEF TypeInv, WhereThreadsAre, EndsBy
  <2>2. QED
    BY <1>1, <1>3, <2>1, MainIsThread
    DEF TypeInv, WhereThreadsAre, Created, TableFull

\* sch_schedule puts a thread into one queue.
LEMMA ScheduledType ==
    ASSUME TypeInv, NEW t \in Threads
    PROVE  /\ sch_schedule(run_queue, t) \in RunQueues
           /\ Policy # "MLFQ"
                => \A r \in Prios \ {DEFAULT_PRIO} :
                      sch_schedule(run_queue, t)[r] = run_queue[r]
<1>1. TargetQueue(t, priority) \in Prios
  BY DEF TypeInv, TypeOK, TargetQueue, DEFAULT_PRIO, Prios
<1>2. Policy # "MLFQ" => TargetQueue(t, priority) = DEFAULT_PRIO
  BY DEF TargetQueue
<1>3. run_queue \in RunQueues
  BY DEF TypeInv, TypeOK, RunQueues
<1>4. QED
  BY <1>1, <1>2, <1>3, EnqueuedType DEF sch_schedule

LEMMA TypeCreate == TypeInv /\ worker_create => TypeInv'
<1> SUFFICES ASSUME TypeInv, worker_create PROVE TypeInv'
  OBVIOUS
<1> DEFINE k == IF TableFull(thread_id_counter') THEN "user" ELSE "create"
<1>1. /\ pc[Main] = "user" /\ to_create > 0 /\ to_create' = to_create - 1
      /\ cpu = "thread" /\ Goto(Main, k)
      /\ IF thread_id_counter = 0
           THEN /\ thread_id_counter' = 1
                /\ status' = [status EXCEPT ![Main] = "READY"]
                /\ run_queue' = sch_schedule(run_queue, Main)
           ELSE UNCHANGED <<thread_id_counter, status, run_queue>>
      /\ UNCHANGED <<priority, quantums_elapsed, return_value, current_thread,
                     cpu, time_quantum_counter, threads_finished_counter,
                     mutex, using, work, passed, joining, joined, fault>>
  BY DEF worker_create, At
<1>2. /\ thread_id_counter' \in 1 .. (MAX_THREADS - 1)
      /\ thread_id_counter \in Nat /\ thread_id_counter <= thread_id_counter'
      /\ to_create' \in 0 .. NumWorkers
  BY <1>1, ConstantsAssumption DEF TypeInv, TypeOK
<1>3. /\ status' \in [Threads -> Statuses]
      /\ \A u \in Threads : status'[u] = "FINISHED" => status[u] = "FINISHED"
  BY <1>1 DEF TypeInv, TypeOK, Statuses
<1>4. /\ run_queue' \in RunQueues
      /\ Policy # "MLFQ" => \A r \in Prios \ {DEFAULT_PRIO} :
                               run_queue'[r] = run_queue[r]
  BY <1>1, ScheduledType, MainIsThread DEF TypeInv, TypeOK, RunQueues
<1>5. /\ k \in {"user", "create"} /\ k \in Labels
      /\ k = "create" => ~TableFull(thread_id_counter')
  BY DEF Labels, ClientLabels, LibraryLabels
<1> HIDE DEF k
<1>6. /\ pc' \in [Threads -> Labels] /\ pc'[Main] = k
      /\ \A u \in Threads \ {Main} : pc'[u] = pc[u]
  BY <1>1, <1>5, MainIsThread DEF TypeInv, TypeOK, Goto
<1>7. TypeOK'
  BY <1>1, <1>2, <1>3, <1>4, <1>6 DEF TypeInv, TypeOK, RunQueues
<1>8. \A t \in Threads : Created(t) => Created(t)'
  BY <1>2, MainIsThread DEF Created
<1>9. Places'
  BY <1>1, <1>5, <1>6, <1>8, MainIsThread
  DEF TypeInv, WhereThreadsAre, Places, MutexLabels, HolderLabels
<1>10. \A t \in Threads : status'[t] = "FINISHED" => pc'[t] \in Ends
  BY <1>1, <1>3, <1>6 DEF TypeInv, WhereThreadsAre, Ends
<1>11. WhereThreadsAre'
  BY <1>1, <1>2, <1>4, <1>5, <1>6, <1>9, <1>10
  DEF TypeInv, WhereThreadsAre, Ends, YieldReturn, TableFull
<1>12. QED
  BY <1>7, <1>11 DEF TypeInv

LEMMA TypePush == TypeInv /\ PushCreated => TypeInv'
<1> SUFFICES ASSUME TypeInv, PushCreated PROVE TypeInv'
  OBVIOUS
<1> DEFINE id == thread_id_counter
<1>1. /\ pc[Main] = "create" /\ thread_id_counter' = id + 1
      /\ status' = [status EXCEPT ![id] = "READY"]
      /\ run_queue' = sch_schedule(run_queue, id)
      /\ pc' = [pc EXCEPT ![Main] = "user", ![id] = "user"]
      /\ UNCHANGED <<priority, quantums_elapsed, return_value, current_thread,
                     cpu, time_quantum_counter, threads_finished_counter,
                     mutex, using, work, passed, to_create, joining, joined,
                     fault>>
  BY DEF PushCreated, At
<1>2. /\ id \in Threads /\ id # Main /\ id \in Nat
      /\ thread_id_counter' \in 0 .. (MAX_THREADS - 1)
  BY <1>1, ConstantsAssumption
  DEF TypeInv, TypeOK, WhereThreadsAre, TableFull, Threads, Main
<1>3. /\ run_queue' \in RunQueues
      /\ Policy # "MLFQ" => \A r \in Prios \ {DEFAULT_PRIO} :
                               run_queue'[r] = run_queue[r]
  BY <1>1, <1>2, ScheduledType
<1>4. /\ pc' \in [Threads -> Labels] /\ pc'[id] = "user" /\ pc'[Main] = "user"
      /\ \A u \in Threads \ {Main, id} : pc'[u] = pc[u]
  BY <1>1, <1>2, MainIsThread DEF TypeInv, TypeOK, Labels, ClientLabels
<1>5. TypeOK'
  BY <1>1, <1>2, <1>3, <1>4 DEF TypeInv, TypeOK, RunQueues, Statuses
<1>6. \A t \in Threads : Created(t) \/ t = id => Created(t)'
  BY <1>1, <1>2, MainIsThread DEF Created
<1>7. Places'
  BY <1>1, <1>4, <1>6, MainIsThread
  DEF TypeInv, WhereThreadsAre, Places, MutexLabels, HolderLabels
<1>8. \A t \in Threads : status'[t] = "FINISHED" => pc'[t] \in Ends
  BY <1>1, <1>2, <1>4 DEF TypeInv, TypeOK, WhereThreadsAre, Ends
<1>9. WhereThreadsAre'
  BY <1>1, <1>3, <1>4, <1>7, <1>8
  DEF TypeInv, WhereThreadsAre, Ends, YieldReturn
<1>10. QED
  BY <1>5, <1>9 DEF TypeInv

\* Threads that end, yield or wait to join.
LEMMA TypeThreadStep ==
    ASSUME TypeInv, NEW t \in Threads,
           \/ t = Main /\ (StartJoin \/ worker_join)
           \/ \E v \in Values \cup {NULL} :
                 thread_function_wrapper(t, v) \/ worker_exit(t, v)
           \/ StoreExitValue(t) \/ worker_yield(t) \/ YieldSwap(t)
           \/ \E u \in Threads, p \in SetPrios : worker_setschedprio(t, u, p)
    PROVE  TypeInv'
<1> USE DEF Labels, ClientLabels, LibraryLabels, HolderLabels, MutexLabels,
            Ends, At, Statuses, schedVars, tcbVars
<1>1. CASE t = Main /\ StartJoin
  <2>1. 1 < thread_id_counter => 1 \in Threads
    BY MainIsThread
  <2>2. pc' \in [Threads -> Labels] /\ WhereThreadsAre'
    BY <1>1, <2>1, TypeMove, NoneEnds DEF StartJoin, Created, YieldReturn
  <2>3. QED
    BY <1>1, <2>2 DEF StartJoin, TypeInv, TypeOK
<1>2. CASE t = Main /\ worker_join
  <2>1. joining \in Threads /\ Created(joining)
    BY <1>2 DEF worker_join, TypeInv, WhereThreadsAre
  <2>2. CASE JoinDone(joining)
    <3>1. joining + 1 < thread_id_counter => joining + 1 \in Threads
      BY <2>1, ConstantsAssumption DEF TypeInv, TypeOK, Threads
    <3>2. pc' \in [Threads -> Labels] /\ WhereThreadsAre'
      BY <1>2, <2>2, <3>1, TypeMove, NoneEnds
      DEF worker_join, Created, YieldReturn
    <3>3. joined' \in [Threads -> Values \cup {NULL}] /\ joining' \in Nat
      BY <1>2, <2>1, <2>2, MainIsThread DEF worker_join, TypeInv, TypeOK
    <3>4. QED
      BY <1>2, <2>2, <3>2, <3>3 DEF worker_join, TypeInv, TypeOK
  <2>3. CASE ~JoinDone(joining)
    <3>1. pc' \in [Threads -> Labels] /\ WhereThreadsAre'
      BY <1>2, <2>1, <2>3, TypeMove, NoneEnds
      DEF worker_join, Created, YieldFrom, YieldRefused
    <3>2. QED
      BY <1>2, <2>3, <3>1 DEF worker_join, YieldFrom, TypeInv, TypeOK
  <2>4. QED
    BY <2>2, <2>3
<1>3. ASSUME NEW v \in Values \cup {NULL}, thread_function_wrapper(t, v)
      PROVE  TypeInv'
  <2>1. current_thread # NULL
    BY <1>3 DEF thread_function_wrapper, OnCpu
  <2>2. pc' \in [Threads -> Labels] /\ WhereThreadsAre'
    BY <1>3, <2>1, TypeMove, NoneEnds
    DEF thread_function_wrapper, SwapToScheduler, YieldReturn
  <2>3. QED
    BY <1>3, <2>2 DEF thread_function_wrapper, SwapToScheduler, TypeInv, TypeOK
<1>4. ASSUME NEW v \in Values \cup {NULL}, worker_exit(t, v)
      PROVE  TypeInv'
  <2>1. current_thread # NULL
    BY <1>4 DEF worker_exit, OnCpu
  <2>2. pc' \in [Threads -> Labels] /\ WhereThreadsAre'
    BY <1>4, <2>1, TypeMove, NoneEnds DEF worker_exit, YieldReturn
  <2>3. QED
    BY <1>4, <2>2 DEF worker_exit, TypeInv, TypeOK
<1>5. CASE StoreExitValue(t)
  <2>1. current_thread # NULL /\ t # Main
    BY <1>5 DEF StoreExitValue, OnCpu, TypeInv, WhereThreadsAre
  <2>2. pc' \in [Threads -> Labels] /\ WhereThreadsAre'
    BY <1>5, <2>1, TypeMove, NoneEnds
    DEF StoreExitValue, SwapToScheduler, YieldReturn
  <2>3. QED
    BY <1>5, <2>2 DEF StoreExitValue, SwapToScheduler, TypeInv, TypeOK
<1>6. CASE worker_yield(t)
  <2>1. work' \in [Threads -> Nat]
    BY <1>6 DEF worker_yield, Spend, CanCall, TypeInv, TypeOK
  <2>2. CASE UNCHANGED <<tcbVars, schedVars, mutex, pc, using, passed,
                         to_create, joining, joined, fault>>
    BY <2>1, <2>2 DEF TypeInv, TypeOK, WhereThreadsAre, Places, Created
  <2>3. CASE /\ ~YieldRefused(t) /\ UNCHANGED joining /\ cpu = "thread"
             /\ \/ pc[t] = "user" /\ YieldFrom(t, "yield_user")
                \/ pc[t] = "cs" /\ YieldFrom(t, "yield_cs")
    <3>1. using[t] \in Mutexes \/ pc[t] # "cs"
      BY DEF TypeInv, WhereThreadsAre, Places
    <3>2. pc' \in [Threads -> Labels] /\ WhereThreadsAre'
      BY <2>3, <3>1, TypeMove, NoneEnds DEF YieldFrom, YieldRefused
    <3>3. QED
      BY <2>1, <2>3, <3>2 DEF YieldFrom, TypeInv, TypeOK
  <2>4. QED
    BY <1>6, <2>2, <2>3 DEF worker_yield
<1>7. CASE YieldSwap(t)
  <2>1. /\ cpu = "thread" /\ OnCpu = t /\ pc[t] \in DOMAIN YieldReturn
        /\ Goto(t, YieldReturn[pc[t]]) /\ cpu' = "requeue"
        /\ UNCHANGED <<tcbVars, thread_id_counter, current_thread, run_queue,
                   time_quantum_counter, threads_finished_counter, mutex,
                   using, work, passed, to_create, joining, joined, fault>>
    BY <1>7 DEF YieldSwap, SwapToScheduler
  <2>2. current_thread # NULL
    BY <2>1 DEF OnCpu, TypeInv, WhereThreadsAre
  <2>3. /\ YieldReturn[pc[t]] \in {"user", "cs", "join"}
        /\ YieldReturn[pc[t]] = "cs" => pc[t] = "yield_cs"
        /\ YieldReturn[pc[t]] = "join" => pc[t] = "yield_join"
    BY <2>1 DEF YieldReturn
  <2>4. YieldReturn[pc[t]] \in MutexLabels => using[t] \in Mutexes
    BY <2>3 DEF TypeInv, WhereThreadsAre, Places
  <2>5. t = Main /\ pc[t] = "yield_join"
           => joining \in Threads /\ Created(joining)
    BY DEF TypeInv, WhereThreadsAre
  <2> DEFINE k == YieldReturn[pc[t]]
  <2>6. /\ k \in Labels /\ Goto(t, k) /\ pc[t] # "none"
        /\ k \notin {"none", "create", "yield_join"} \cup Ends
        /\ pc[t] \notin Ends
    BY <2>1, <2>3 DEF YieldReturn
  <2> HIDE DEF k
  <2>7. EndsBy(t, k)
    BY <2>1, NoneEnds
  <2>8. pc' \in [Threads -> Labels] /\ WhereThreadsAre'
    BY <2>1, <2>2, <2>3, <2>4, <2>5, <2>6, <2>7, TypeMove DEF k
  <2>9. QED
    BY <2>1, <2>8 DEF TypeInv, TypeOK
<1>8. ASSUME NEW u \in Threads, NEW p \in SetPrios, worker_setschedprio(t, u, p)
      PROVE  TypeInv'
  <2>1. priority' \in [Threads -> Prios] /\ work' \in [Threads -> Nat]
    BY <1>8, ConstantsAssumption
    DEF worker_setschedprio, Spend, CanCall, TypeInv, TypeOK
  <2>2. QED
    BY <1>8, <2>1
    DEF worker_setschedprio, TypeInv, TypeOK, WhereThreadsAre, Places, Created
<1>9. QED
  BY <1>1, <1>2, <1>3, <1>4, <1>5, <1>6, <1>7, <1>8

\* The blocked list is read, and the mutex written, by threads in the middle
\* of a call only.
LEMMA TypeMutexStep ==
    ASSUME TypeInv, NEW t \in Threads,
           \/ \E m \in Mutexes : worker_mutex_lock(t, m)
           \/ StoreOwner(t) \/ MarkBlocked(t) \/ Park(t)
           \/ worker_mutex_unlock(t) \/ ClearOwner(t)
           \/ DrainTest(t) \/ DrainOne(t)
    PROVE  TypeInv'
<1> DEFINE MutexRec == [locked : BOOLEAN, owner : Threads \cup {NULL},
                        blocked_threads : QueueOf(Threads)]
<1> USE DEF Labels, ClientLabels, LibraryLabels, HolderLabels, MutexLabels,
            Ends, At, Statuses, schedVars, tcbVars
<1>1. /\ pc[t] \in MutexLabels => using[t] \in Mutexes
      /\ mutex \in [Mutexes -> MutexRec]
      /\ using \in [Threads -> Mutexes \cup {NoMutex}]
      /\ run_queue \in RunQueues
  BY DEF TypeInv, TypeOK, WhereThreadsAre, Places, RunQueues
<1>2. t = Main => joining \in Nat
  BY DEF TypeInv, TypeOK
<1>3. ASSUME NEW m \in Mutexes, worker_mutex_lock(t, m)
      PROVE  TypeInv'
  <2>1. work' \in [Threads -> Nat]
    BY <1>3 DEF worker_mutex_lock, Spend, CanCall, TypeInv, TypeOK
  <2>2. /\ mutex' \in [Mutexes -> MutexRec]
        /\ using' \in [Threads -> Mutexes \cup {NoMutex}]
        /\ using'[t] = m
    BY <1>1, <1>3 DEF worker_mutex_lock
  <2>3. pc' \in [Threads -> Labels] /\ WhereThreadsAre'
    BY <1>1, <1>3, <2>2, TypeMove, NoneEnds DEF worker_mutex_lock, YieldReturn
  <2>4. QED
    BY <1>3, <2>1, <2>2, <2>3 DEF worker_mutex_lock, TypeInv, TypeOK
<1>4. CASE StoreOwner(t)
  <2>1. mutex' \in [Mutexes -> MutexRec]
    BY <1>1, <1>4 DEF StoreOwner
  <2>2. pc' \in [Threads -> Labels] /\ WhereThreadsAre'
    <3>1. CASE UNCHANGED pc
      BY <1>4, <3>1
      DEF StoreOwner, TypeInv, TypeOK, WhereThreadsAre, Places, Created
    <3>2. CASE Goto(t, "cs")
      BY <1>1, <1>4, <3>2, TypeMove, NoneEnds DEF StoreOwner, YieldReturn
    <3>3. QED
      BY <1>4, <3>1, <3>2 DEF StoreOwner
  <2>3. QED
    BY <1>4, <2>1, <2>2 DEF StoreOwner, TypeInv, TypeOK, Faults
<1>5. CASE MarkBlocked(t)
  <2>1. pc' \in [Threads -> Labels] /\ WhereThreadsAre'
    <3>1. CASE UNCHANGED pc
      BY <1>5, <3>1
      DEF MarkBlocked, TypeInv, TypeOK, WhereThreadsAre, Places, Created
    <3>2. CASE Goto(t, "lock_park")
      BY <1>1, <1>5, <3>2, TypeMove, NoneEnds DEF MarkBlocked, YieldReturn
    <3>3. QED
      BY <1>5, <3>1, <3>2 DEF MarkBlocked
  <2>2. QED
    BY <1>5, <2>1 DEF MarkBlocked, TypeInv, TypeOK, Faults
<1>6. CASE Park(t)
  <2>1. /\ using[t] \in Mutexes /\ cpu = "thread" /\ pc[t] = "lock_park"
        /\ mutex' = [mutex EXCEPT
                       ![using[t]].blocked_threads = q_enqueue(@, t)]
    BY <1>1, <1>6 DEF Park
  <2>2. q_enqueue(mutex[using[t]].blocked_threads, t) \in QueueOf(Threads)
    BY <1>1, <2>1, EnqueueType
  <2>3. mutex' \in [Mutexes -> MutexRec]
    BY <1>1, <2>1, <2>2
  <2>4. using' \in [Threads -> Mutexes \cup {NoMutex}]
    BY <1>1, <1>6 DEF Park
  <2>5. cpu' \in {"thread", "requeue"} /\ status' \in [Threads -> Statuses]
        /\ (cpu' = "requeue" => current_thread # NULL)
    BY <1>6, <2>1
    DEF Park, SwapToScheduler, YieldRefused, TypeInv, TypeOK
  <2>6. pc' \in [Threads -> Labels] /\ WhereThreadsAre'
    <3>1. CASE ChecksLock
      BY <1>1, <1>6, <2>1, <2>5, <3>1, TypeMove, NoneEnds
      DEF Park, AfterFailedLock, YieldReturn
    <3>2. CASE ~ChecksLock
      BY <1>1, <1>6, <2>1, <2>5, <3>2, TypeMove, NoneEnds
      DEF Park, AfterFailedLock, YieldReturn
    <3>3. QED
      BY <3>1, <3>2
  <2>7. QED
    BY <1>6, <2>3, <2>4, <2>5, <2>6 DEF Park, TypeInv, TypeOK
<1>7. CASE worker_mutex_unlock(t)
  <2>1. mutex' \in [Mutexes -> MutexRec]
    BY <1>1, <1>7 DEF worker_mutex_unlock, Released
  <2>2. pc' \in [Threads -> Labels] /\ WhereThreadsAre'
    BY <1>1, <1>7, TypeMove, NoneEnds DEF worker_mutex_unlock, YieldReturn
  <2>3. QED
    BY <1>7, <2>1, <2>2 DEF worker_mutex_unlock, TypeInv, TypeOK
<1>8. CASE ClearOwner(t)
  <2>1. mutex' \in [Mutexes -> MutexRec]
    BY <1>1, <1>8 DEF ClearOwner
  <2>2. pc' \in [Threads -> Labels] /\ WhereThreadsAre'
    BY <1>1, <1>8, TypeMove, NoneEnds DEF ClearOwner, YieldReturn
  <2>3. QED
    BY <1>8, <2>1, <2>2 DEF ClearOwner, TypeInv, TypeOK
<1>9. CASE DrainTest(t)
  <2>1. using' \in [Threads -> Mutexes \cup {NoMutex}]
    BY <1>1, <1>9 DEF DrainTest, ReturnFromUnlock
  <2>2. pc' \in [Threads -> Labels] /\ WhereThreadsAre'
    <3>1. CASE ReturnFromUnlock(t)
      BY <1>1, <1>9, <3>1, TypeMove, NoneEnds
      DEF DrainTest, ReturnFromUnlock, YieldReturn
    <3>2. CASE Goto(t, "unlock_take") /\ UNCHANGED using
      BY <1>1, <1>9, <3>2, TypeMove, NoneEnds DEF DrainTest, YieldReturn
    <3>3. QED
      BY <1>9, <3>1, <3>2 DEF DrainTest
  <2>3. QED
    BY <1>9, <2>1, <2>2 DEF DrainTest, TypeInv, TypeOK
<1>10. CASE DrainOne(t)
  <2> DEFINE blocked == mutex[using[t]].blocked_threads
             taken   == q_dequeue(blocked)
  <2>1. using[t] \in Mutexes /\ blocked \in QueueOf(Threads)
    BY <1>1, <1>10 DEF DrainOne
  <2>2. CASE q_is_empty(blocked)
    BY <1>10, <2>2
    DEF DrainOne, TypeInv, TypeOK, WhereThreadsAre, Places, Created, Faults
  <2>3. CASE ~q_is_empty(blocked)
    <3>1. taken.thread \in Threads /\ taken.queue \in QueueOf(Threads)
      BY <2>1, <2>3, DequeueType
    <3>2. /\ mutex' = [mutex EXCEPT ![using[t]].blocked_threads = taken.queue]
          /\ status' = [status EXCEPT ![taken.thread] = "READY"]
          /\ run_queue' = sch_schedule(run_queue, taken.thread)
          /\ \/ ReturnFromUnlock(t)
             \/ Goto(t, "unlock_more") /\ UNCHANGED using
          /\ UNCHANGED <<priority, quantums_elapsed, return_value,
                         thread_id_counter, current_thread, cpu,
                         time_quantum_counter, threads_finished_counter, work,
                         passed, to_create, joining, joined, fault>>
          /\ cpu = "thread" /\ pc[t] \in {"unlock_take", "unlock_more"}
      BY <1>10, <2>3 DEF DrainOne
    <3> HIDE DEF taken, blocked
    <3>3. mutex' \in [Mutexes -> MutexRec]
      BY <1>1, <2>1, <3>1, <3>2
    <3>4. status' \in [Threads -> Statuses]
      BY <3>1, <3>2 DEF TypeInv, TypeOK
    <3>5. using' \in [Threads -> Mutexes \cup {NoMutex}]
      BY <1>1, <3>2 DEF ReturnFromUnlock
    <3>6. /\ TargetQueue(taken.thread, priority) \in Prios
          /\ Policy # "MLFQ"
                => TargetQueue(taken.thread, priority) = DEFAULT_PRIO
      BY <3>1 DEF TypeInv, TypeOK, TargetQueue, DEFAULT_PRIO, Prios
    <3>7. /\ run_queue' \in RunQueues
          /\ \A r \in Prios \ {DEFAULT_PRIO} :
                Policy # "MLFQ" => run_queue'[r] = run_queue[r]
      BY <1>1, <3>1, <3>2, <3>6, EnqueuedType DEF sch_schedule
    <3>8. pc' \in [Threads -> Labels] /\ WhereThreadsAre'
      <4>1. EndsBy(t, "user") /\ EndsBy(t, "unlock_more")
        BY <3>1, <3>2, NoneEnds
      <4>2. CASE ReturnFromUnlock(t)
        BY <1>1, <3>2, <3>7, <4>1, <4>2, TypeMove
        DEF ReturnFromUnlock, YieldReturn
      <4>3. CASE Goto(t, "unlock_more") /\ UNCHANGED using
        BY <1>1, <2>1, <3>2, <3>7, <4>1, <4>3, TypeMove DEF YieldReturn
      <4>4. QED
        BY <3>2, <4>2, <4>3
    <3>9. QED
      BY <3>2, <3>3, <3>4, <3>5, <3>7, <3>8 DEF RunQueues, TypeInv, TypeOK
  <2>4. QED
    BY <2>2, <2>3
<1>11. QED
  BY <1>3, <1>4, <1>5, <1>6, <1>7, <1>8, <1>9, <1>10

LEMMA TypeNext == TypeInv /\ [Next]_vars => TypeInv'
<1> SUFFICES ASSUME TypeInv, [Next]_vars PROVE TypeInv'
  OBVIOUS
<1>1. ASSUME NEW t \in Threads, Step(t)
      PROVE  TypeInv'
  BY <1>1, TypeCreate, TypePush, TypeThreadStep, TypeMutexStep DEF Step
<1>2. QED
  BY <1>1, TypeTick, TypeRequeue, TypeForget, TypeDispatch, TypeUndisturbed
  DEF Next, Ended

\* Every state has its type: the queues hand out threads, main joins slots
\* of thread_table, and no counter leaves its range, under every policy.
THEOREM TypesCorrect == Spec => []TypeOK
<1>1. TypeInv => TypeOK
  BY DEF TypeInv
<1>2. QED
  BY TypeInit, TypeNext, <1>1, PTL DEF Spec
-----------------------------------------------------------------------------
(***************************************************************************)
(* Mutual exclusion                                                        *)
(***************************************************************************)

\* The end of a thread, and its return from worker_exit when it runs again,
\* have nothing to do with a mutex.
LEMMA LockNext == TypeInv /\ LockInv /\ [Next]_vars => LockInv'
<1> SUFFICES ASSUME TypeInv, LockInv, [Next]_vars PROVE LockInv'
  OBVIOUS
<1>1. ASSUME NEW t \in Threads, Step(t)
      PROVE  LockInv'
  BY <1>1, LockStep DEF TypeInv, WhereThreadsAre
<1>2. ASSUME NEW t \in Threads, timer_schedule_handler(t)
      PROVE  LockInv'
  BY <1>2, LockUndisturbed DEF timer_schedule_handler, clientVars
<1>3. CASE TickInScheduler
  <2>1. UNCHANGED <<using, mutex, thread_id_counter>>
    BY <1>3 DEF TickInScheduler
  <2>2. CASE UNCHANGED pc
    BY <2>1, <2>2, LockUndisturbed
  <2>3. CASE TickWhileFinished
    <3>1. /\ current_thread \in Threads /\ pc[current_thread] \in Ends
          /\ Goto(current_thread, "done")
      BY <2>3 DEF TickWhileFinished, TypeInv, TypeOK, WhereThreadsAre
    <3>2. QED
      BY <2>1, <3>1, LockStay, SameMutex
      DEF Ends, Labels, HolderLabels, MutexLabels
  <2>4. QED
    BY <1>3, <2>2, <2>3 DEF TickInScheduler, IdleTick, TickWhileRequeued
<1>4. CASE Requeue \/ Forget
  BY <1>4, LockUndisturbed DEF Requeue, Forget, clientVars
<1>5. CASE Dispatch
  <2> DEFINE t == Chosen.taken.thread
  <2>1. /\ UNCHANGED <<using, mutex, thread_id_counter>>
        /\ Goto(t, Resumed(pc[t])) /\ ~rq_is_all_empty
    BY <1>5 DEF Dispatch
  <2>2. t \in Threads
    BY <2>1, ChosenType
  <2> HIDE DEF t
  <2>3. CASE pc[t] = "past_exit"
    BY <2>1, <2>2, <2>3, LockStay, SameMutex
    DEF Resumed, Labels, ClientLabels, HolderLabels, MutexLabels
  <2>4. CASE pc[t] # "past_exit"
    BY <2>1, <2>2, <2>4, LockUndisturbed DEF Resumed, Goto, LockInv, LockTypes
  <2>5. QED
    BY <2>3, <2>4
<1>6. CASE UNCHANGED vars
  BY <1>6, LockUndisturbed DEF vars, clientVars, schedVars
<1>7. QED
  BY <1>1, <1>2, <1>3, <1>4, <1>5, <1>6 DEF Next, Ended

\* Clients that test what worker_mutex_lock returns exclude each other,
\* whenever the ticks come.
THEOREM MutexCorrect == ChecksLock /\ Spec => []MutualExclusion
<1>1. LockInv => MutualExclusion
  BY DEF LockInv
<1>2. QED
  BY TypeInit, TypeNext, LockInit, LockNext, <1>1, PTL DEF Spec

\* The lock word that worker_mutex_lock tests and sets tells whether a thread
\* holds the mutex: none is lost by a release and none is held without it.
THEOREM LockWordCorrect == ChecksLock /\ Spec => []LockedWhileHeld
<1>1. LockInv => LockedWhileHeld
  BY DEF LockInv
<1>2. QED
  BY TypeInit, TypeNext, LockInit, LockNext, <1>1, PTL DEF Spec
=============================================================================
