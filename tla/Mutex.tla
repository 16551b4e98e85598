------------------------------- MODULE Mutex -------------------------------
(***************************************************************************)
(* Mutex (src/mutex.cpp) with the DeadlockDetector it feeds                *)
(* (src/deadlock_detector.cpp), on top of cooperative threads.  The thread *)
(* bodies are arbitrary: any sequence of lock, tryLock, unlock and yield,  *)
(* ended by a return that may leave mutexes locked.                        *)
(*                                                                         *)
(*   locked, owner   Mutex::locked_ and owner_tid_ (NoThread for -1)       *)
(*   wait_queue      Mutex::wait_queue_                                    *)
(*   waiting         the mutex in whose lock() a thread is suspended in    *)
(*                   blockCurrent (its program counter), or NoMutex        *)
(*   wait_edges, hold_edges   the two kinds of edges of the detector's     *)
(*                   graph_; no edge is ever added twice, so sets do       *)
(*   reported        whether the last detect() found a cycle               *)
(*   held            history: the mutexes a thread has locked, by its own  *)
(*                   account, and not unlocked                             *)
(*   meddled         number of wakes, blocks and removals done from        *)
(*                   outside, by the menu of the main program              *)
(*                                                                         *)
(* A call that returns at once (lock by the owner or by the main program,  *)
(* a tryLock that fails, an unlock by another thread) changes nothing and  *)
(* is a stuttering step.                                                   *)
(***************************************************************************)
EXTENDS CoopSched, Sequences

CONSTANTS Mutexes, NoMutex,
          MaxMeddling        \* bound on calls from the menu

ASSUME MutexAssumption == NoMutex \notin Mutexes /\ MaxMeddling \in Nat

VARIABLES locked, owner, wait_queue, waiting, wait_edges, hold_edges,
          reported, held, meddled

lock_vars == <<locked, owner, wait_queue>>
graph_vars == <<wait_edges, hold_edges, reported>>
mutex_vars == <<lock_vars, graph_vars, waiting, held, meddled>>
vars == <<coop_vars, mutex_vars>>

Init ==
    /\ CoopInit
    /\ locked = [m \in Mutexes |-> FALSE]
    /\ owner = [m \in Mutexes |-> NoThread]
    /\ wait_queue = [m \in Mutexes |-> << >>]
    /\ waiting = [t \in Tids |-> NoMutex]
    /\ wait_edges = {} /\ hold_edges = {} /\ reported = FALSE
    /\ held = [t \in Tids |-> {}]
    /\ meddled = 0

\* The running thread executes its body, outside any lock().
InBody == InThread /\ waiting[current] = NoMutex

-----------------------------------------------------------------------------
(* DeadlockDetector.                                                       *)

\* Every thread of S waits for a mutex that a thread of S holds.
Knot(S, waits, holds) ==
    /\ S # {}
    /\ \A t \in S : \E u \in S, m \in Mutexes : <<t, m>> \in waits /\ <<m, u>> \in holds

\* DeadlockDetector::detect: the graph has a cycle iff some nonempty set of
\* its threads has all its successors' successors inside.
Detect(waits, holds) == \E S \in SUBSET Tids : Knot(S, waits, holds)

-----------------------------------------------------------------------------
(* Mutex::lock, tryLock and unlock.                                        *)

\* Mutant: addHoldEdge is given its arguments in the wrong order.
MutantTake(m) ==
    /\ locked' = [locked EXCEPT ![m] = TRUE]
    /\ owner' = [owner EXCEPT ![m] = current]
    /\ hold_edges' = hold_edges \union {<<current, m>>}
    /\ held' = [held EXCEPT ![current] = @ \union {m}]
    /\ UNCHANGED <<wait_queue, reported, meddled, coop_vars>>

\* The tail of lock(), and a tryLock that succeeds: take the mutex.
Take(m) ==
    /\ locked' = [locked EXCEPT ![m] = TRUE]
    /\ owner' = [owner EXCEPT ![m] = current]
    /\ hold_edges' = hold_edges \union {<<m, current>>}
    /\ held' = [held EXCEPT ![current] = @ \union {m}]
    /\ UNCHANGED <<wait_queue, reported, meddled, coop_vars>>

\* One turn of lock()'s loop: record the wait, look for a deadlock, queue up
\* and block.  A deadlock is only printed; the thread blocks all the same.
WaitFor(m) ==
    /\ wait_edges' = wait_edges \union {<<current, m>>}
    /\ reported' = Detect(wait_edges', hold_edges)
    /\ wait_queue' = [wait_queue EXCEPT ![m] = Append(@, current)]
    /\ Block
    /\ waiting' = [waiting EXCEPT ![current] = m]
    /\ UNCHANGED <<locked, owner, hold_edges, held, meddled>>

\* lock() or tryLock() of a free mutex.
LockFree(m) ==
    /\ InBody
    /\ ~locked[m]
    /\ Take(m)
    /\ UNCHANGED <<wait_edges, waiting>>

\* lock() of a mutex that another thread holds.
LockBusy(m) ==
    /\ InBody
    /\ locked[m] /\ owner[m] # current
    /\ WaitFor(m)

\* Mutant: a woken waiter takes the mutex without testing locked_ again.
MutantLockResume(m) ==
    /\ InThread
    /\ waiting[current] = m
    /\ Take(m)
    /\ wait_edges' = wait_edges \ {<<current, m>>}
    /\ waiting' = [waiting EXCEPT ![current] = NoMutex]

\* Mutant: the wait edge is left behind when lock() succeeds after a wait.
MutantLockResumeEdge(m) ==
    /\ InThread
    /\ waiting[current] = m
    /\ IF locked[m]
       THEN WaitFor(m)
       ELSE /\ Take(m)
            /\ UNCHANGED wait_edges
            /\ waiting' = [waiting EXCEPT ![current] = NoMutex]

\* A thread comes back from blockCurrent inside lock() and tests locked_
\* again: somebody may have taken the mutex in between.
LockResume(m) ==
    /\ InThread
    /\ waiting[current] = m
    /\ IF locked[m]
       THEN WaitFor(m)
       ELSE /\ Take(m)
            /\ wait_edges' = wait_edges \ {<<current, m>>}
            /\ waiting' = [waiting EXCEPT ![current] = NoMutex]

\* Mutant: the first waiter is dropped from the queue and not woken.
MutantWakeFirst(m) ==
    /\ wait_queue' = [wait_queue EXCEPT ![m] = IF @ = << >> THEN @ ELSE Tail(@)]
    /\ UNCHANGED <<state, self_woken>>

\* Mutant: the first waiter is woken and left in the queue.
MutantWakeFirstPeek(m) ==
    IF wait_queue[m] = << >>
    THEN UNCHANGED <<wait_queue, state, self_woken>>
    ELSE UNCHANGED wait_queue /\ WakeEffect(Head(wait_queue[m]))

\* The end of unlock(): front and pop of the queue, then wakeThread.
WakeFirst(m) ==
    IF wait_queue[m] = << >>
    THEN UNCHANGED <<wait_queue, state, self_woken>>
    ELSE /\ wait_queue' = [wait_queue EXCEPT ![m] = Tail(@)]
         /\ WakeEffect(Head(wait_queue[m]))

\* Mutex::unlock: the mutex is set free and the first waiter, if any, is
\* woken; it does not own the mutex yet.
Unlock(m) ==
    /\ InBody
    /\ locked[m] /\ owner[m] = current
    /\ hold_edges' = hold_edges \ {<<m, current>>}
    /\ locked' = [locked EXCEPT ![m] = FALSE]
    /\ owner' = [owner EXCEPT ![m] = NoThread]
    /\ held' = [held EXCEPT ![current] = @ \ {m}]
    /\ WakeFirst(m)
    /\ UNCHANGED <<wait_edges, reported, waiting, meddled>>
    /\ UNCHANGED <<next_tid, pool, finished, ended, current, on_cpu>>

-----------------------------------------------------------------------------
(* The menu of the main program: handleWake, handleRemove, handleBlock.    *)

Meddle(t) ==
    /\ InMain
    /\ meddled < MaxMeddling
    /\ t \in pool
    /\ WakeThread(t) \/ RemoveThread(t) \/ ForceBlock(t)
    /\ meddled' = meddled + 1
    /\ UNCHANGED <<lock_vars, graph_vars, waiting, held>>

-----------------------------------------------------------------------------
(* Scheduling steps that touch no mutex.                                   *)

SchedStep ==
    /\ \/ InMain /\ CreateThread
       \/ \E t \in Tids : Dispatch(t)
       \/ EndStep
       \/ InBody /\ (Yield \/ Return)
       \/ LinkReturn
    /\ UNCHANGED mutex_vars

Next ==
    \/ SchedStep
    \/ \E m \in Mutexes : LockFree(m) \/ LockBusy(m) \/ LockResume(m) \/ Unlock(m)
    \/ \E t \in Tids : Meddle(t)

Spec == Init /\ [][Next]_vars

-----------------------------------------------------------------------------
(* Correctness.                                                            *)

TypeOK ==
    /\ CoopTypeOK
    /\ locked \in [Mutexes -> BOOLEAN]
    /\ owner \in [Mutexes -> Tids \union {NoThread}]
    /\ wait_queue \in [Mutexes -> Seq(Tids)]
    /\ waiting \in [Tids -> Mutexes \union {NoMutex}]
    /\ wait_edges \subseteq Tids \X Mutexes
    /\ hold_edges \subseteq Mutexes \X Tids
    /\ reported \in BOOLEAN
    /\ held \in [Tids -> SUBSET Mutexes]
    /\ meddled \in Nat

\* No two threads hold a mutex at once, by their own account of which calls
\* of lock returned: neither a thread that takes the mutex between unlock
\* and the dispatch of the woken waiter, nor a waiter woken from outside or
\* twice, enters beside the owner (the while loop of Mutex::lock).
MutualExclusion ==
    \A t, u \in Tids : t # u => held[t] \intersect held[u] = {}

\* A mutex that is free with threads queued on it has a waiter that unlock
\* has woken, that is runnable and will test locked_ again: no wakeup is
\* lost, as long as nobody wakes, blocks or removes threads from outside
\* (Mutex::unlock, which hands out one wake per release, and Mutex::lock).
NoLostWakeup ==
    meddled = 0 =>
        \A m \in Mutexes :
            ~locked[m] /\ wait_queue[m] # << >> =>
                \E t \in pool : waiting[t] = m /\ state[t] \in {"READY", "RUNNING"}

\* Under the same condition the queue of a mutex holds exactly the threads
\* blocked in its lock(), once each, so every release wakes a thread that
\* is really asleep.
QueueIsBlocked ==
    meddled = 0 =>
        \A m \in Mutexes :
            /\ \A i, j \in 1..Len(wait_queue[m]) :
                  wait_queue[m][i] = wait_queue[m][j] => i = j
            /\ \A t \in Tids :
                  (\E i \in 1..Len(wait_queue[m]) : wait_queue[m][i] = t)
                      <=> (waiting[t] = m /\ state[t] = "BLOCKED")

\* Threads of S can never go on: each is inside lock() of a mutex that a
\* member of S owns.  Read on the mutexes, not on the detector's graph.
Deadlocked(S) ==
    /\ S # {}
    /\ \A t \in S : waiting[t] # NoMutex /\ owner[waiting[t]] \in S

\* The detector neither misses a deadlock among mutexes nor reports one that
\* is not there: the answer of the last detect() agrees with the mutexes in
\* every state, though detect() runs only when a thread starts to wait, wait
\* edges stay in the graph of threads already woken, and the edges change
\* with every lock and unlock (DeadlockDetector::detect, Mutex::lock).
DetectorExact ==
    reported <=> \E S \in SUBSET Tids : Deadlocked(S)

\* A step leaves deadlocked threads deadlocked.
KeepsDeadlocks == \A S \in SUBSET Tids : Deadlocked(S) => Deadlocked(S)'

\* A reported deadlock is for ever: no step, a wake, block or removal from
\* outside included, gets a deadlocked thread out of its lock().
DeadlockIsStable == [][KeepsDeadlocks]_vars

\* A thread that has returned from its entry function is FINISHED.  (the
\* comment of exitCurrent in scheduler.h; a wake from outside breaks it)
ExitMarksFinished == \A t \in Tids : ended[t] => state[t] = "FINISHED"
=============================================================================
