------------------------------ MODULE CondVar ------------------------------
(***************************************************************************)
(* ConditionVariable (src/condition_variable.cpp) on top of Mutex.  wait() *)
(* has three parts with a switch in between: it queues up and releases the *)
(* mutex, blocks, and locks the mutex again once it is back on the CPU.    *)
(*                                                                         *)
(*   cv_queue   ConditionVariable::wait_queue_ of every condition variable *)
(*   cv_mutex   the mutex given to the wait() a thread is in, or NoMutex   *)
(*   cv_pc      where in wait() a thread is: "out" of it or in its final   *)
(*              lock(), about to "block", or suspended before the "relock" *)
(***************************************************************************)
EXTENDS Mutex

CONSTANT Conds

VARIABLES cv_queue, cv_mutex, cv_pc

cv_vars == <<cv_queue, cv_mutex, cv_pc>>
all_vars == <<vars, cv_vars>>

CvInit ==
    /\ Init
    /\ cv_queue = [c \in Conds |-> << >>]
    /\ cv_mutex = [t \in Tids |-> NoMutex]
    /\ cv_pc = [t \in Tids |-> "out"]

\* The running thread executes its body, outside lock() and wait().
CvBody == InBody /\ cv_pc[current] = "out"

-----------------------------------------------------------------------------
(* ConditionVariable::wait.                                                *)

\* The caller owns the mutex (else wait returns at once): push, then unlock.
WaitRelease(c, m) ==
    /\ CvBody
    /\ owner[m] = current
    /\ cv_queue' = [cv_queue EXCEPT ![c] = Append(@, current)]
    /\ Unlock(m)
    /\ cv_mutex' = [cv_mutex EXCEPT ![current] = m]
    /\ cv_pc' = [cv_pc EXCEPT ![current] = "block"]

\* blockCurrent.
WaitBlock ==
    /\ InThread
    /\ cv_pc[current] = "block"
    /\ Block
    /\ cv_pc' = [cv_pc EXCEPT ![current] = "relock"]
    /\ UNCHANGED <<mutex_vars, cv_queue, cv_mutex>>

\* Back on the CPU: mutex.lock(), at once or after waiting for the mutex.
WaitRelock ==
    /\ InThread
    /\ cv_pc[current] = "relock"
    /\ \E m \in Mutexes : m = cv_mutex[current] /\ (LockFree(m) \/ LockBusy(m))
    /\ cv_pc' = [cv_pc EXCEPT ![current] = "out"]
    /\ cv_mutex' = [cv_mutex EXCEPT ![current] = NoMutex]
    /\ UNCHANGED cv_queue

-----------------------------------------------------------------------------
(* ConditionVariable::signal and broadcast.                                *)

\* Mutant: signal looks at the first waiter and leaves it in the queue.
MutantSignalEffect(c) ==
    /\ UNCHANGED cv_queue
    /\ IF cv_queue[c] = << >>
       THEN UNCHANGED <<state, self_woken>>
       ELSE WakeEffect(Head(cv_queue[c]))

\* signal: front and pop of the queue, then wakeThread.
SignalEffect(c) ==
    IF cv_queue[c] = << >>
    THEN UNCHANGED <<cv_queue, state, self_woken>>
    ELSE /\ cv_queue' = [cv_queue EXCEPT ![c] = Tail(@)]
         /\ WakeEffect(Head(cv_queue[c]))

\* What every caller of signal and broadcast leaves alone.
NotifyFrame ==
    /\ UNCHANGED <<mutex_vars, cv_mutex, cv_pc>>
    /\ UNCHANGED <<next_tid, pool, finished, ended, current, on_cpu>>

Signal(c) ==
    /\ CvBody \/ InMain
    /\ SignalEffect(c)
    /\ NotifyFrame

\* broadcast: wakeThread for every entry of the queue, which is then empty.
Broadcast(c) ==
    LET woken == {t \in pool : \E i \in 1..Len(cv_queue[c]) : cv_queue[c][i] = t}
    IN  /\ CvBody \/ InMain
        /\ cv_queue' = [cv_queue EXCEPT ![c] = << >>]
        /\ state' = [t \in Tids |-> IF t \in woken THEN AfterSetState(state[t], "READY")
                                                   ELSE state[t]]
        /\ self_woken' = self_woken \union {t \in woken : state[t] = "RUNNING"}
        /\ NotifyFrame

-----------------------------------------------------------------------------
(* The other steps of the system leave the condition variables alone.      *)

CvLock(m) ==
    /\ \/ CvBody /\ (LockFree(m) \/ LockBusy(m) \/ Unlock(m))
       \/ LockResume(m)
    /\ UNCHANGED cv_vars

CvSched ==
    /\ \/ InMain /\ CreateThread
       \/ \E t \in Tids : Dispatch(t)
       \/ EndStep
       \/ CvBody /\ (Yield \/ Return)
       \/ LinkReturn
    /\ UNCHANGED <<mutex_vars, cv_vars>>

CvMeddle(t) == Meddle(t) /\ UNCHANGED cv_vars

CvNext ==
    \/ CvSched \/ WaitBlock \/ WaitRelock
    \/ \E m \in Mutexes : CvLock(m) \/ \E c \in Conds : WaitRelease(c, m)
    \/ \E c \in Conds : Signal(c) \/ Broadcast(c)
    \/ \E t \in Tids : CvMeddle(t)

CvSpec == CvInit /\ [][CvNext]_all_vars

-----------------------------------------------------------------------------
(* Correctness.                                                            *)

\* The thread t sleeps in wait(), or is about to.
Sleeping(t) == cv_pc[t] = "block" \/ (cv_pc[t] = "relock" /\ state[t] = "BLOCKED")

\* As long as the menu does not interfere, the queues of the condition
\* variables hold exactly the threads that sleep in wait(), each in one queue
\* and once: every signal finds a thread that is really asleep, and neither
\* unlock() nor a wakeup meant for the mutex gets a thread out of wait().
CvQueueIsAsleep ==
    meddled = 0 =>
        /\ \A c, d \in Conds : \A i \in 1..Len(cv_queue[c]), j \in 1..Len(cv_queue[d]) :
              cv_queue[c][i] = cv_queue[d][j] => c = d /\ i = j
        /\ \A t \in Tids :
              Sleeping(t) <=> \E c \in Conds : \E i \in 1..Len(cv_queue[c]) : cv_queue[c][i] = t
=============================================================================
