----------------------------- MODULE CoopSched -----------------------------
(***************************************************************************)
(* Cooperative threads, with the scheduling policy left open.              *)
(*                                                                         *)
(* This is what every other part of the library relies on: one context     *)
(* runs at a time; a thread keeps the CPU until it yields, blocks or exits *)
(* (Scheduler::yield, blockCurrent, exitCurrent), and between two such     *)
(* points its calls are atomic; the main program runs when no thread does. *)
(* UThread refines this module with the four policies of the code, and the *)
(* synchronisation modules extend it, so that they hold under any policy.  *)
(*                                                                         *)
(*   pool        the thread ids of ThreadPool::threads_                    *)
(*   next_tid    ThreadPool::next_tid_                                     *)
(*   state       TCB::state_ of every thread ever created                  *)
(*   finished    TCB::finished_                                            *)
(*   ended       the entry function has returned to threadWrapper          *)
(*   current     Scheduler::current_, NoThread for nullptr                 *)
(*   on_cpu      the context of thread "current" is the one executing      *)
(*   self_woken  history: threads that wakeThread moved from RUNNING to    *)
(*               READY, which TCB::setState accepts                        *)
(*                                                                         *)
(* current stays set between the switch back to the main context and the   *)
(* end of Scheduler::step; the round-robin slice may then resume it.       *)
(*                                                                         *)
(* The scheduler is not entered from inside a thread: step, run and join   *)
(* are calls of the main program, as in every caller in the repository.    *)
(***************************************************************************)
EXTENDS Tcb

CONSTANT MaxThreads      \* bound on the number of createThread calls

ASSUME MaxThreadsAssumption == MaxThreads \in Nat

VARIABLES next_tid, pool, state, finished, ended, current, on_cpu, self_woken

coop_vars == <<next_tid, pool, state, finished, ended, current, on_cpu,
               self_woken>>

Tids == 1..MaxThreads
NoThread == 0

-----------------------------------------------------------------------------
CoopInit ==
    /\ next_tid = 1
    /\ pool = {}
    /\ state = [t \in Tids |-> "READY"]
    /\ finished = [t \in Tids |-> FALSE]
    /\ ended = [t \in Tids |-> FALSE]
    /\ current = NoThread
    /\ on_cpu = FALSE
    /\ self_woken = {}

\* The main program is executing, outside Scheduler::step.
InMain == current = NoThread

\* The body of some thread is executing.
InThread == on_cpu /\ ~ended[current]

\* Who may call the thread API: the main program or the running thread.
ApiCallable == InMain \/ InThread

-----------------------------------------------------------------------------
(* Calls that leave the caller running.                                    *)

\* ThreadPool::createThread with the TCB constructor.
CreateThread ==
    /\ ApiCallable
    /\ next_tid \in Tids
    /\ pool' = pool \union {next_tid}
    /\ next_tid' = next_tid + 1
    /\ state' = [state EXCEPT ![next_tid] = "READY"]
    /\ finished' = [finished EXCEPT ![next_tid] = FALSE]
    /\ ended' = [ended EXCEPT ![next_tid] = FALSE]
    /\ UNCHANGED <<current, on_cpu, self_woken>>

\* UThreadRuntime::removeThread.  A running thread that is removed goes on
\* running: the scheduler holds its own reference to the TCB.
RemoveThread(t) ==
    /\ ApiCallable
    /\ t \in pool
    /\ pool' = pool \ {t}
    /\ UNCHANGED <<next_tid, state, finished, ended, current, on_cpu, self_woken>>

\* Mutant: clear starts numbering the threads from 1 again.
MutantClear ==
    /\ InMain
    /\ pool' = {}
    /\ next_tid' = 1
    /\ UNCHANGED <<state, finished, ended, current, on_cpu, self_woken>>

\* UThreadRuntime::clear; next_tid_ is kept.
Clear ==
    /\ InMain
    /\ pool' = {}
    /\ UNCHANGED <<next_tid, state, finished, ended, current, on_cpu, self_woken>>

\* The body of Scheduler::wakeThread: the state part of every caller.
WakeEffect(t) ==
    /\ state' = IF t \in pool
                THEN [state EXCEPT ![t] = AfterSetState(@, "READY")]
                ELSE state
    /\ self_woken' = IF t \in pool /\ state[t] = "RUNNING"
                     THEN self_woken \union {t} ELSE self_woken

\* Scheduler::wakeThread called by the main program or by a thread.
WakeThread(t) ==
    /\ ApiCallable
    /\ WakeEffect(t)
    /\ UNCHANGED <<next_tid, pool, finished, ended, current, on_cpu>>

\* handleBlock of the menu: a READY thread is taken through RUNNING to
\* BLOCKED; so is, in one call, a RUNNING thread that is not executing.
ForceBlock(t) ==
    /\ InMain
    /\ t \in pool
    /\ state' = [state EXCEPT ![t] =
                   IF SetStateOk(@, "BLOCKED") THEN "BLOCKED"
                   ELSE IF @ = "READY"
                        THEN AfterSetState(AfterSetState(@, "RUNNING"), "BLOCKED")
                        ELSE @]
    /\ UNCHANGED <<next_tid, pool, finished, ended, current, on_cpu, self_woken>>

-----------------------------------------------------------------------------
(* Context switches.                                                       *)

\* Mutant: the state of the thread is not looked at before it is dispatched.
MutantDispatch(t) ==
    /\ ~on_cpu
    /\ \/ current = NoThread /\ t \in pool
       \/ current = t
    /\ state' = [state EXCEPT ![t] = AfterSetState(@, "RUNNING")]
    /\ current' = t
    /\ on_cpu' = TRUE
    /\ UNCHANGED <<next_tid, pool, finished, ended, self_woken>>

\* Scheduler::dispatchThread up to the switch into the thread: either a new
\* step has selected a READY thread of the pool, or the round-robin slice
\* resumes the thread that just yielded.
Dispatch(t) ==
    /\ ~on_cpu
    /\ state[t] = "READY"
    /\ \/ current = NoThread /\ t \in pool
       \/ current = t
    /\ state' = [state EXCEPT ![t] = AfterSetState(@, "RUNNING")]
    /\ current' = t
    /\ on_cpu' = TRUE
    /\ UNCHANGED <<next_tid, pool, finished, ended, self_woken>>

\* Mutant: yield switches away without making the thread READY.
MutantYield ==
    /\ InThread
    /\ on_cpu' = FALSE
    /\ UNCHANGED <<next_tid, pool, state, finished, ended, current, self_woken>>

\* Scheduler::yield.
Yield ==
    /\ InThread
    /\ state' = [state EXCEPT ![current] = AfterSetState(@, "READY")]
    /\ on_cpu' = FALSE
    /\ UNCHANGED <<next_tid, pool, finished, ended, current, self_woken>>

\* Scheduler::blockCurrent.
Block ==
    /\ InThread
    /\ state' = [state EXCEPT ![current] = AfterSetState(@, "BLOCKED")]
    /\ on_cpu' = FALSE
    /\ UNCHANGED <<next_tid, pool, finished, ended, current, self_woken>>

\* Scheduler::exitCurrent and TCB::markFinished: the part that the call from
\* the body and the call from threadWrapper share.
ExitCurrent ==
    /\ state' = [state EXCEPT ![current] = AfterSetState(@, "FINISHED")]
    /\ finished' = [finished EXCEPT ![current] =
                      AfterMarkFinished(state[current], @)]
    /\ on_cpu' = FALSE
    /\ UNCHANGED <<next_tid, pool, current, self_woken>>

\* The body calls Scheduler::exitCurrent.
Exit ==
    /\ InThread
    /\ ExitCurrent
    /\ UNCHANGED ended

\* The entry function returns and threadWrapper calls exitCurrent.
Return ==
    /\ InThread
    /\ ExitCurrent
    /\ ended' = [ended EXCEPT ![current] = TRUE]

\* threadWrapper itself returns: exitCurrent had not finished the thread, it
\* was dispatched once more, and uc_link leads back to the main context.  The
\* state stays RUNNING.  (Resuming such a context yet again re-enters a frame
\* that is gone; returning once more is the outcome the model keeps.)
LinkReturn ==
    /\ on_cpu
    /\ ended[current]
    /\ on_cpu' = FALSE
    /\ UNCHANGED <<next_tid, pool, state, finished, ended, current, self_woken>>

\* Mutant: current_ is cleared while the thread is still executing.
MutantEndStep ==
    /\ current # NoThread
    /\ current' = NoThread
    /\ UNCHANGED <<next_tid, pool, state, finished, ended, on_cpu, self_woken>>

\* The end of Scheduler::step, after the switch back: current_ is cleared.
EndStep ==
    /\ current # NoThread
    /\ ~on_cpu
    /\ current' = NoThread
    /\ UNCHANGED <<next_tid, pool, state, finished, ended, on_cpu, self_woken>>

-----------------------------------------------------------------------------
CoopNext ==
    \/ CreateThread \/ Clear
    \/ \E t \in Tids : RemoveThread(t) \/ WakeThread(t) \/ ForceBlock(t) \/ Dispatch(t)
    \/ Yield \/ Block \/ Exit \/ Return \/ LinkReturn \/ EndStep

CoopSpec == CoopInit /\ [][CoopNext]_coop_vars

-----------------------------------------------------------------------------
(* Correctness.                                                            *)

CoopTypeOK ==
    /\ next_tid \in 1..(MaxThreads + 1)
    /\ pool \in SUBSET Tids
    /\ state \in [Tids -> ThreadState]
    /\ finished \in [Tids -> BOOLEAN]
    /\ ended \in [Tids -> BOOLEAN]
    /\ current \in Tids \union {NoThread}
    /\ on_cpu \in BOOLEAN
    /\ self_woken \in SUBSET Tids
    /\ on_cpu => current # NoThread

\* A thread whose entry function has returned without finishing it: it was
\* woken while it was running, so that exitCurrent could not mark it.
Zombie(t) == t \in self_woken /\ ended[t] /\ ~finished[t]

\* At most one thread is RUNNING, and it is the one on the CPU; the exception
\* is a thread that wakeThread hit while it ran and that then returned.
\* (setState in dispatchThread, yield, blockCurrent and exitCurrent)
OneRunning ==
    \A t \in Tids :
        state[t] = "RUNNING" => (on_cpu /\ current = t) \/ Zombie(t)

\* The thread on the CPU is RUNNING, unless it has been woken while running:
\* the READY that Scheduler::dispatchThread saw was not stale.
CpuIsRunning ==
    on_cpu => \/ state[current] = "RUNNING"
              \/ state[current] = "READY" /\ current \in self_woken

\* Both records of termination agree, and a thread whose entry function has
\* returned is FINISHED for both, unless it was woken while it was running
\* (TCB::markFinished ignores a refused transition).
EndedIsFinished ==
    /\ \A t \in Tids : finished[t] <=> state[t] = "FINISHED"
    /\ \A t \in Tids : ended[t] => finished[t] \/ t \in self_woken

\* A tid that createThread has not given out yet names no thread anywhere, and
\* none is given out twice: not even clear() resets next_tid_.
FreshTids ==
    /\ current < next_tid
    /\ \A t \in Tids :
          t >= next_tid => /\ t \notin pool /\ t \notin self_woken
                           /\ state[t] = "READY" /\ ~finished[t] /\ ~ended[t]

CoopSafety == OneRunning /\ CpuIsRunning /\ EndedIsFinished

\* A step keeps finished threads finished and does not dispatch one.
KeepsFinished ==
    \A t \in Tids :
        finished[t] => finished'[t] /\ ~(on_cpu' /\ current' = t /\ ~on_cpu)

\* FINISHED is final, and a finished thread never gets the CPU again: the
\* body of a thread runs at most once (Scheduler::selectNext, TCB::setState).
FinishedIsFinal == [][KeepsFinished]_coop_vars
=============================================================================
