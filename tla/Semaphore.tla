----------------------------- MODULE Semaphore -----------------------------
(***************************************************************************)
(* Semaphore (src/semaphore.cpp) on top of cooperative threads whose       *)
(* bodies are any sequence of wait, signal and yield.  The main program    *)
(* may signal as well; a wait() by it returns at once and changes nothing. *)
(*                                                                         *)
(*   count, wait_queue   Semaphore::count_ and wait_queue_                 *)
(*   waiting    the threads suspended in blockCurrent inside wait()        *)
(*   meddled    number of wakes, blocks and removals from outside, by the  *)
(*              menu of the main program, at most MaxMeddling              *)
(***************************************************************************)
EXTENDS CoopSched, Sequences, FiniteSets

CONSTANTS MaxCount,          \* bound on count_
          MaxMeddling        \* bound on calls from the menu

ASSUME SemaphoreAssumption ==
    MaxCount \in Nat /\ MaxMeddling \in Nat

VARIABLES count, wait_queue, waiting, meddled

sem_vars == <<count, wait_queue, waiting, meddled>>
vars == <<coop_vars, sem_vars>>

\* Semaphore::Semaphore: a negative count is taken for 0.
ClampCount(initial_count) == IF initial_count < 0 THEN 0 ELSE initial_count

Init ==
    /\ CoopInit
    /\ \E c \in -1..MaxCount : count = ClampCount(c)
    /\ wait_queue = << >>
    /\ waiting = {}
    /\ meddled = 0

\* The running thread executes its body, outside wait().
InBody == InThread /\ current \notin waiting

-----------------------------------------------------------------------------
(* Semaphore::wait.                                                        *)

\* --count_ after the loop; only the thread that runs leaves wait().
Acquire ==
    /\ count' = count - 1
    /\ waiting' = waiting \ {current}
    /\ UNCHANGED <<wait_queue, meddled, coop_vars>>

\* One turn of the loop: queue up and block.
WaitTurn ==
    /\ wait_queue' = Append(wait_queue, current)
    /\ Block
    /\ waiting' = waiting \union {current}
    /\ UNCHANGED <<count, meddled>>

\* A thread calls wait().
Wait ==
    /\ InBody
    /\ IF count = 0 THEN WaitTurn ELSE Acquire

\* Mutant: a woken waiter takes a permit without testing count_ again.
MutantWaitResume ==
    /\ InThread
    /\ current \in waiting
    /\ Acquire

\* A thread comes back from blockCurrent inside wait() and tests count_
\* again: another thread may have taken the permit in between.
WaitResume ==
    /\ InThread
    /\ current \in waiting
    /\ IF count = 0 THEN WaitTurn ELSE Acquire

-----------------------------------------------------------------------------
(* Semaphore::signal.                                                      *)

\* Mutant: a waiter is woken only by the signal that finds no permit.
MutantWakeFirst ==
    IF wait_queue = << >> \/ count > 0
    THEN UNCHANGED <<wait_queue, state, self_woken>>
    ELSE wait_queue' = Tail(wait_queue) /\ WakeEffect(Head(wait_queue))

\* Mutant: the first waiter is woken and left in the queue.
MutantWakeFirstPeek ==
    IF wait_queue = << >>
    THEN UNCHANGED <<wait_queue, state, self_woken>>
    ELSE UNCHANGED wait_queue /\ WakeEffect(Head(wait_queue))

\* Mutant: the first waiter is dropped and not woken.
MutantWakeFirstDrop ==
    /\ wait_queue' = IF wait_queue = << >> THEN wait_queue ELSE Tail(wait_queue)
    /\ UNCHANGED <<state, self_woken>>

\* front and pop of the queue, then wakeThread.
WakeFirst ==
    IF wait_queue = << >>
    THEN UNCHANGED <<wait_queue, state, self_woken>>
    ELSE wait_queue' = Tail(wait_queue) /\ WakeEffect(Head(wait_queue))

\* Semaphore::signal, by a thread or by the main program.
Signal ==
    /\ InMain \/ InBody
    /\ count < MaxCount
    /\ count' = count + 1
    /\ WakeFirst
    /\ UNCHANGED <<waiting, meddled>>
    /\ UNCHANGED <<next_tid, pool, finished, ended, current, on_cpu>>

-----------------------------------------------------------------------------
(* The menu of the main program: handleWake, handleRemove, handleBlock.    *)

Meddle(t) ==
    /\ InMain
    /\ meddled < MaxMeddling
    /\ t \in pool
    /\ WakeThread(t) \/ RemoveThread(t) \/ ForceBlock(t)
    /\ meddled' = meddled + 1
    /\ UNCHANGED <<count, wait_queue, waiting>>

-----------------------------------------------------------------------------
\* The scheduler hands the CPU to t.
Run(t) == Dispatch(t) /\ UNCHANGED sem_vars

\* The slice of the running thread is over.
EndSlice == EndStep /\ UNCHANGED sem_vars

\* The running thread goes on inside wait(), or leaves the CPU by itself.
Continue ==
    \/ WaitResume
    \/ InBody /\ (Yield \/ Return) /\ UNCHANGED sem_vars
    \/ LinkReturn /\ UNCHANGED sem_vars

Next ==
    \/ InMain /\ CreateThread /\ UNCHANGED sem_vars
    \/ \E t \in Tids : Run(t) \/ Meddle(t)
    \/ Wait \/ Signal \/ Continue \/ EndSlice

Spec == Init /\ [][Next]_vars

\* The main program keeps calling run, whose scheduler starves no READY
\* thread of a program with finitely many threads (round robin,
\* UThread!RRNoStarvation), and a thread body reaches its next switch point
\* after finitely many calls of wait and signal.  A slice is resumed fewer
\* than quantum_ times.
Fairness ==
    /\ WF_vars(Continue)
    /\ SF_vars(EndSlice)
    /\ \A t \in Tids : SF_vars(Run(t))

LiveSpec == Spec /\ Fairness

-----------------------------------------------------------------------------
(* Correctness.                                                            *)

\* count_ is never negative: that is what the re-test in the loop of wait()
\* is for, when a permit is taken before the woken thread gets the CPU.
SemTypeOK ==
    /\ CoopTypeOK
    /\ count \in Nat
    /\ wait_queue \in Seq(Tids)
    /\ waiting \in SUBSET Tids
    /\ meddled \in Nat

\* The threads in wait() that are still there to be woken and to run.
InWait == waiting \intersect pool

\* Those that sleep in the queue, and those woken that have not tested count_.
Asleep == {t \in InWait : state[t] = "BLOCKED" /\ \E i \in 1..Len(wait_queue) : wait_queue[i] = t}
Woken == {t \in InWait : state[t] # "BLOCKED"}

\* No permit is stranded: while threads sleep in the queue, every permit of
\* count_ has a woken thread on its way to take it.  One wake per signal is
\* enough, whatever the order in which signals, newcomers that take a permit
\* first and woken threads that queue up again follow each other.  A thread
\* that the menu wakes, blocks or removes leaves a queue entry or a wakeup
\* that is spent on nobody: each such call strands at most one permit
\* (Semaphore::wait, signal).
NoStrandedPermit ==
    Asleep # {} => Cardinality(Woken) + meddled >= count

\* As long as nobody wakes, blocks or removes threads from outside, the queue
\* holds exactly the threads that sleep in wait(), once each, so no signal is
\* spent on a thread that is awake.
QueueIsBlocked ==
    meddled = 0 =>
        /\ \A i, j \in 1..Len(wait_queue) : wait_queue[i] = wait_queue[j] => i = j
        /\ \A t \in Tids :
              (\E i \in 1..Len(wait_queue) : wait_queue[i] = t)
                  <=> (t \in waiting /\ state[t] = "BLOCKED")

\* A permit that is there while threads wait gets taken: the two do not stay
\* side by side for ever, unless the menu interferes.
PermitTaken ==
    (meddled = 0 /\ count > 0 /\ waiting # {})
        ~> (meddled > 0 \/ count = 0 \/ waiting = {})
=============================================================================
