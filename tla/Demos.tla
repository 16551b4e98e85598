------------------------------- MODULE Demos -------------------------------
(***************************************************************************)
(* The demonstrations of the menu program (test/test_main.cpp) as clients  *)
(* of Mutex, ConditionVariable, Semaphore and DeadlockDetector.  A user    *)
(* picks menu entries one after another; a demo resets what the one before *)
(* it left, creates its mutexes and threads and calls run().  A thread     *)
(* body is a script: the calls its function makes, in order.               *)
(*                                                                         *)
(*   session     the menu entries the user has still to pick               *)
(*   demo        the demo started last, "none" before the first            *)
(*   running     the main program is inside run()                          *)
(*   role, pos   a thread's function, and the place in its script of the   *)
(*               next call; a call that blocks is passed when it is made   *)
(*   sem_count, sem_queue, sem_waiting    the one semaphore of the demo    *)
(*   ready, demo_buffer, read_count   g_demo_ready, the length of          *)
(*               g_demo_buffer, and g_rw_read_count                        *)
(*                                                                         *)
(* Any policy may be in force: the demos choose one, but what is shown     *)
(* here does not depend on it.  runDeadlockDemo calls step() at most 30    *)
(* times instead of run(); its two threads stop long before.               *)
(***************************************************************************)
EXTENDS CondVar

CONSTANTS Sessions,          \* the sequences of menu entries to look at
          Seats              \* philosophers and forks (5 in the code)

ASSUME SeatsAssumption == Seats \in Nat \ {0, 1}

\* The three condition variables that the demos make.
ASSUME CondsAssumption == {"condition", "not_full", "not_empty"} \subseteq Conds

VARIABLES session, demo, running, role, pos,
          sem_count, sem_queue, sem_waiting, ready, demo_buffer, read_count

S == INSTANCE Semaphore WITH count <- sem_count, wait_queue <- sem_queue,
                             waiting <- sem_waiting, MaxCount <- 2

menu_vars == <<session, demo, running, role>>
demo_sem_vars == <<sem_count, sem_queue, sem_waiting>>
global_vars == <<ready, demo_buffer, read_count>>
demo_vars == <<all_vars, menu_vars, pos, demo_sem_vars, global_vars>>

-----------------------------------------------------------------------------
(* The thread functions.                                                   *)

Yielding == [op |-> "yield"]
Locking(m) == [op |-> "lock", m |-> m]
Unlocking(m) == [op |-> "unlock", m |-> m]
Does(op) == [op |-> op]

\* std::min and std::max of two numbers.
Lesser(a, b) == IF a < b THEN a ELSE b
Greater(a, b) == IF a < b THEN b ELSE a

\* philosopherThread: the number and the forks of thread t.
Number(t) == t - 1
LeftFork(t) == Number(t)
RightFork(t) == (Number(t) + 1) % Seats

\* Mutant: the left fork first.
MutantForkOrder(t) == <<LeftFork(t), RightFork(t)>>

\* The fork with the smaller number first.
ForkOrder(t) == <<Lesser(LeftFork(t), RightFork(t)), Greater(LeftFork(t), RightFork(t))>>

\* philosopherThread.
Philosopher(t) ==
    LET first == Head(ForkOrder(t))
        second == ForkOrder(t)[2]
    IN  <<Yielding, Locking(first), Yielding, Locking(second), Yielding,
          Unlocking(second), Unlocking(first)>>

\* deadlockThreadA and deadlockThreadB: mutex 0 is g_dl_mutex_a, 1 is
\* g_dl_mutex_b, made in this order, so that their ids compare like these
\* numbers.  g_dl_ordered is set by runDeadlockAvoidDemo only.
TwoLocks(a, b) ==
    LET swap == demo = "deadlock_avoid" /\ a > b
        first == IF swap THEN b ELSE a
        second == IF swap THEN a ELSE b
    IN  <<Locking(first), Yielding, Locking(second), Unlocking(second), Unlocking(first)>>

\* readerThread and writerThread, one turn of their loops.
ReaderTurn ==
    <<Locking(0), Does("count_up"), Unlocking(0), Yielding,
      Locking(0), Does("count_down"), Unlocking(0), Yielding>>
WriterTurn == <<Does("wait"), Yielding, Does("signal"), Yielding>>

\* producerDemoThread and consumerDemoThread, one turn of their loops.
ProducerTurn == <<Locking(0), Does("put"), Unlocking(0), Yielding>>
ConsumerTurn == <<Locking(0), Does("take"), Unlocking(0), Yielding>>

Script(t) ==
    CASE role[t] = "idle" -> << >>
      [] role[t] = "mutex" -> <<Locking(0), Yielding, Unlocking(0)>>
      [] role[t] = "semaphore" -> <<Does("wait"), Yielding, Does("signal")>>
      [] role[t] = "awaiter" -> <<Locking(0), Does("await"), Unlocking(0)>>
      [] role[t] = "announcer" -> <<Locking(0), Does("announce"), Unlocking(0)>>
      [] role[t] = "producer" -> ProducerTurn \o ProducerTurn
      [] role[t] = "consumer" -> ConsumerTurn \o ConsumerTurn
      [] role[t] = "deadlock_a" -> TwoLocks(0, 1)
      [] role[t] = "deadlock_b" -> TwoLocks(1, 0)
      [] role[t] = "reader" -> ReaderTurn \o ReaderTurn
      [] role[t] = "writer" -> WriterTurn \o WriterTurn
      [] role[t] = "philosopher" -> Philosopher(t)

\* The functions a demo of the synchronisation objects creates threads for.
SyncCast(d) ==
    CASE d = "mutex" -> <<"mutex", "mutex">>
      [] d = "semaphore" -> <<"semaphore", "semaphore", "semaphore">>
      [] d = "condition" -> <<"awaiter", "announcer">>
      [] d = "producer_consumer" -> <<"producer", "consumer">>
      [] d \in {"deadlock", "deadlock_avoid"} -> <<"deadlock_a", "deadlock_b">>

\* The same for all demos, in the order of the createThread calls.
Cast(d) ==
    CASE d = "readers_writers" -> <<"reader", "reader", "writer", "reader">>
      [] d = "philosophers" -> [i \in 1..Seats |-> "philosopher"]
      [] OTHER -> SyncCast(d)

\* The count its semaphore starts with.
Permits(d) == IF d = "semaphore" THEN 2 ELSE 1

-----------------------------------------------------------------------------
(* The main program.                                                       *)

DemosInit ==
    /\ CvInit
    /\ session \in Sessions
    /\ demo = "none" /\ running = FALSE
    /\ role = [t \in Tids |-> "idle"]
    /\ pos = [t \in Tids |-> 1]
    /\ sem_count = 0 /\ sem_queue = << >> /\ sem_waiting = {}
    /\ ready = FALSE /\ demo_buffer = 0 /\ read_count = 0

\* The user picks menu entry e.
Picks(e) ==
    /\ ~running
    /\ session # << >> /\ Head(session) = e
    /\ session' = Tail(session)

\* handleCreate: a thread with dummyFunc, which only prints.
HandleCreate ==
    /\ Picks("create")
    /\ CreateThread
    /\ UNCHANGED <<mutex_vars, cv_vars, demo, running, role, pos, demo_sem_vars,
                   global_vars>>

\* Menu entry 8.
HandleRun ==
    /\ Picks("run")
    /\ running' = TRUE
    /\ UNCHANGED <<all_vars, demo, role, pos, demo_sem_vars, global_vars>>

\* Mutant: the detector is not cleared between two demos.
MutantClearDetector == UNCHANGED graph_vars

\* DeadlockDetector::clear.
ClearDetector == wait_edges' = {} /\ hold_edges' = {} /\ reported' = FALSE

\* A demo: resetDemoState, new mutexes, condition variables and semaphore in
\* place of the old ones, one createThread per function, and run().
StartDemo(d) ==
    LET born == next_tid..(next_tid + Len(Cast(d)) - 1)
    IN  /\ Picks(d)
        /\ born \subseteq Tids
        /\ pool' = born /\ next_tid' = next_tid + Len(Cast(d))
        /\ state' = [t \in Tids |-> IF t \in born THEN "READY" ELSE state[t]]
        /\ role' = [t \in Tids |-> IF t \in born THEN Cast(d)[t - next_tid + 1] ELSE role[t]]
        /\ pos' = [t \in Tids |-> IF t \in born THEN 1 ELSE pos[t]]
        /\ UNCHANGED <<finished, ended, current, on_cpu, self_woken, meddled>>
        /\ ready' = FALSE /\ demo_buffer' = 0 /\ read_count' = 0
        /\ ClearDetector
        /\ locked' = [m \in Mutexes |-> FALSE]
        /\ owner' = [m \in Mutexes |-> NoThread]
        /\ wait_queue' = [m \in Mutexes |-> << >>]
        /\ waiting' = [t \in Tids |-> NoMutex]
        /\ held' = [t \in Tids |-> {}]
        /\ cv_queue' = [c \in Conds |-> << >>]
        /\ cv_mutex' = [t \in Tids |-> NoMutex]
        /\ cv_pc' = [t \in Tids |-> "out"]
        /\ sem_count' = Permits(d) /\ sem_queue' = << >> /\ sem_waiting' = {}
        /\ demo' = d /\ running' = TRUE

\* run() returns: selectNext finds no READY thread.
RunReturns ==
    /\ running /\ InMain
    /\ \A t \in pool : state[t] # "READY"
    /\ running' = FALSE
    /\ UNCHANGED <<all_vars, session, demo, role, pos, demo_sem_vars, global_vars>>

-----------------------------------------------------------------------------
(* The calls of the running thread.                                        *)

\* The next call of the running thread, which is in its own function.
AtCall(op) ==
    /\ CvBody
    /\ current \notin sem_waiting
    /\ pos[current] \in 1..Len(Script(current))
    /\ Script(current)[pos[current]].op = op

Passed == pos' = [pos EXCEPT ![current] = @ + 1]

\* The mutex of a lock or unlock.
CallMutex == Script(current)[pos[current]].m

DemoYield ==
    /\ AtCall("yield")
    /\ Passed
    /\ Yield
    /\ UNCHANGED <<mutex_vars, cv_vars, demo_sem_vars, global_vars>>

\* A fork beyond g_forks is no mutex: what its lock() does is undefined in
\* the code, and the model stops there.
DemoLock ==
    /\ AtCall("lock")
    /\ Passed
    /\ \E m \in Mutexes : m = CallMutex /\ (LockFree(m) \/ LockBusy(m))
    /\ UNCHANGED <<cv_vars, demo_sem_vars, global_vars>>

DemoUnlock ==
    /\ AtCall("unlock")
    /\ Passed
    /\ Unlock(CallMutex)
    /\ UNCHANGED <<cv_vars, demo_sem_vars, global_vars>>

DemoWait ==
    /\ AtCall("wait")
    /\ Passed
    /\ S!Wait
    /\ UNCHANGED <<mutex_vars, cv_vars, global_vars>>

DemoSignal ==
    /\ AtCall("signal")
    /\ Passed
    /\ S!Signal
    /\ UNCHANGED <<mutex_vars, cv_vars, global_vars>>

\* ++g_rw_read_count, and wait() by the first reader.
CountUp ==
    /\ AtCall("count_up")
    /\ Passed
    /\ read_count' = read_count + 1
    /\ IF read_count' = 1 THEN S!Wait ELSE UNCHANGED <<coop_vars, demo_sem_vars>>
    /\ UNCHANGED <<mutex_vars, cv_vars, ready, demo_buffer>>

\* Mutant: every reader that leaves lets the writers in.
MutantCountDown ==
    /\ AtCall("count_down")
    /\ Passed
    /\ read_count' = read_count - 1
    /\ S!Signal
    /\ UNCHANGED <<mutex_vars, cv_vars, ready, demo_buffer>>

\* --g_rw_read_count, and signal() by the last reader.
CountDown ==
    /\ AtCall("count_down")
    /\ Passed
    /\ read_count' = read_count - 1
    /\ IF read_count' = 0 THEN S!Signal ELSE UNCHANGED <<coop_vars, demo_sem_vars>>
    /\ UNCHANGED <<mutex_vars, cv_vars, ready, demo_buffer>>

-----------------------------------------------------------------------------
(* The loops on a condition.                                               *)

\* A turn of a loop whose condition does not hold: wait(), and look again.
WaitOn(c) ==
    /\ WaitRelease(c, 0)
    /\ UNCHANGED <<pos, demo_sem_vars, global_vars>>

\* The end of the loop with a signal to the other side.
PassedAndSignal(c) ==
    /\ Passed
    /\ Signal(c)
    /\ UNCHANGED demo_sem_vars

\* conditionWaitDemoThread.
Await ==
    /\ AtCall("await")
    /\ IF ready
       THEN Passed /\ UNCHANGED <<all_vars, demo_sem_vars, global_vars>>
       ELSE WaitOn("condition")

\* conditionSignalDemoThread.
Announce ==
    /\ AtCall("announce")
    /\ PassedAndSignal("condition")
    /\ ready' = TRUE
    /\ UNCHANGED <<demo_buffer, read_count>>

\* producerDemoThread.
Put ==
    /\ AtCall("put")
    /\ \/ demo_buffer > 0 /\ WaitOn("not_full")
       \/ /\ demo_buffer = 0
          /\ PassedAndSignal("not_empty")
          /\ demo_buffer' = demo_buffer + 1
          /\ UNCHANGED <<ready, read_count>>

\* consumerDemoThread.
TakeItem ==
    /\ AtCall("take")
    /\ \/ demo_buffer = 0 /\ WaitOn("not_empty")
       \/ /\ demo_buffer > 0
          /\ PassedAndSignal("not_full")
          /\ demo_buffer' = demo_buffer - 1
          /\ UNCHANGED <<ready, read_count>>

-----------------------------------------------------------------------------
(* Inside lock(), Semaphore::wait() and ConditionVariable::wait(), and the *)
(* scheduler.                                                              *)

DemoInside ==
    /\ \/ \E m \in Mutexes : LockResume(m) /\ UNCHANGED <<cv_vars, demo_sem_vars>>
       \/ (WaitBlock \/ WaitRelock) /\ UNCHANGED demo_sem_vars
       \/ S!WaitResume /\ UNCHANGED <<mutex_vars, cv_vars>>
    /\ UNCHANGED <<pos, global_vars>>

DemoReturn ==
    /\ CvBody
    /\ current \notin sem_waiting
    /\ pos[current] > Len(Script(current))
    /\ Return

DemoSched ==
    /\ running
    /\ (\E t \in Tids : Dispatch(t)) \/ EndStep \/ DemoReturn
    /\ UNCHANGED <<mutex_vars, cv_vars, pos, demo_sem_vars, global_vars>>

ThreadCall ==
    \/ DemoYield \/ DemoLock \/ DemoUnlock \/ DemoWait \/ DemoSignal
    \/ CountUp \/ CountDown \/ Await \/ Announce \/ Put \/ TakeItem \/ DemoInside

\* What goes on inside run().
RunStep ==
    \/ RunReturns
    \/ (DemoSched \/ ThreadCall) /\ UNCHANGED menu_vars

\* The demos the menu has.
DemoNames == {"mutex", "semaphore", "condition", "producer_consumer", "deadlock",
              "deadlock_avoid", "readers_writers", "philosophers"}

DemosNext ==
    \/ RunStep
    \/ HandleCreate \/ HandleRun
    \/ \E d \in DemoNames : StartDemo(d)

\* run() is one sequential loop: it goes on as long as it can.  Nothing is
\* assumed about the order in which it selects READY threads.
DemosSpec == DemosInit /\ [][DemosNext]_demo_vars /\ WF_demo_vars(RunStep)

-----------------------------------------------------------------------------
(* Correctness.                                                            *)

Done == \A t \in pool : state[t] = "FINISHED"

\* Every demo comes to its end: run() returns, and all its threads have
\* finished, whatever the policy, except in the demo that shows a deadlock.
\* The demos wait for mutexes, semaphores and conditions at once (a reader
\* waits for the semaphore while it holds the count mutex), so this rests on
\* the order in which philosophers and deadlockThreadA/B lock, and on every
\* waiter being signalled.
DemoEnds == running ~> (~running /\ (demo # "deadlock" => Done))

\* When run() has returned, the detector finds a deadlock exactly if some
\* thread of the demo is left unfinished (runDeadlockDemo prints its verdict
\* by detect()); no deadlock of an earlier demo is reported for a later one.
VerdictIsRight ==
    (~running /\ demo # "none" /\ \A t \in pool : state[t] # "READY")
        => (Detect(wait_edges, hold_edges) <=> ~Done)

\* Where a thread is in its turn of a script of n calls, 1..n.
InTurn(t, n) == ((pos[t] - 1) % n) + 1

\* t may read: it has counted itself and not left yet.
Reading(t) ==
    /\ t \in pool /\ role[t] = "reader" /\ t \notin sem_waiting
    /\ InTurn(t, Len(ReaderTurn)) \in 3..6

\* t may write: it has the semaphore.
Writing(t) ==
    /\ t \in pool /\ role[t] = "writer" /\ t \notin sem_waiting
    /\ InTurn(t, Len(WriterTurn)) \in 2..3

\* A writer writes alone, though it is not the reader that waited for the
\* semaphore that gives it back, and newcomers may overtake woken threads.
WriterAlone ==
    \A t \in Tids : Writing(t) => \A u \in Tids \ {t} : ~Reading(u) /\ ~Writing(u)

\* A philosopher has a number from 0 on below the number of seats ("0..4"
\* in the comment of philosopherThread).
PhilosopherNumbers ==
    \A t \in pool : role[t] = "philosopher" => Number(t) \in 0..(Seats - 1)
=============================================================================
