----------------------------- MODULE MC_UThread -----------------------------
(***************************************************************************)
(* TLC instances of UThread, and the selection loops of the scheduler as   *)
(* the code writes them, to compare with the declarative Select operators. *)
(***************************************************************************)
EXTENDS UThread

\* runSchedDemo, the only caller, resets the clock when it has cleared the pool.
ResetWhenEmpty == threads = << >> /\ ResetLogicalClock

\* A main program that creates, removes, wakes and clears threads, chooses the
\* policy, resets the clock and runs the scheduler: small enough for three
\* threads.
RunNext ==
    \/ SchedulerStep
    \/ ThreadSwitch
    \/ ApiCall
    \/ ClearPool
    \/ \E p \in Policies : SetPolicy(p)
    \/ ResetWhenEmpty
    \/ StartLoop("run")

RunSpec == Init /\ [][RunNext]_vars
RunLiveSpec == RunSpec /\ Fairness

\* for (auto& t : threads) with "best" kept by a strict comparison.
BestLoop(Better(_, _)) ==
    FoldLeft(LAMBDA best, t :
                IF state[t] # "READY" THEN best
                ELSE IF best = NoThread \/ Better(t, best) THEN t ELSE best,
             NoThread, threads)

\* selectFIFO; selectPriority and selectSJF, whose key is the priority or the
\* burst time: the tid returned, or NoThread.
LoopFIFO == BestLoop(LAMBDA t, best : FALSE)
LoopLeast(key) ==
    BestLoop(LAMBDA t, best : \/ key[t] < key[best]
                              \/ key[t] = key[best] /\ t < best)

\* selectRR with rr_index_ = rr: the first READY entry at (rr + i) % size,
\* i = 0, 1, ...
LoopRR(rr) ==
    FoldLeft(LAMBDA found, i :
                LET t == threads[((rr + i) % Size) + 1]
                IN  IF found = NoThread /\ state[t] = "READY" THEN t ELSE found,
             NoThread, [i \in 1..Size |-> i - 1])

\* The positions that a Select operator admits hold the tid its loop returns.
Agrees(loop_tid, Select(_)) ==
    {threads[i] : i \in {j \in 1..Size : state[threads[j]] = "READY" /\ Select(j)}}
        = {loop_tid} \ {NoThread}

\* The Select operators of UThread for another cursor, and for other
\* priorities and burst times.
Cursor(rr) == INSTANCE UThread WITH rr_index <- rr
Keys(key) == INSTANCE UThread WITH priority <- key, burst <- key

\* Whenever the scheduler selects, each of its loops returns the one thread
\* its declarative form picks, and none iff no thread is READY: selectRR for
\* every cursor that clear() may have left, inside the vector or beyond it,
\* selectPriority and selectSJF for every order of the threads with ties.
SelectLoopsAgree ==
    pc = "main" /\ loop # "none" =>
        /\ Agrees(LoopFIFO, LAMBDA i : SelectFIFO(threads[i]))
        /\ \A rr \in 0..(2 * MaxThreads) :
              Agrees(LoopRR(rr), LAMBDA i : Cursor(rr)!SelectRR(i))
        /\ \A key \in [Pool -> 1..Size] :
              /\ Agrees(LoopLeast(key), LAMBDA i : Keys(key)!SelectPriority(threads[i]))
              /\ Agrees(LoopLeast(key), LAMBDA i : Keys(key)!SelectSJF(threads[i]))
=============================================================================
