-------------------------- MODULE SemaphoreProofs --------------------------
(***************************************************************************)
(* Proofs about Semaphore, for any number of threads, permits and calls    *)
(* from the menu.                                                          *)
(***************************************************************************)
EXTENDS Semaphore, CoopSchedProofs

\* The thread that step() has selected stays in the pool: only the main
\* program removes threads.
RunsInPool == current # NoThread => current \in pool

SemInv == SemTypeOK /\ CoopInv /\ RunsInPool

\* Every step of the semaphore is a step of the cooperative threads.
LEMMA SemNextIsCoop == SemTypeOK /\ [Next]_vars => [CoopNext]_coop_vars
<1> SUFFICES ASSUME SemTypeOK, [Next]_vars PROVE [CoopNext]_coop_vars
  OBVIOUS
<1>1. CASE InMain /\ CreateThread
  BY <1>1 DEF CoopNext
<1>2. ASSUME NEW t \in Tids, Run(t) PROVE [CoopNext]_coop_vars
  BY <1>2 DEF Run, CoopNext
<1>3. ASSUME NEW t \in Tids, Meddle(t) PROVE [CoopNext]_coop_vars
  BY <1>3 DEF Meddle, CoopNext
<1>4. CASE Wait \/ WaitResume
  BY <1>4 DEF Wait, WaitResume, WaitTurn, Acquire, CoopNext
<1>5. CASE Signal
  <2>1. CASE wait_queue = << >>
    BY <1>5, <2>1 DEF Signal, WakeFirst, coop_vars
  <2>2. CASE wait_queue # << >>
    <3>1. Head(wait_queue) \in Tids
      BY <2>2 DEF SemTypeOK
    <3>2. WakeThread(Head(wait_queue))
      BY <1>5, <2>2 DEF Signal, WakeFirst, WakeThread, InBody, ApiCallable
    <3>3. QED
      BY <3>1, <3>2 DEF CoopNext
  <2>3. QED
    BY <2>1, <2>2
<1>6. CASE \/ InBody /\ (Yield \/ Return)
           \/ LinkReturn
           \/ EndSlice
  BY <1>6 DEF EndSlice, CoopNext
<1>7. CASE UNCHANGED vars
  BY <1>7 DEF vars
<1>8. QED
  BY <1>1, <1>2, <1>3, <1>4, <1>5, <1>6, <1>7 DEF Next, Continue

\* A fresh semaphore has a count of zero or more and nobody waits.
LEMMA InitSemInv == Init => SemInv
<1> SUFFICES ASSUME Init PROVE SemInv
  OBVIOUS
<1>1. CoopInv
  BY CoopInitInv DEF Init
<1>2. count \in Nat
  BY SemaphoreAssumption DEF Init, ClampCount
<1>3. SemTypeOK
  BY <1>1, <1>2 DEF Init, SemTypeOK, CoopInv
<1>4. RunsInPool
  BY DEF Init, CoopInit, RunsInPool
<1>5. QED
  BY <1>1, <1>3, <1>4 DEF SemInv

\* wait() subtracts only from a count that it has just found positive, so the
\* count stays a natural number.
LEMMA NextSemInv == SemInv /\ [Next]_vars => SemInv'
<1> SUFFICES ASSUME SemInv, [Next]_vars PROVE SemInv'
  OBVIOUS
<1>1. CoopInv'
  BY SemNextIsCoop, CoopNextInv DEF SemInv
<1>2. CoopTypeOK'
  BY <1>1 DEF CoopInv
<1>3. on_cpu => current \in Tids
  BY DEF SemInv, CoopInv, CoopTypeOK
<1> USE DEF SemInv, SemTypeOK, RunsInPool
<1>4. CASE InMain /\ CreateThread /\ UNCHANGED sem_vars
  BY <1>1, <1>2, <1>4 DEF CreateThread, sem_vars
<1>5. ASSUME NEW t \in Tids, Run(t) PROVE SemInv'
  BY <1>1, <1>2, <1>5 DEF Run, Dispatch, sem_vars
<1>6. ASSUME NEW t \in Tids, Meddle(t) PROVE SemInv'
  <2>1. current' = NoThread
    BY <1>6 DEF Meddle, InMain, WakeThread, RemoveThread, ForceBlock
  <2>2. QED
    BY <1>1, <1>2, <1>6, <2>1 DEF Meddle
<1>7. ASSUME InThread, WaitTurn PROVE SemInv'
  <2>1. Append(wait_queue, current) \in Seq(Tids) /\ current \in Tids
    BY <1>3, <1>7 DEF InThread
  <2>2. QED
    BY <1>1, <1>2, <1>7, <2>1 DEF WaitTurn, Block
<1>8. ASSUME InThread, Acquire, count # 0 PROVE SemInv'
  BY <1>1, <1>2, <1>8 DEF Acquire, coop_vars
<1>9. CASE Wait \/ WaitResume
  BY <1>7, <1>8, <1>9 DEF Wait, WaitResume, InBody
<1>10. CASE Signal
  <2>1. wait_queue' \in Seq(Tids)
    BY <1>10 DEF Signal, WakeFirst
  <2>2. QED
    BY <1>1, <1>2, <1>10, <2>1 DEF Signal
<1>11. CASE \/ InBody /\ (Yield \/ Return) /\ UNCHANGED sem_vars
            \/ LinkReturn /\ UNCHANGED sem_vars
            \/ EndSlice
  <2>1. pool' = pool /\ UNCHANGED sem_vars /\ current' \in {current, NoThread}
    BY <1>11 DEF Yield, Return, ExitCurrent, LinkReturn, EndSlice, EndStep
  <2>2. QED
    BY <1>1, <1>2, <2>1 DEF sem_vars
<1>12. CASE UNCHANGED vars
  BY <1>1, <1>2, <1>12 DEF vars, coop_vars, sem_vars
<1>13. QED
  BY <1>4, <1>5, <1>6, <1>9, <1>10, <1>11, <1>12 DEF Next, Continue

\* The types of the semaphore and the agreement with the scheduler.
THEOREM SemInvariant == Spec => []SemInv
BY InitSemInv, NextSemInv, PTL DEF Spec

\* count_ is never negative, whoever takes the permit first when a signal has
\* woken a waiter: the loop of Semaphore::wait tests the count again.
THEOREM SemaphoreTypeCorrect == Spec => []SemTypeOK
BY SemInvariant, PTL DEF SemInv

-----------------------------------------------------------------------------
(* Permits.  NoStrandedPermit is not inductive: a queue entry that is not   *)
(* the place of a sleeping thread swallows the wakeup of a later signal.    *)
(* The invariant counts these entries: each was left behind by a call from  *)
(* the menu, or by a thread that such an entry made a signal wake while it  *)
(* was running and that could not block afterwards.                         *)

\* The running thread has been woken; blockCurrent will not make it BLOCKED.
SelfReady == on_cpu /\ state[current] = "READY"

\* The entries of the queue beyond one for each sleeping thread.
StaleBound ==
    /\ Len(wait_queue) <= Cardinality(Asleep) + meddled
    /\ SelfReady => Len(wait_queue) + 1 <= Cardinality(Asleep) + meddled

\* With a queue, every permit has a woken thread, or is made up for by a call
\* from the menu that has not left a stale entry.
PermitBound ==
    wait_queue # << >> =>
        count + Len(wait_queue) <= Cardinality(Woken) + Cardinality(Asleep) + meddled

PermitInv == SemInv /\ StaleBound /\ PermitBound

\* The two counts are natural numbers, before and after a step.
LEMMA Counts ==
    ASSUME SemInv
    PROVE  /\ Asleep \in SUBSET Tids /\ Woken \in SUBSET Tids /\ Asleep \intersect Woken = {}
           /\ Cardinality(Asleep) \in Nat /\ Cardinality(Woken) \in Nat
           /\ Len(wait_queue) \in Nat /\ count \in Nat /\ meddled \in Nat
<1>1. Asleep \in SUBSET Tids /\ Woken \in SUBSET Tids /\ Asleep \intersect Woken = {}
  BY DEF SemInv, SemTypeOK, Asleep, Woken, InWait
<1>2. Cardinality(Asleep) \in Nat /\ Cardinality(Woken) \in Nat
  BY <1>1, TidSets
<1>3. QED
  BY <1>1, <1>2 DEF SemInv, SemTypeOK

\* At first nobody waits.
LEMMA InitPermitInv == Init => PermitInv
<1> SUFFICES ASSUME Init PROVE PermitInv
  OBVIOUS
<1>1. SemInv
  BY InitSemInv
<1>2. wait_queue = << >> /\ Len(wait_queue) = 0 /\ ~SelfReady
  BY DEF Init, CoopInit, SelfReady
<1>3. StaleBound /\ PermitBound
  BY <1>1, <1>2, Counts DEF StaleBound, PermitBound
<1>4. QED
  BY <1>1, <1>3 DEF PermitInv

\* Scheduling steps put nobody to sleep and wake nobody.
LEMMA SchedKeeps ==
    ASSUME SemInv, SemInv',
           \/ InMain /\ CreateThread /\ UNCHANGED sem_vars
           \/ \E t \in Tids : Run(t)
           \/ InBody /\ (Yield \/ Return) /\ UNCHANGED sem_vars
           \/ LinkReturn /\ UNCHANGED sem_vars
           \/ EndSlice
    PROVE  UNCHANGED sem_vars /\ Asleep' = Asleep /\ Woken \subseteq Woken' /\ ~SelfReady'
<1> USE DEF SemInv, SemTypeOK, CoopTypeOK, Asleep, Woken, InWait, SelfReady, sem_vars
<1>1. CASE InMain /\ CreateThread /\ UNCHANGED sem_vars
  <2>1. /\ next_tid \in Tids /\ next_tid \notin pool
        /\ pool' = pool \union {next_tid} /\ state' = [state EXCEPT ![next_tid] = "READY"]
        /\ ~on_cpu'
    BY <1>1, MaxThreadsAssumption DEF CreateThread, InMain, CoopInv, FreshTids, Tids
  <2>2. \A t \in Tids : t # next_tid => state'[t] = state[t]
    BY <2>1
  <2>3. state'[next_tid] = "READY"
    BY <2>1
  <2>4. QED
    BY <1>1, <2>1, <2>2, <2>3
<1>2. ASSUME NEW t \in Tids, Run(t)
      PROVE  UNCHANGED sem_vars /\ Asleep' = Asleep /\ Woken \subseteq Woken' /\ ~SelfReady'
  <2>1. /\ state[t] = "READY" /\ state' = [state EXCEPT ![t] = "RUNNING"]
        /\ current' = t /\ pool' = pool /\ UNCHANGED sem_vars
    BY <1>2, SetStateTable DEF Run, Dispatch
  <2>2. \A u \in Tids : state'[u] = IF u = t THEN "RUNNING" ELSE state[u]
    BY <2>1
  <2>3. QED
    BY <2>1, <2>2
<1>3. CASE InBody /\ (Yield \/ Return) /\ UNCHANGED sem_vars
  <2>1. /\ current \in Tids /\ current \notin waiting /\ ~on_cpu' /\ pool' = pool
        /\ \A t \in Tids : t # current => state'[t] = state[t]
    BY <1>3 DEF InBody, InThread, Yield, Return, ExitCurrent
  <2>2. QED
    BY <1>3, <2>1
<1>4. CASE (LinkReturn /\ UNCHANGED sem_vars) \/ EndSlice
  BY <1>4 DEF LinkReturn, EndSlice, EndStep
<1>5. QED
  BY <1>1, <1>2, <1>3, <1>4

\* A thread that finds no permit queues up; it sleeps, unless it has been woken
\* while it ran.
LEMMA WaitTurnPermits ==
    ASSUME PermitInv, SemInv', InThread, count = 0, WaitTurn
    PROVE  PermitInv'
<1>1. /\ SemInv /\ StaleBound /\ on_cpu /\ current \in Tids /\ current \in pool
      /\ state \in [Tids -> ThreadState] /\ wait_queue \in Seq(Tids)
  BY DEF PermitInv, SemInv, SemTypeOK, RunsInPool, CoopTypeOK, InThread
<1>2. state[current] = "RUNNING" \/ SelfReady
  BY <1>1 DEF SemInv, CoopInv, CoopSafety, CpuIsRunning, SelfReady
<1>3. /\ wait_queue' = Append(wait_queue, current) /\ Len(wait_queue') = Len(wait_queue) + 1
      /\ waiting' = waiting \union {current} /\ UNCHANGED <<count, meddled, pool>>
      /\ ~SelfReady' /\ state' = [state EXCEPT ![current] = AfterSetState(@, "BLOCKED")]
  BY <1>1 DEF WaitTurn, Block, SelfReady
<1>4. /\ \A t \in Tids : InQueue(wait_queue, t) => InQueue(wait_queue', t)
      /\ InQueue(wait_queue', current)
  <2>1. /\ Len(wait_queue) \in Nat
        /\ \A i \in 1..Len(wait_queue) : i \in 1..Len(wait_queue') /\ wait_queue'[i] = wait_queue[i]
        /\ Len(wait_queue) + 1 \in 1..Len(wait_queue')
        /\ wait_queue'[Len(wait_queue) + 1] = current
    BY <1>1, <1>3
  <2>2. QED
    BY <2>1 DEF InQueue
<1>5. Asleep' \in SUBSET Tids /\ Asleep \in SUBSET Tids
  BY <1>1, Counts DEF SemInv, SemTypeOK, Asleep, InWait
<1>6. Cardinality(Asleep) \in Nat /\ Cardinality(Asleep') \in Nat /\ Cardinality(Woken') \in Nat
  <2>1. Woken' \in SUBSET Tids
    BY DEF SemInv, SemTypeOK, Woken, InWait
  <2>2. QED
    BY <1>5, <2>1, TidSets
<1>7. Len(wait_queue) + 1 <= Cardinality(Asleep') + meddled
  <2>1. CASE state[current] = "RUNNING"
    <3>1. state' = [state EXCEPT ![current] = "BLOCKED"]
      BY <1>1, <1>3, <2>1, SetStateTable
    <3>2. Asleep \union {current} \subseteq Asleep' /\ current \notin Asleep
      BY <1>1, <1>3, <1>4, <2>1, <3>1 DEF Asleep, InWait, InQueue, SemInv, SemTypeOK
    <3>3. Cardinality(Asleep) + 1 <= Cardinality(Asleep')
      <4>1. Cardinality(Asleep \union {current}) = Cardinality(Asleep) + 1
        BY <1>1, <1>5, <3>2, TidSets
      <4>2. Cardinality(Asleep \union {current}) <= Cardinality(Asleep')
        BY <1>5, <3>2, TidSets
      <4>3. QED
        BY <4>1, <4>2
    <3>4. QED
      BY <1>1, <1>6, <3>3, Counts DEF StaleBound
  <2>2. CASE SelfReady
    <3>1. state' = state
      BY <1>1, <1>3, <2>2, SetStateTable DEF SelfReady
    <3>2. Asleep \subseteq Asleep'
      BY <1>1, <1>3, <1>4, <3>1 DEF Asleep, InWait, InQueue
    <3>3. Cardinality(Asleep) <= Cardinality(Asleep')
      BY <1>5, <3>2, TidSets
    <3>4. QED
      BY <1>1, <1>6, <2>2, <3>3, Counts DEF StaleBound
  <2>3. QED
    BY <1>2, <2>1, <2>2
<1>8. StaleBound'
  BY <1>3, <1>7 DEF StaleBound
<1>9. PermitBound'
  BY <1>1, <1>3, <1>6, <1>7, Counts DEF PermitBound
<1>10. QED
  BY <1>8, <1>9 DEF PermitInv

\* A thread takes a permit: one permit and at most one woken thread less.
LEMMA AcquirePermits ==
    ASSUME PermitInv, SemInv', InThread, count # 0, Acquire
    PROVE  PermitInv'
<1>1. /\ SemInv /\ StaleBound /\ PermitBound /\ current \in Tids
      /\ count' = count - 1 /\ waiting' = waiting \ {current}
      /\ UNCHANGED <<wait_queue, meddled, state, pool, on_cpu, current>>
  BY DEF PermitInv, SemInv, SemTypeOK, CoopTypeOK, InThread, Acquire, coop_vars
<1>2. state[current] # "BLOCKED"
  BY <1>1 DEF SemInv, CoopInv, CoopSafety, CpuIsRunning, InThread
<1>3. Asleep' = Asleep /\ Woken \ {current} \subseteq Woken' /\ (SelfReady' <=> SelfReady)
  BY <1>1, <1>2 DEF Asleep, Woken, InWait, SelfReady
<1>4. Woken' \in SUBSET Tids /\ Woken \in SUBSET Tids
  BY <1>1 DEF SemInv, SemTypeOK, Woken, InWait
<1>5. Cardinality(Woken) - 1 <= Cardinality(Woken') /\ Cardinality(Woken') \in Nat
  BY <1>3, <1>4, LosesOne, TidSets
<1>6. StaleBound'
  BY <1>1, <1>3 DEF StaleBound
<1>7. PermitBound'
  BY <1>1, <1>3, <1>5, Counts DEF PermitBound
<1>8. QED
  BY <1>6, <1>7 DEF PermitInv

\* signal() adds a permit and takes an entry from the queue: a sleeping thread
\* becomes a woken one, or the entry was one too many.
LEMMA SignalPermits ==
    ASSUME PermitInv, SemInv', Signal
    PROVE  PermitInv'
<1>1. /\ SemInv /\ StaleBound /\ PermitBound
      /\ count' = count + 1 /\ UNCHANGED <<waiting, meddled, pool, on_cpu, current>>
      /\ state \in [Tids -> ThreadState] /\ wait_queue \in Seq(Tids)
  BY DEF PermitInv, SemInv, SemTypeOK, CoopTypeOK, Signal
<1>2. /\ Cardinality(Asleep) \in Nat /\ Cardinality(Woken) \in Nat
      /\ Len(wait_queue) \in Nat /\ count \in Nat /\ meddled \in Nat
  BY <1>1, Counts
<1>3. CASE wait_queue = << >>
  <2>1. UNCHANGED <<wait_queue, state>>
    BY <1>3 DEF Signal, WakeFirst
  <2>2. Asleep' = Asleep /\ (SelfReady' <=> SelfReady)
    BY <1>1, <2>1 DEF Asleep, InWait, SelfReady
  <2>3. QED
    BY <1>1, <1>3, <2>1, <2>2 DEF PermitInv, StaleBound, PermitBound
<1>4. CASE wait_queue # << >>
  <2> DEFINE h == Head(wait_queue)
  <2>1. /\ wait_queue' = Tail(wait_queue) /\ WakeEffect(h) /\ h \in Tids
        /\ Len(wait_queue') = Len(wait_queue) - 1
        /\ InQueue(wait_queue, h)
        /\ \A t \in Tids : InQueue(wait_queue', t) => InQueue(wait_queue, t)
        /\ \A t \in Tids : t # h /\ InQueue(wait_queue, t) => InQueue(wait_queue', t)
    <3>1. wait_queue' = Tail(wait_queue) /\ WakeEffect(h) /\ h \in Tids
      BY <1>1, <1>4 DEF Signal, WakeFirst
    <3>2. /\ Len(wait_queue) \in Nat \ {0} /\ Len(wait_queue') = Len(wait_queue) - 1
          /\ h = wait_queue[1]
          /\ \A i \in 1..Len(wait_queue') : wait_queue'[i] = wait_queue[i + 1]
      BY <1>1, <1>4, <3>1
    <3>3. InQueue(wait_queue, h)
      BY <3>2 DEF InQueue
    <3>4. \A t \in Tids : InQueue(wait_queue', t) => InQueue(wait_queue, t)
      <4>1. \A i \in 1..Len(wait_queue') : i + 1 \in 1..Len(wait_queue)
        BY <3>2
      <4>2. QED
        BY <3>2, <4>1 DEF InQueue
    <3>5. ASSUME NEW t \in Tids, t # h, InQueue(wait_queue, t) PROVE InQueue(wait_queue', t)
      <4>1. PICK i \in 1..Len(wait_queue) : wait_queue[i] = t
        BY <3>5 DEF InQueue
      <4>2. i - 1 \in 1..Len(wait_queue') /\ i - 1 + 1 = i
        BY <3>2, <3>5, <4>1
      <4>3. wait_queue'[i - 1] = t
        BY <3>2, <4>1, <4>2
      <4>4. QED
        BY <4>2, <4>3 DEF InQueue
    <3>6. QED
      BY <3>1, <3>2, <3>3, <3>4, <3>5
  <2> HIDE DEF h
  <2>2. /\ \A t \in Tids : t # h => state'[t] = state[t]
        /\ state'[h] = IF h \in pool /\ state[h] \in {"RUNNING", "BLOCKED"}
                       THEN "READY" ELSE state[h]
    BY <1>1, <2>1, SetStateTable DEF WakeEffect
  <2>3. waiting \in SUBSET Tids /\ pool \in SUBSET Tids
    BY <1>1 DEF SemInv, SemTypeOK, CoopTypeOK
  <2>4. Asleep' = Asleep \ {h}
    BY <1>1, <2>1, <2>2, <2>3 DEF Asleep, InWait, InQueue
  <2>5. Len(wait_queue') = Len(wait_queue) - 1
    BY <2>1
  <2>6. CASE h \in Asleep
    <3>1. state[h] = "BLOCKED" /\ h \in pool /\ h \in waiting
      BY <2>6 DEF Asleep, InWait
    <3>2. Woken' = Woken \union {h} /\ h \notin Woken /\ (SelfReady' => SelfReady)
      <4>1. state'[h] = "READY"
        BY <2>2, <3>1
      <4>2. Woken' = Woken \union {h} /\ h \notin Woken
        BY <1>1, <2>2, <2>3, <3>1, <4>1 DEF Woken, InWait
      <4>3. on_cpu => current # h /\ current \in Tids
        BY <1>1, <3>1 DEF SemInv, SemTypeOK, CoopTypeOK, CoopInv, CoopSafety, CpuIsRunning
      <4>4. SelfReady' => SelfReady
        BY <1>1, <2>2, <4>3 DEF SelfReady
      <4>5. QED
        BY <4>2, <4>4
    <3>3. /\ Cardinality(Asleep') = Cardinality(Asleep) - 1
          /\ Cardinality(Woken') = Cardinality(Woken) + 1
      BY <1>1, <2>1, <2>4, <2>6, <3>2, Counts, TidSets
    <3>4. StaleBound'
      BY <1>1, <1>2, <2>5, <3>2, <3>3 DEF StaleBound
    <3>5. PermitBound'
      BY <1>1, <1>4, <2>1, <3>3, Counts DEF PermitBound
    <3>6. QED
      BY <3>4, <3>5 DEF PermitInv
  <2>7. CASE h \notin Asleep
    <3>1. Asleep' = Asleep
      BY <2>4, <2>7
    <3>2. Woken' = Woken
      <4>1. h \in waiting /\ h \in pool => state[h] # "BLOCKED" /\ state'[h] # "BLOCKED"
        BY <2>1, <2>2, <2>7 DEF Asleep, InWait, InQueue
      <4>2. QED
        BY <1>1, <2>2, <2>3, <4>1 DEF Woken, InWait
    <3>3. StaleBound'
      BY <1>1, <1>2, <2>5, <3>1 DEF StaleBound
    <3>4. PermitBound'
      BY <1>1, <1>4, <2>1, <3>1, <3>2, Counts DEF PermitBound
    <3>5. QED
      BY <3>3, <3>4 DEF PermitInv
  <2>8. QED
    BY <2>6, <2>7
<1>5. QED
  BY <1>3, <1>4

\* A call from the menu moves at most one thread out of the two sets.
LEMMA MeddlePermits ==
    ASSUME PermitInv, SemInv', NEW t \in Tids, Meddle(t)
    PROVE  PermitInv'
<1>1. /\ SemInv /\ StaleBound /\ PermitBound
      /\ UNCHANGED <<count, wait_queue, waiting>> /\ meddled' = meddled + 1
      /\ state \in [Tids -> ThreadState]
      /\ waiting \in SUBSET Tids /\ pool \in SUBSET Tids
  BY DEF PermitInv, SemInv, SemTypeOK, CoopTypeOK, Meddle
<1>2. ~SelfReady'
  <2>1. current' = NoThread
    BY DEF Meddle, InMain, WakeThread, RemoveThread, ForceBlock
  <2>2. QED
    BY <2>1 DEF SemInv, SemTypeOK, CoopTypeOK, SelfReady
<1>3. pool \ {t} \subseteq pool' /\ \A u \in Tids : u # t => state'[u] = state[u]
  BY <1>1 DEF Meddle, WakeThread, WakeEffect, RemoveThread, ForceBlock
<1>4. Asleep \ {t} \subseteq Asleep'
  BY <1>1, <1>3 DEF Asleep, InWait
<1>5. (Asleep \union Woken) \ {t} \subseteq Asleep' \union Woken'
  BY <1>1, <1>3 DEF Asleep, Woken, InWait
<1>6. /\ Asleep \in SUBSET Tids /\ Asleep' \in SUBSET Tids
      /\ Woken \in SUBSET Tids /\ Woken' \in SUBSET Tids
      /\ Asleep \intersect Woken = {} /\ Asleep' \intersect Woken' = {}
  BY <1>1 DEF SemInv, SemTypeOK, Asleep, Woken, InWait
<1>7. /\ Cardinality(Asleep \union Woken) = Cardinality(Asleep) + Cardinality(Woken)
      /\ Cardinality(Asleep' \union Woken') = Cardinality(Asleep') + Cardinality(Woken')
      /\ Cardinality(Asleep') \in Nat /\ Cardinality(Woken') \in Nat
  <2>1. \A S, T \in SUBSET Tids : S \intersect T = {} =>
           Cardinality(S \union T) = Cardinality(S) + Cardinality(T)
    <3> SUFFICES ASSUME NEW S \in SUBSET Tids, NEW T \in SUBSET Tids, S \intersect T = {}
                 PROVE  Cardinality(S \union T) = Cardinality(S) + Cardinality(T)
      OBVIOUS
    <3>1. IsFiniteSet(S) /\ IsFiniteSet(T) /\ Cardinality(S) \in Nat /\ Cardinality(T) \in Nat
      BY TidSets
    <3>2. Cardinality(S \union T) = Cardinality(S) + Cardinality(T) - Cardinality(S \intersect T)
      BY <3>1, FS_Union
    <3>3. Cardinality(S \intersect T) = 0
      BY FS_EmptySet
    <3>4. QED
      BY <3>1, <3>2, <3>3
  <2>2. QED
    BY <1>6, <2>1, TidSets
<1>8. Cardinality(Asleep) - 1 <= Cardinality(Asleep')
  BY <1>4, <1>6, LosesOne
<1>9. Cardinality(Asleep \union Woken) - 1 <= Cardinality(Asleep' \union Woken')
  BY <1>5, <1>6, LosesOne
<1>10. StaleBound'
  BY <1>1, <1>2, <1>7, <1>8, Counts DEF StaleBound
<1>11. PermitBound'
  BY <1>1, <1>7, <1>9, Counts DEF PermitBound
<1>12. QED
  BY <1>10, <1>11 DEF PermitInv

\* Every step keeps the account.
LEMMA NextPermitInv == PermitInv /\ [Next]_vars => PermitInv'
<1> SUFFICES ASSUME PermitInv, [Next]_vars PROVE PermitInv'
  OBVIOUS
<1>1. SemInv /\ SemInv'
  BY NextSemInv DEF PermitInv
<1>2. CASE \/ InMain /\ CreateThread /\ UNCHANGED sem_vars
           \/ \E t \in Tids : Run(t)
           \/ InBody /\ (Yield \/ Return) /\ UNCHANGED sem_vars
           \/ LinkReturn /\ UNCHANGED sem_vars
           \/ EndSlice
  <2>1. UNCHANGED sem_vars /\ Asleep' = Asleep /\ Woken \subseteq Woken' /\ ~SelfReady'
    BY <1>1, <1>2, SchedKeeps
  <2>2. Woken' \in SUBSET Tids
    BY <1>1 DEF SemInv, SemTypeOK, Woken, InWait
  <2>3. Cardinality(Woken) <= Cardinality(Woken') /\ Cardinality(Woken') \in Nat
    BY <2>1, <2>2, TidSets
  <2>4. StaleBound'
    BY <2>1 DEF PermitInv, StaleBound, sem_vars
  <2>5. PermitBound'
    BY <1>1, <2>1, <2>3, Counts DEF PermitInv, PermitBound, sem_vars
  <2>6. QED
    BY <1>1, <2>4, <2>5 DEF PermitInv
<1>3. CASE Wait \/ WaitResume
  BY <1>1, <1>3, WaitTurnPermits, AcquirePermits DEF Wait, WaitResume, InBody
<1>4. CASE Signal
  BY <1>1, <1>4, SignalPermits
<1>5. ASSUME NEW t \in Tids, Meddle(t) PROVE PermitInv'
  BY <1>1, <1>5, MeddlePermits
<1>6. CASE UNCHANGED vars
  BY <1>6 DEF PermitInv, SemInv, SemTypeOK, CoopTypeOK, CoopInv, CoopSafety, OneRunning,
      CpuIsRunning, EndedIsFinished, FreshTids, Zombie, RunsInPool, StaleBound, PermitBound,
      SelfReady, Asleep, Woken, InWait, vars, coop_vars, sem_vars
<1>7. QED
  BY <1>2, <1>3, <1>4, <1>5, <1>6 DEF Next, Continue

\* The account of permits, wakeups and queue entries holds in every state.
THEOREM PermitInvariant == Spec => []PermitInv
BY InitPermitInv, NextPermitInv, PTL DEF Spec

\* No permit is stranded: while threads sleep in the queue, every permit has a
\* woken thread on its way to take it, but for one per call from the menu.
THEOREM SemaphoreNoStrandedPermit == Spec => []NoStrandedPermit
<1>1. PermitInv => NoStrandedPermit
  <2> SUFFICES ASSUME PermitInv, Asleep # {} PROVE Cardinality(Woken) + meddled >= count
    BY DEF NoStrandedPermit
  <2> DEFINE q == wait_queue
             place == [t \in Asleep |-> CHOOSE i \in 1..Len(q) : q[i] = t]
  <2>1. SemInv /\ PermitBound /\ q \in Seq(Tids) /\ Len(q) \in Nat
    BY DEF PermitInv, SemInv, SemTypeOK
  <2>2. \A t \in Asleep : place[t] \in 1..Len(q) /\ q[place[t]] = t
    BY DEF Asleep
  <2>3. place \in Injection(Asleep, 1..Len(q))
    <3> HIDE DEF q
    <3>1. place \in [Asleep -> 1..Len(q)]
      BY <2>2
    <3> HIDE DEF place
    <3>2. \A t, u \in Asleep : place[t] = place[u] => t = u
      BY <2>2
    <3>3. QED
      BY <3>1, <3>2 DEF Injection, IsInjective
  <2>4. Cardinality(Asleep) <= Len(q)
    <3> HIDE DEF place
    <3>1. IsFiniteSet(1..Len(q)) /\ Cardinality(1..Len(q)) = Len(q)
      <4>1. Len(q) \in Nat
        BY <2>1
      <4> HIDE DEF q
      <4>2. Len(q) - 1 + 1 = Len(q) /\ 1 \in Int /\ Len(q) \in Int /\ ~(1 > Len(q) + 1)
        BY <4>1
      <4>3. IsFiniteSet(1..Len(q))
        BY <4>2, FS_Interval
      <4>4. Cardinality(1..Len(q)) = IF 1 > Len(q) THEN 0 ELSE Len(q) - 1 + 1
        BY <4>2, FS_Interval
      <4>5. QED
        BY <4>1, <4>3, <4>4
    <3>2. QED
      BY <2>3, <3>1, FS_Injection
  <2>5. q # << >>
    BY DEF Asleep
  <2>6. QED
    BY <2>1, <2>4, <2>5, Counts DEF PermitBound
<1>2. QED
  BY <1>1, PermitInvariant, PTL

-----------------------------------------------------------------------------
(* The queue without interference from outside.                            *)

\* What holds as long as nobody meddles: no thread is woken while it runs, so
\* a thread that calls blockCurrent sleeps; no thread in wait() is gone; and
\* the queue is the set of those asleep.
Calm ==
    /\ self_woken = {}
    /\ \A t \in waiting : t \in pool
    /\ Distinct(wait_queue)
    /\ \A t \in Tids : InQueue(wait_queue, t) <=> t \in waiting /\ state[t] = "BLOCKED"

CalmInv == SemInv /\ (meddled = 0 => Calm)

\* Nobody waits at first.
LEMMA InitCalmInv == Init => CalmInv
<1> SUFFICES ASSUME Init PROVE CalmInv
  OBVIOUS
<1>1. SemInv
  BY InitSemInv
<1>2. Calm
  BY DEF Init, CoopInit, Calm, Distinct, InQueue
<1>3. QED
  BY <1>1, <1>2 DEF CalmInv

\* Scheduling steps put nobody to sleep and wake no sleeper.
LEMMA SchedCalm ==
    ASSUME SemInv, Calm,
           \/ InMain /\ CreateThread /\ UNCHANGED sem_vars
           \/ \E t \in Tids : Run(t)
           \/ InBody /\ (Yield \/ Return) /\ UNCHANGED sem_vars
           \/ LinkReturn /\ UNCHANGED sem_vars
           \/ EndSlice
    PROVE  Calm'
<1>1. /\ state \in [Tids -> ThreadState] /\ waiting \in SUBSET Tids /\ pool \in SUBSET Tids
      /\ on_cpu => current \in Tids
  BY DEF SemInv, SemTypeOK, CoopTypeOK
<1>2. SUFFICES /\ UNCHANGED <<self_woken, waiting, wait_queue>> /\ pool \subseteq pool'
               /\ \A t \in waiting : state'[t] = "BLOCKED" <=> state[t] = "BLOCKED"
  BY <1>1 DEF Calm, Distinct, InQueue
<1>3. CASE InMain /\ CreateThread /\ UNCHANGED sem_vars
  <2>1. next_tid \notin waiting /\ state' = [state EXCEPT ![next_tid] = "READY"]
    BY <1>3, MaxThreadsAssumption DEF CreateThread, Calm, SemInv, CoopInv, FreshTids, Tids
  <2>2. \A t \in waiting : state'[t] = state[t]
    BY <1>1, <2>1
  <2>3. QED
    BY <1>3, <2>2 DEF CreateThread, sem_vars
<1>4. CASE \E t \in Tids : Run(t)
  BY <1>1, <1>4, SetStateTable DEF Run, Dispatch, sem_vars
<1>5. CASE InBody /\ (Yield \/ Return) /\ UNCHANGED sem_vars
  BY <1>1, <1>5 DEF InBody, InThread, Yield, Return, ExitCurrent, sem_vars
<1>6. CASE (LinkReturn /\ UNCHANGED sem_vars) \/ EndSlice
  BY <1>6 DEF LinkReturn, EndSlice, EndStep, sem_vars
<1>7. QED
  BY <1>3, <1>4, <1>5, <1>6

\* A thread that queues up goes to sleep.
LEMMA WaitTurnCalm ==
    ASSUME SemInv, Calm, InThread, WaitTurn
    PROVE  Calm'
<1>1. /\ state \in [Tids -> ThreadState] /\ waiting \in SUBSET Tids /\ wait_queue \in Seq(Tids)
      /\ current \in Tids /\ current \in pool /\ state[current] = "RUNNING"
  BY DEF SemInv, SemTypeOK, CoopTypeOK, CoopInv, CoopSafety, CpuIsRunning, RunsInPool, InThread, Calm
<1>2. /\ wait_queue' = Append(wait_queue, current) /\ waiting' = waiting \union {current}
      /\ state' = [state EXCEPT ![current] = "BLOCKED"]
      /\ UNCHANGED <<pool, self_woken>>
  BY <1>1, SetStateTable DEF WaitTurn, Block
<1>3. /\ Distinct(wait_queue')
      /\ \A u \in Tids : InQueue(wait_queue', u) <=> InQueue(wait_queue, u) \/ u = current
  <2>1. ~InQueue(wait_queue, current) /\ Distinct(wait_queue)
    BY <1>1 DEF Calm
  <2>2. QED
    BY <1>1, <1>2, <2>1, PushFacts
<1>4. ASSUME NEW t \in Tids
      PROVE  InQueue(wait_queue', t) <=> t \in waiting' /\ state'[t] = "BLOCKED"
  BY <1>1, <1>2, <1>3 DEF Calm
<1>5. \A t \in waiting' : t \in pool'
  BY <1>1, <1>2 DEF Calm
<1>6. QED
  BY <1>2, <1>3, <1>4, <1>5 DEF Calm

\* A thread that gets a permit was not asleep.
LEMMA AcquireCalm ==
    ASSUME SemInv, Calm, InThread, Acquire
    PROVE  Calm'
<1>1. /\ state[current] = "RUNNING" /\ waiting' = waiting \ {current}
      /\ UNCHANGED <<wait_queue, pool, state, self_woken>>
  BY DEF SemInv, CoopInv, CoopSafety, CpuIsRunning, InThread, Calm, Acquire, coop_vars
<1>2. QED
  BY <1>1 DEF Calm

\* signal() takes a sleeping thread from the queue and wakes it.
LEMMA SignalCalm ==
    ASSUME SemInv, Calm, Signal
    PROVE  Calm'
<1>1. /\ state \in [Tids -> ThreadState] /\ wait_queue \in Seq(Tids)
      /\ UNCHANGED <<waiting, pool>>
  BY DEF SemInv, SemTypeOK, CoopTypeOK, Signal
<1>2. CASE wait_queue = << >>
  BY <1>1, <1>2 DEF Signal, WakeFirst, Calm
<1>3. CASE wait_queue # << >>
  <2> DEFINE h == Head(wait_queue)
  <2>1. /\ InQueue(wait_queue, h) /\ h \in Tids
        /\ Distinct(Tail(wait_queue))
        /\ \A u \in Tids : InQueue(Tail(wait_queue), u) <=> InQueue(wait_queue, u) /\ u # h
    BY <1>1, <1>3, PopFacts DEF Calm
  <2>2. h \in waiting /\ state[h] = "BLOCKED" /\ h \in pool
    BY <2>1 DEF Calm
  <2>3. /\ wait_queue' = Tail(wait_queue) /\ self_woken' = self_woken
        /\ state' = [state EXCEPT ![h] = "READY"]
    BY <1>1, <1>3, <2>1, <2>2, SetStateTable DEF Signal, WakeFirst, WakeEffect
  <2> HIDE DEF h
  <2>4. ASSUME NEW t \in Tids
        PROVE  InQueue(wait_queue', t) <=> t \in waiting' /\ state'[t] = "BLOCKED"
    BY <1>1, <2>1, <2>3 DEF Calm
  <2>5. Distinct(wait_queue')
    BY <2>1, <2>3
  <2>6. QED
    BY <1>1, <2>3, <2>4, <2>5 DEF Calm
<1>4. QED
  BY <1>2, <1>3

\* Every step keeps the queue equal to the set of sleepers.
LEMMA NextCalmInv == CalmInv /\ [Next]_vars => CalmInv'
<1> SUFFICES ASSUME CalmInv, [Next]_vars PROVE CalmInv'
  OBVIOUS
<1>1. SemInv /\ SemInv'
  BY NextSemInv DEF CalmInv
<1>2. SUFFICES ASSUME meddled' = 0 PROVE Calm'
  BY <1>1 DEF CalmInv
<1>3. CASE \/ InMain /\ CreateThread /\ UNCHANGED sem_vars
           \/ \E t \in Tids : Run(t)
           \/ InBody /\ (Yield \/ Return) /\ UNCHANGED sem_vars
           \/ LinkReturn /\ UNCHANGED sem_vars
           \/ EndSlice
  <2>1. meddled = 0
    BY <1>2, <1>3 DEF Run, EndSlice, sem_vars
  <2>2. QED
    BY <1>1, <1>3, <2>1, SchedCalm DEF CalmInv
<1>4. CASE Wait \/ WaitResume
  BY <1>1, <1>2, <1>4, WaitTurnCalm, AcquireCalm
     DEF Wait, WaitResume, InBody, WaitTurn, Acquire, CalmInv
<1>5. CASE Signal
  BY <1>1, <1>2, <1>5, SignalCalm DEF Signal, CalmInv
<1>6. ASSUME NEW t \in Tids, Meddle(t) PROVE FALSE
  BY <1>1, <1>2, <1>6 DEF Meddle, SemInv, SemTypeOK
<1>7. CASE UNCHANGED vars
  BY <1>2, <1>7 DEF CalmInv, Calm, Distinct, InQueue, vars, coop_vars, sem_vars
<1>8. QED
  BY <1>3, <1>4, <1>5, <1>6, <1>7 DEF Next, Continue

\* As long as nobody meddles, the queue of the semaphore is the set of threads
\* asleep in wait(), once each: every signal wakes a thread that sleeps.
THEOREM SemaphoreQueueIsBlocked == Spec => []QueueIsBlocked
<1>1. Spec => []CalmInv
  BY InitCalmInv, NextCalmInv, PTL DEF Spec
<1>2. CalmInv => QueueIsBlocked
  BY DEF CalmInv, Calm, Distinct, InQueue, QueueIsBlocked
<1>3. QED
  BY <1>1, <1>2, PTL
=============================================================================
