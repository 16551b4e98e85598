---------------------------- MODULE MutexProofs ----------------------------
(***************************************************************************)
(* Proofs about Mutex and CondVar, for any number of threads, mutexes and  *)
(* condition variables.                                                    *)
(***************************************************************************)
EXTENDS CondVar, CoopSchedProofs

\* The owner field, the flag and the threads' own account say the same.
OwnersAgree ==
    /\ \A m \in Mutexes : locked[m] <=> owner[m] # NoThread
    /\ \A m \in Mutexes, t \in Tids : m \in held[t] <=> owner[m] = t

\* The detector's graph is the picture of who waits for and who owns what.
EdgesExact ==
    /\ \A t \in Tids, m \in Mutexes : <<t, m>> \in wait_edges <=> waiting[t] = m
    /\ \A m \in Mutexes, t \in Tids : <<m, t>> \in hold_edges <=> owner[m] = t

LockInv == TypeOK /\ CoopInv /\ OwnersAgree

\* Every step of the mutexes is a step of the cooperative threads.
LEMMA NextIsCoop == TypeOK /\ [Next]_vars => [CoopNext]_coop_vars
<1> SUFFICES ASSUME TypeOK, [Next]_vars PROVE [CoopNext]_coop_vars
  OBVIOUS
<1>1. CASE SchedStep
  BY <1>1 DEF SchedStep, CoopNext
<1>2. ASSUME NEW m \in Mutexes, LockFree(m) PROVE UNCHANGED coop_vars
  BY <1>2 DEF LockFree, Take
<1>3. ASSUME NEW m \in Mutexes, LockBusy(m) PROVE Block
  BY <1>3 DEF LockBusy, WaitFor
<1>4. ASSUME NEW m \in Mutexes, LockResume(m) PROVE Block \/ UNCHANGED coop_vars
  BY <1>4 DEF LockResume, WaitFor, Take
<1>5. ASSUME NEW m \in Mutexes, Unlock(m) PROVE [CoopNext]_coop_vars
  <2>1. CASE wait_queue[m] = << >>
    BY <1>5, <2>1 DEF Unlock, WakeFirst, coop_vars
  <2>2. CASE wait_queue[m] # << >>
    <3>1. Head(wait_queue[m]) \in Tids
      BY <2>2 DEF TypeOK
    <3>2. WakeThread(Head(wait_queue[m]))
      BY <1>5, <2>2 DEF Unlock, WakeFirst, WakeThread, InBody, ApiCallable
    <3>3. QED
      BY <3>1, <3>2 DEF CoopNext
  <2>3. QED
    BY <2>1, <2>2
<1>6. ASSUME NEW t \in Tids, Meddle(t)
      PROVE  WakeThread(t) \/ RemoveThread(t) \/ ForceBlock(t)
  BY <1>6 DEF Meddle
<1>7. CASE UNCHANGED vars
  BY <1>7 DEF vars
<1>8. QED
  BY <1>1, <1>2, <1>3, <1>4, <1>5, <1>6, <1>7 DEF Next, CoopNext

\* Fresh mutexes are free and held by nobody (Mutex::Mutex).
LEMMA InitLockInv == Init => LockInv
<1> SUFFICES ASSUME Init PROVE LockInv
  OBVIOUS
<1>1. CoopInv
  BY CoopInitInv DEF Init
<1>2. TypeOK
  <2>1. locked \in [Mutexes -> BOOLEAN] /\ reported \in BOOLEAN
    BY Zenon DEF Init
  <2>2. QED
    BY <1>1, <2>1 DEF Init, TypeOK, CoopInv
<1>3. OwnersAgree
  BY DEF Init, OwnersAgree, NoThread, Tids
<1>4. QED
  BY <1>1, <1>2, <1>3 DEF LockInv

\* lock, tryLock and unlock keep locked_, owner_tid_ and the threads' account
\* in step; no other action touches them.
LEMMA NextLockInv == LockInv /\ [Next]_vars => LockInv'
<1> SUFFICES ASSUME LockInv, [Next]_vars PROVE LockInv'
  OBVIOUS
<1>1. CoopInv'
  BY NextIsCoop, CoopNextInv DEF LockInv
<1>2. CoopTypeOK'
  BY <1>1 DEF CoopInv
<1>3. on_cpu => current \in Tids
  BY DEF LockInv, CoopInv, CoopTypeOK
<1> USE DEF LockInv, TypeOK, OwnersAgree
<1>4. CASE SchedStep \/ UNCHANGED vars
  BY <1>1, <1>2, <1>4 DEF SchedStep, vars, mutex_vars, lock_vars, graph_vars
<1>5. ASSUME NEW m \in Mutexes, LockFree(m) PROVE LockInv'
  BY <1>1, <1>2, <1>3, <1>5 DEF LockFree, Take, InBody, InThread, coop_vars, NoThread, Tids
<1>6. ASSUME NEW m \in Mutexes, LockBusy(m) PROVE LockInv'
  BY <1>1, <1>2, <1>3, <1>6 DEF LockBusy, WaitFor, InBody, InThread, Detect
<1>7. ASSUME NEW m \in Mutexes, LockResume(m) PROVE LockInv'
  <2>1. CASE locked[m]
    <3>1. WaitFor(m) /\ current \in Tids
      BY <1>3, <1>7, <2>1 DEF LockResume, InThread
    <3>2. QED
      BY <1>1, <1>2, <3>1 DEF WaitFor, Detect
  <2>2. CASE ~locked[m]
    <3>1. /\ Take(m) /\ current \in Tids
          /\ wait_edges' = wait_edges \ {<<current, m>>}
          /\ waiting' = [waiting EXCEPT ![current] = NoMutex]
      BY <1>3, <1>7, <2>2 DEF LockResume, InThread
    <3>2. TypeOK'
      BY <1>2, <3>1 DEF Take
    <3>3. OwnersAgree'
      BY <2>2, <3>1 DEF Take, coop_vars, NoThread, Tids
    <3>4. QED
      BY <1>1, <3>2, <3>3
  <2>3. QED
    BY <2>1, <2>2
<1>8. ASSUME NEW m \in Mutexes, Unlock(m) PROVE LockInv'
  <2>1. current \in Tids /\ owner[m] = current
    BY <1>3, <1>8 DEF Unlock, InBody, InThread
  <2>2. wait_queue' \in [Mutexes -> Seq(Tids)]
    <3>1. CASE wait_queue[m] = << >>
      BY <1>8, <3>1 DEF Unlock, WakeFirst
    <3>2. CASE wait_queue[m] # << >>
      <4>1. Tail(wait_queue[m]) \in Seq(Tids)
        BY <3>2
      <4>2. wait_queue' = [wait_queue EXCEPT ![m] = Tail(@)]
        BY <1>8, <3>2 DEF Unlock, WakeFirst
      <4>3. QED
        BY <4>1, <4>2
    <3>3. QED
      BY <3>1, <3>2
  <2>3. TypeOK'
    BY <1>2, <1>8, <2>1, <2>2 DEF Unlock
  <2>4. OwnersAgree'
    BY <1>8, <2>1 DEF Unlock, NoThread, Tids
  <2>5. QED
    BY <1>1, <2>3, <2>4
<1>9. ASSUME NEW t \in Tids, Meddle(t) PROVE LockInv'
  BY <1>1, <1>2, <1>9 DEF Meddle, lock_vars, graph_vars
<1>10. QED
  BY <1>4, <1>5, <1>6, <1>7, <1>8, <1>9 DEF Next

\* Type correctness of the mutexes, and agreement on who owns them.
THEOREM LockInvariant == Spec => []LockInv
BY InitLockInv, NextLockInv, PTL DEF Spec

\* The type invariant of the mutexes and the detector.
THEOREM MutexTypeCorrect == Spec => []TypeOK
BY LockInvariant, PTL DEF LockInv

\* No two threads hold a mutex at once, also when threads are woken or removed
\* from outside at any moment.
THEOREM MutexExcludes == Spec => []MutualExclusion
<1>1. LockInv => MutualExclusion
  BY DEF LockInv, OwnersAgree, MutualExclusion, TypeOK
<1>2. QED
  BY <1>1, LockInvariant, PTL

-----------------------------------------------------------------------------
(* The detector.  EdgesExact makes the graph a picture of the mutexes, so   *)
(* that detect() answers rightly when it is called; between two calls the   *)
(* deadlocked sets cannot change (DeadlocksKept), because the thread that    *)
(* acts is not itself waiting.                                             *)

DetectorInv == LockInv /\ EdgesExact /\ DetectorExact

\* A thread that takes or releases a mutex is in no deadlocked set, so the
\* deadlocked sets are the same before and after.
LEMMA DeadlocksKept ==
    ASSUME LockInv, NEW m \in Mutexes, NEW K \in SUBSET Tids,
           LockFree(m) \/ Unlock(m) \/ (LockResume(m) /\ ~locked[m])
    PROVE  Deadlocked(K)' <=> Deadlocked(K)
<1>1. /\ current \in Tids /\ waiting \in [Tids -> Mutexes \union {NoMutex}]
      /\ owner \in [Mutexes -> Tids \union {NoThread}]
      /\ NoThread \notin K /\ NoMutex \notin Mutexes
  BY MutexAssumption DEF LockInv, TypeOK, CoopInv, CoopTypeOK, LockFree, Unlock,
     LockResume, InBody, InThread, NoThread, Tids
<1>2. CASE LockFree(m) \/ Unlock(m)
  <2>1. /\ waiting[current] = NoMutex /\ waiting' = waiting
        /\ owner[m] \in {current, NoThread}
        /\ \E o \in {current, NoThread} : owner' = [owner EXCEPT ![m] = o]
    BY <1>1, <1>2 DEF LockInv, OwnersAgree, LockFree, Take, Unlock, InBody, InThread
  <2>2. Deadlocked(K) \/ Deadlocked(K)' => current \notin K
    BY <2>1 DEF Deadlocked
  <2>3. ASSUME NEW t \in K, current \notin K, waiting[t] \in Mutexes
        PROVE  owner'[waiting[t]] \in K <=> owner[waiting[t]] \in K
    BY <1>1, <2>1, <2>3
  <2>4. QED
    BY <1>1, <2>1, <2>2, <2>3 DEF Deadlocked
<1>3. CASE LockResume(m) /\ ~locked[m]
  <2>1. /\ waiting[current] = m /\ owner[m] = NoThread
        /\ owner' = [owner EXCEPT ![m] = current]
        /\ waiting' = [waiting EXCEPT ![current] = NoMutex]
    BY <1>1, <1>3 DEF LockInv, OwnersAgree, LockResume, Take
  <2>2. Deadlocked(K) \/ Deadlocked(K)' => current \notin K
    BY <1>1, <2>1 DEF Deadlocked
  <2>3. ASSUME NEW t \in K, current \notin K
        PROVE  waiting'[t] = waiting[t]
    BY <1>1, <2>1, <2>3
  <2>4. ASSUME NEW t \in K, current \notin K, waiting[t] \in Mutexes
        PROVE  owner'[waiting[t]] \in K <=> owner[waiting[t]] \in K
    BY <1>1, <2>1, <2>4
  <2>5. QED
    BY <1>1, <2>2, <2>3, <2>4 DEF Deadlocked
<1>4. QED
  BY <1>2, <1>3

\* A graph that pictures who waits for what (w) and who owns what (o) shows a
\* knot of threads exactly when these threads wait for each other.
LEMMA KnotIsDeadlock ==
    ASSUME NEW w \in [Tids -> Mutexes \union {NoMutex}],
           NEW o \in [Mutexes -> Tids \union {NoThread}],
           NEW waits, NEW holds,
           \A t \in Tids, m \in Mutexes : <<t, m>> \in waits <=> w[t] = m,
           \A m \in Mutexes, t \in Tids : <<m, t>> \in holds <=> o[m] = t,
           NEW K \in SUBSET Tids
    PROVE  Knot(K, waits, holds) <=>
             K # {} /\ \A t \in K : w[t] # NoMutex /\ o[w[t]] \in K
<1>1. ASSUME NEW t \in K, NEW u \in K, NEW m \in Mutexes,
             <<t, m>> \in waits, <<m, u>> \in holds
      PROVE  w[t] # NoMutex /\ o[w[t]] \in K
  <2>1. w[t] = m /\ o[m] = u
    BY <1>1
  <2>2. QED
    BY <2>1, MutexAssumption
<1>2. ASSUME NEW t \in K, w[t] # NoMutex, o[w[t]] \in K
      PROVE  \E u \in K, m \in Mutexes : <<t, m>> \in waits /\ <<m, u>> \in holds
  <2>1. w[t] \in Mutexes /\ t \in Tids /\ o[w[t]] \in Tids
    BY <1>2
  <2>2. <<t, w[t]>> \in waits /\ <<w[t], o[w[t]]>> \in holds
    BY <2>1
  <2>3. QED
    BY <1>2, <2>1, <2>2
<1>3. QED
  BY <1>1, <1>2 DEF Knot

\* With no edges there is no cycle, and no deadlock.
LEMMA InitDetectorInv == Init => DetectorInv
<1> SUFFICES ASSUME Init PROVE DetectorInv
  OBVIOUS
<1>1. LockInv
  BY InitLockInv
<1>2. EdgesExact
  BY MutexAssumption DEF Init, EdgesExact, NoThread, Tids
<1>3. DetectorExact
  BY DEF Init, DetectorExact, Deadlocked
<1>4. QED
  BY <1>1, <1>2, <1>3 DEF DetectorInv

\* The edges follow the mutexes in every step.
LEMMA NextEdgesExact == LockInv /\ EdgesExact /\ [Next]_vars => EdgesExact'
<1> SUFFICES ASSUME LockInv, EdgesExact, [Next]_vars PROVE EdgesExact'
  OBVIOUS
<1>1. on_cpu => current \in Tids
  BY DEF LockInv, CoopInv, CoopTypeOK
<1> USE MutexAssumption DEF EdgesExact, LockInv, TypeOK
<1>2. CASE SchedStep \/ UNCHANGED vars
  BY <1>2 DEF SchedStep, vars, mutex_vars, lock_vars, graph_vars
<1>3. ASSUME NEW m \in Mutexes, LockFree(m) PROVE EdgesExact'
  BY <1>1, <1>3 DEF LockFree, Take, InBody, InThread, OwnersAgree, NoThread, Tids
<1>4. ASSUME NEW m \in Mutexes, LockBusy(m) PROVE EdgesExact'
  BY <1>1, <1>4 DEF LockBusy, WaitFor, InBody, InThread
<1>5. ASSUME NEW m \in Mutexes, LockResume(m) PROVE EdgesExact'
  <2>1. CASE locked[m]
    <3>1. WaitFor(m) /\ current \in Tids /\ waiting[current] = m
      BY <1>1, <1>5, <2>1 DEF LockResume, InThread
    <3>2. wait_edges' = wait_edges /\ waiting' = waiting /\ UNCHANGED <<hold_edges, owner>>
      BY <3>1 DEF WaitFor
    <3>3. QED
      BY <3>2
  <2>2. CASE ~locked[m]
    <3>1. /\ Take(m) /\ current \in Tids /\ waiting[current] = m /\ owner[m] = NoThread
          /\ wait_edges' = wait_edges \ {<<current, m>>}
          /\ waiting' = [waiting EXCEPT ![current] = NoMutex]
      BY <1>1, <1>5, <2>2 DEF LockResume, InThread, OwnersAgree
    <3>2. \A t \in Tids, n \in Mutexes : <<t, n>> \in wait_edges' <=> waiting'[t] = n
      <4>1. ASSUME NEW t \in Tids, NEW n \in Mutexes, t # current
            PROVE  <<t, n>> \in wait_edges' <=> waiting'[t] = n
        BY <3>1, <4>1
      <4>2. ASSUME NEW n \in Mutexes
            PROVE  <<current, n>> \notin wait_edges' /\ waiting'[current] # n
        BY <3>1, <4>2
      <4>3. QED
        BY <4>1, <4>2
    <3>3. \A n \in Mutexes, t \in Tids : <<n, t>> \in hold_edges' <=> owner'[n] = t
      <4>1. /\ hold_edges' = hold_edges \union {<<m, current>>}
            /\ owner' = [owner EXCEPT ![m] = current]
        BY <3>1 DEF Take
      <4>2. ASSUME NEW n \in Mutexes, NEW t \in Tids, n # m
            PROVE  <<n, t>> \in hold_edges' <=> owner'[n] = t
        BY <4>1, <4>2
      <4>3. ASSUME NEW t \in Tids
            PROVE  <<m, t>> \in hold_edges' <=> owner'[m] = t
        BY <3>1, <4>1, <4>3 DEF NoThread, Tids
      <4>4. QED
        BY <4>2, <4>3
    <3>4. QED
      BY <3>2, <3>3
  <2>3. QED
    BY <2>1, <2>2
<1>6. ASSUME NEW m \in Mutexes, Unlock(m) PROVE EdgesExact'
  <2>1. /\ current \in Tids /\ owner[m] = current
        /\ hold_edges' = hold_edges \ {<<m, current>>}
        /\ owner' = [owner EXCEPT ![m] = NoThread]
        /\ UNCHANGED <<wait_edges, waiting>>
    BY <1>1, <1>6 DEF Unlock, InBody, InThread
  <2>2. ASSUME NEW n \in Mutexes, NEW t \in Tids, n # m
        PROVE  <<n, t>> \in hold_edges' <=> owner'[n] = t
    BY <2>1, <2>2
  <2>3. ASSUME NEW t \in Tids
        PROVE  <<m, t>> \notin hold_edges' /\ owner'[m] # t
    BY <2>1, <2>3 DEF NoThread, Tids
  <2>4. QED
    BY <2>1, <2>2, <2>3
<1>7. ASSUME NEW t \in Tids, Meddle(t) PROVE EdgesExact'
  BY <1>7 DEF Meddle, lock_vars, graph_vars
<1>8. QED
  BY <1>2, <1>3, <1>4, <1>5, <1>6, <1>7 DEF Next

\* detect() is right when it runs, in WaitFor; Take and Unlock, which do not
\* call it, neither make nor break a deadlock.
LEMMA NextDetectorInv == DetectorInv /\ [Next]_vars => DetectorInv'
<1> SUFFICES ASSUME DetectorInv, [Next]_vars PROVE DetectorInv'
  OBVIOUS
<1>1. LockInv' /\ EdgesExact'
  BY NextLockInv, NextEdgesExact DEF DetectorInv
<1>2. SUFFICES DetectorExact'
  BY <1>1 DEF DetectorInv
<1>3. ASSUME NEW m \in Mutexes, WaitFor(m) PROVE DetectorExact'
  <2>1. reported' = Detect(wait_edges', hold_edges')
    BY <1>3 DEF WaitFor
  <2>2. Detect(wait_edges', hold_edges') <=> \E K \in SUBSET Tids : Deadlocked(K)'
    <3>1. \A K \in SUBSET Tids : Knot(K, wait_edges', hold_edges') <=> Deadlocked(K)'
      BY <1>1, KnotIsDeadlock DEF LockInv, TypeOK, EdgesExact, Deadlocked
    <3>2. QED
      BY <3>1 DEF Detect
  <2>3. QED
    BY <2>1, <2>2 DEF DetectorExact
<1>4. ASSUME reported' = reported,
             \A K \in SUBSET Tids : Deadlocked(K)' <=> Deadlocked(K)
      PROVE  DetectorExact'
  BY <1>4 DEF DetectorInv, DetectorExact
<1>5. ASSUME UNCHANGED <<reported, waiting, owner>> PROVE DetectorExact'
  BY <1>5 DEF DetectorInv, DetectorExact, Deadlocked
<1>6. CASE SchedStep \/ UNCHANGED vars
  BY <1>5, <1>6 DEF SchedStep, vars, mutex_vars, lock_vars, graph_vars
<1>7. ASSUME NEW m \in Mutexes, LockFree(m) PROVE DetectorExact'
  BY <1>4, <1>7, DeadlocksKept DEF LockFree, Take, DetectorInv
<1>8. ASSUME NEW m \in Mutexes, LockBusy(m) PROVE DetectorExact'
  BY <1>3, <1>8 DEF LockBusy
<1>9. ASSUME NEW m \in Mutexes, LockResume(m) PROVE DetectorExact'
  <2>1. CASE locked[m]
    BY <1>3, <1>9, <2>1 DEF LockResume
  <2>2. CASE ~locked[m]
    BY <1>4, <1>9, <2>2, DeadlocksKept DEF LockResume, Take, DetectorInv
  <2>3. QED
    BY <2>1, <2>2
<1>10. ASSUME NEW m \in Mutexes, Unlock(m) PROVE DetectorExact'
  BY <1>4, <1>10, DeadlocksKept DEF Unlock, DetectorInv
<1>11. ASSUME NEW t \in Tids, Meddle(t) PROVE DetectorExact'
  BY <1>5, <1>11 DEF Meddle, lock_vars, graph_vars
<1>12. QED
  BY <1>6, <1>7, <1>8, <1>9, <1>10, <1>11 DEF Next

\* The answer of the last detect() is right in every state.
THEOREM DetectorIsExact == Spec => []DetectorExact
<1>1. Spec => []DetectorInv
  BY InitDetectorInv, NextDetectorInv, PTL DEF Spec
<1>2. QED
  BY <1>1, PTL DEF DetectorInv

\* No step gets a thread out of a deadlocked set.
LEMMA DeadlockedStep ==
    ASSUME DetectorInv, [Next]_vars, NEW K \in SUBSET Tids, Deadlocked(K)
    PROVE  Deadlocked(K)'
<1> USE DEF DetectorInv
<1>1. ASSUME UNCHANGED <<waiting, owner>> PROVE Deadlocked(K)'
  BY <1>1 DEF Deadlocked
<1>2. CASE SchedStep \/ UNCHANGED vars
  BY <1>1, <1>2 DEF SchedStep, vars, mutex_vars, lock_vars, graph_vars
<1>3. ASSUME NEW m \in Mutexes, LockFree(m) \/ Unlock(m) PROVE Deadlocked(K)'
  BY <1>3, DeadlocksKept
<1>4. ASSUME NEW m \in Mutexes, LockBusy(m) PROVE Deadlocked(K)'
  BY <1>4, MutexAssumption
     DEF LockBusy, WaitFor, InBody, InThread, Deadlocked, LockInv, TypeOK, CoopInv, CoopTypeOK
<1>5. ASSUME NEW m \in Mutexes, LockResume(m) PROVE Deadlocked(K)'
  <2>1. CASE locked[m]
    <3>1. waiting' = [waiting EXCEPT ![current] = m] /\ owner' = owner /\ waiting[current] = m
      BY <1>5, <2>1 DEF LockResume, WaitFor
    <3>2. QED
      BY <3>1 DEF Deadlocked, LockInv, TypeOK
  <2>2. CASE ~locked[m]
    BY <1>5, <2>2, DeadlocksKept
  <2>3. QED
    BY <2>1, <2>2
<1>6. ASSUME NEW t \in Tids, Meddle(t) PROVE Deadlocked(K)'
  BY <1>1, <1>6 DEF Meddle, lock_vars, graph_vars
<1>7. QED
  BY <1>2, <1>3, <1>4, <1>5, <1>6 DEF Next

\* A deadlock among mutexes is for ever.
THEOREM DeadlockForEver == Spec => DeadlockIsStable
<1>1. Spec => []DetectorInv
  BY InitDetectorInv, NextDetectorInv, PTL DEF Spec
<1>2. DetectorInv /\ [Next]_vars => KeepsDeadlocks
  BY DeadlockedStep DEF KeepsDeadlocks
<1>3. QED
  BY <1>1, <1>2, PTL DEF Spec, DeadlockIsStable

-----------------------------------------------------------------------------
(* Wakeups.  Without interference from outside, the queue of a mutex is the *)
(* set of threads asleep in its lock(), so each unlock wakes one of them.   *)

\* QueueIsBlocked and NoLostWakeup for one mutex, without their condition.
QueueOf(m) ==
    /\ Distinct(wait_queue[m])
    /\ \A t \in Tids : InQueue(wait_queue[m], t) <=> waiting[t] = m /\ state[t] = "BLOCKED"
WokenFor(m) ==
    ~locked[m] /\ wait_queue[m] # << >> =>
        \E t \in pool : waiting[t] = m /\ state[t] \in {"READY", "RUNNING"}

\* What holds as long as nobody meddles: no thread is woken while it runs, no
\* thread in use is gone from the pool, and the two properties.
Calm ==
    /\ self_woken = {}
    /\ current # NoThread => current \in pool
    /\ \A t \in Tids : waiting[t] # NoMutex => t \in pool /\ ~finished[t]
    /\ \A m \in Mutexes : QueueOf(m) /\ WokenFor(m)

WakeInv == LockInv /\ (meddled = 0 => Calm)

\* All queues are empty.
LEMMA InitWakeInv == Init => WakeInv
<1> SUFFICES ASSUME Init PROVE WakeInv
  OBVIOUS
<1>1. LockInv
  BY InitLockInv
<1>2. Calm
  BY MutexAssumption
     DEF Init, CoopInit, Calm, QueueOf, WokenFor, Distinct, InQueue
<1>3. QED
  BY <1>1, <1>2 DEF WakeInv

\* Steps that change no mutex and wake nobody.
LEMMA SchedStepCalm ==
    ASSUME LockInv, Calm, SchedStep
    PROVE  Calm'
<1> USE DEF LockInv, TypeOK, CoopInv, CoopTypeOK, Calm, QueueOf, WokenFor
<1>0. UNCHANGED <<locked, wait_queue, waiting>>
  BY DEF SchedStep, mutex_vars, lock_vars
<1>1. on_cpu => current \in Tids /\ state[current] = "RUNNING"
  BY DEF CoopSafety, CpuIsRunning
<1> DEFINE Kept ==
      /\ self_woken' = self_woken
      /\ current' # NoThread => current' \in pool'
      /\ pool \subseteq pool'
      /\ \A t \in Tids : waiting[t] # NoMutex => finished'[t] = finished[t]
      /\ \A t \in Tids : waiting[t] # NoMutex =>
            /\ state[t] = "BLOCKED" <=> state'[t] = "BLOCKED"
            /\ state[t] \in {"READY", "RUNNING"} => state'[t] \in {"READY", "RUNNING"}
<1>2. SUFFICES Kept
  BY <1>0, MutexAssumption
<1>3. CASE InMain /\ CreateThread
  <2>1. \A t \in Tids : waiting[t] # NoMutex => t # next_tid
    BY <1>3, MaxThreadsAssumption DEF FreshTids, CreateThread
  <2>2. /\ UNCHANGED <<current, self_woken>> /\ current = NoThread
        /\ pool' = pool \union {next_tid}
        /\ state' = [state EXCEPT ![next_tid] = "READY"]
        /\ finished' = [finished EXCEPT ![next_tid] = FALSE]
    BY <1>3 DEF CreateThread, InMain
  <2>3. ASSUME NEW t \in Tids, waiting[t] # NoMutex
        PROVE  state'[t] = state[t] /\ finished'[t] = finished[t]
    BY <2>1, <2>2, <2>3
  <2>4. pool \subseteq pool' /\ self_woken' = self_woken /\ current' = NoThread
    BY <2>2
  <2>5. QED
    BY <2>3, <2>4
<1>4. ASSUME NEW u \in Tids, Dispatch(u) PROVE Kept
  BY <1>4, SetStateTable DEF Dispatch
<1>5. CASE InBody /\ (Yield \/ Return)
  BY <1>1, <1>5 DEF InBody, InThread, Yield, Return, ExitCurrent
<1>6. CASE EndStep \/ LinkReturn
  BY <1>6 DEF EndStep, LinkReturn
<1>7. QED
  BY <1>3, <1>4, <1>5, <1>6 DEF SchedStep

\* A thread takes the mutex m, from its body or on its way out of lock().
LEMMA TakeCalm ==
    ASSUME LockInv, Calm, NEW m \in Mutexes, InThread, Take(m),
           waiting[current] \in {m, NoMutex},
           waiting' = [waiting EXCEPT ![current] = NoMutex]
    PROVE  Calm'
<1> USE MutexAssumption DEF LockInv, TypeOK, CoopInv, CoopTypeOK
<1>1. current \in Tids /\ state[current] = "RUNNING"
  BY DEF Calm, CoopSafety, CpuIsRunning, InThread
<1>2. UNCHANGED <<wait_queue, state, pool, self_woken, finished>>
  BY DEF Take, coop_vars
<1>3. ASSUME NEW n \in Mutexes PROVE QueueOf(n)'
  BY <1>1, <1>2 DEF Calm, QueueOf
<1>4. ASSUME NEW n \in Mutexes PROVE WokenFor(n)'
  <2>1. CASE n = m
    BY <2>1 DEF Take, WokenFor
  <2>2. CASE n # m
    <3>1. locked'[n] = locked[n] /\ \A t \in Tids : waiting[t] = n => waiting'[t] = n
      BY <1>1, <2>2 DEF Take
    <3>2. QED
      BY <1>2, <3>1 DEF Calm, WokenFor
  <2>3. QED
    BY <2>1, <2>2
<1>5. QED
  BY <1>1, <1>2, <1>3, <1>4 DEF Calm, Take, coop_vars

\* A thread queues up for the mutex m, which is locked, and blocks.
LEMMA WaitCalm ==
    ASSUME LockInv, Calm, NEW m \in Mutexes, InThread, locked[m], WaitFor(m),
           waiting[current] \in {m, NoMutex}
    PROVE  Calm'
<1> USE MutexAssumption DEF LockInv, TypeOK, CoopInv, CoopTypeOK
<1>1. current \in Tids /\ state[current] = "RUNNING"
  BY DEF Calm, CoopSafety, CpuIsRunning, InThread
<1>2. /\ UNCHANGED <<locked, pool, self_woken, finished, current>>
      /\ state' = [state EXCEPT ![current] = "BLOCKED"]
      /\ waiting' = [waiting EXCEPT ![current] = m]
      /\ wait_queue' = [wait_queue EXCEPT ![m] = Append(@, current)]
  BY <1>1, SetStateTable DEF WaitFor, Block
<1>3. current \in pool /\ ~finished[current]
  <2>1. state[current] # "READY" /\ state[current] # "FINISHED"
    BY <1>1
  <2>2. QED
    BY <1>1, <2>1 DEF CoopSafety, EndedIsFinished, Calm, NoThread, Tids
<1>4. ASSUME NEW n \in Mutexes PROVE QueueOf(n)'
  <2>1. CASE n = m
    <3>1. ~InQueue(wait_queue[m], current) /\ Distinct(wait_queue[m])
      BY <1>1 DEF Calm, QueueOf
    <3>2. wait_queue'[m] = Append(wait_queue[m], current)
      BY <1>2
    <3>3. /\ Distinct(wait_queue'[m])
          /\ \A u \in Tids : InQueue(wait_queue'[m], u) <=>
                              InQueue(wait_queue[m], u) \/ u = current
      BY <1>1, <3>1, <3>2, PushFacts
    <3>4. QED
      BY <1>1, <1>2, <2>1, <3>3 DEF Calm, QueueOf
  <2>2. CASE n # m
    BY <1>1, <1>2, <2>2 DEF Calm, QueueOf
  <2>3. QED
    BY <2>1, <2>2
<1>5. ASSUME NEW n \in Mutexes PROVE WokenFor(n)'
  <2>1. CASE n = m
    BY <1>2, <2>1 DEF WokenFor
  <2>2. CASE n # m
    <3>1. wait_queue'[n] = wait_queue[n]
      BY <1>2, <2>2
    <3>2. \A t \in Tids : waiting[t] = n => waiting'[t] = n /\ state'[t] = state[t]
      BY <1>1, <1>2, <2>2
    <3>3. QED
      BY <1>2, <3>1, <3>2 DEF Calm, WokenFor
  <2>3. QED
    BY <2>1, <2>2
<1>6. QED
  BY <1>1, <1>2, <1>3, <1>4, <1>5 DEF Calm

\* The owner releases m and wakes the first thread of its queue.
LEMMA UnlockCalm ==
    ASSUME LockInv, Calm, NEW m \in Mutexes, Unlock(m)
    PROVE  Calm'
<1> USE MutexAssumption DEF LockInv, TypeOK, CoopInv, CoopTypeOK
<1>1. UNCHANGED <<waiting, pool, finished, current>> /\ locked' = [locked EXCEPT ![m] = FALSE]
  BY DEF Unlock
<1>2. CASE wait_queue[m] = << >>
  <2>1. UNCHANGED <<wait_queue, state, self_woken>>
    BY <1>2 DEF Unlock, WakeFirst
  <2>2. QED
    BY <1>1, <1>2, <2>1 DEF Calm, QueueOf, WokenFor
<1>3. CASE wait_queue[m] # << >>
  <2> DEFINE h == Head(wait_queue[m])
  <2>1. /\ InQueue(wait_queue[m], h) /\ h \in Tids
        /\ Distinct(Tail(wait_queue[m]))
        /\ \A u \in Tids : InQueue(Tail(wait_queue[m]), u) <=> InQueue(wait_queue[m], u) /\ u # h
    BY <1>3, PopFacts DEF Calm, QueueOf
  <2>2. waiting[h] = m /\ state[h] = "BLOCKED" /\ h \in pool
    BY <2>1 DEF Calm, QueueOf
  <2>3. /\ wait_queue' = [wait_queue EXCEPT ![m] = Tail(@)]
        /\ state' = [state EXCEPT ![h] = "READY"]
        /\ self_woken' = self_woken
    BY <1>3, <2>1, <2>2, SetStateTable DEF Unlock, WakeFirst, WakeEffect
  <2> HIDE DEF h
  <2>4. ASSUME NEW n \in Mutexes PROVE QueueOf(n)'
    <3>1. CASE n = m
      <4>1. wait_queue'[m] = Tail(wait_queue[m])
        BY <2>3
      <4>2. QED
        BY <1>1, <2>1, <2>2, <2>3, <3>1, <4>1 DEF Calm, QueueOf
    <3>2. CASE n # m
      BY <1>1, <2>1, <2>2, <2>3, <3>2 DEF Calm, QueueOf
    <3>3. QED
      BY <3>1, <3>2
  <2>5. ASSUME NEW n \in Mutexes PROVE WokenFor(n)'
    <3>1. CASE n = m
      BY <1>1, <2>1, <2>2, <2>3, <3>1 DEF WokenFor
    <3>2. CASE n # m
      BY <1>1, <2>1, <2>2, <2>3, <3>2 DEF Calm, WokenFor
    <3>3. QED
      BY <3>1, <3>2
  <2>6. QED
    BY <1>1, <2>3, <2>4, <2>5 DEF Calm
<1>4. QED
  BY <1>2, <1>3

\* Every action keeps the queues equal to the sleeping waiters and leaves a
\* woken waiter for each free mutex with a queue.
LEMMA NextWakeInv == WakeInv /\ [Next]_vars => WakeInv'
<1> SUFFICES ASSUME WakeInv, [Next]_vars PROVE WakeInv'
  OBVIOUS
<1>1. LockInv'
  BY NextLockInv DEF WakeInv
<1>2. SUFFICES ASSUME meddled' = 0 PROVE Calm'
  BY <1>1 DEF WakeInv
<1>3. CASE UNCHANGED vars
  BY <1>2, <1>3 DEF WakeInv, Calm, QueueOf, WokenFor, vars, coop_vars, mutex_vars, lock_vars
<1>4. CASE SchedStep
  BY <1>2, <1>4, SchedStepCalm DEF WakeInv, SchedStep, mutex_vars
<1>5. ASSUME NEW m \in Mutexes, LockFree(m) PROVE Calm'
  <2>1. waiting' = [waiting EXCEPT ![current] = NoMutex]
    BY <1>5 DEF LockFree, InBody, WakeInv, LockInv, TypeOK
  <2>2. QED
    BY <1>2, <1>5, <2>1, TakeCalm DEF LockFree, InBody, Take, WakeInv
<1>6. ASSUME NEW m \in Mutexes, LockBusy(m) PROVE Calm'
  BY <1>2, <1>6, WaitCalm DEF LockBusy, InBody, WaitFor, WakeInv
<1>7. ASSUME NEW m \in Mutexes, LockResume(m) PROVE Calm'
  <2>1. CASE locked[m]
    BY <1>2, <1>7, <2>1, WaitCalm DEF LockResume, WaitFor, WakeInv
  <2>2. CASE ~locked[m]
    BY <1>2, <1>7, <2>2, TakeCalm DEF LockResume, Take, WakeInv
  <2>3. QED
    BY <2>1, <2>2
<1>8. ASSUME NEW m \in Mutexes, Unlock(m) PROVE Calm'
  BY <1>2, <1>8, UnlockCalm DEF Unlock, WakeInv
<1>9. ASSUME NEW t \in Tids, Meddle(t) PROVE FALSE
  BY <1>2, <1>9 DEF Meddle, WakeInv, LockInv, TypeOK
<1>10. QED
  BY <1>3, <1>4, <1>5, <1>6, <1>7, <1>8, <1>9 DEF Next

\* The wakeup invariant of lock and unlock holds in every state.
LEMMA WakeInvariant == Spec => []WakeInv
BY InitWakeInv, NextWakeInv, PTL DEF Spec

\* As long as nobody meddles, a free mutex with a queue has a runnable waiter.
THEOREM MutexNoLostWakeup == Spec => []NoLostWakeup
<1>1. WakeInv => NoLostWakeup
  BY DEF WakeInv, Calm, WokenFor, NoLostWakeup
<1>2. QED
  BY <1>1, WakeInvariant, PTL

\* As long as nobody meddles, the queue is the set of threads asleep in lock().
THEOREM MutexQueueIsBlocked == Spec => []QueueIsBlocked
<1>1. WakeInv => QueueIsBlocked
  BY DEF WakeInv, Calm, QueueOf, Distinct, InQueue, QueueIsBlocked
<1>2. QED
  BY <1>1, WakeInvariant, PTL

-----------------------------------------------------------------------------
(* Condition variables.  Most steps of CondVar are steps of Mutex; those of  *)
(* Beside touch no mutex.                                                   *)

Beside == WaitBlock \/ \E c \in Conds : Signal(c) \/ Broadcast(c)

\* Where the threads in wait() are: none waits for a mutex, and one that is
\* about to block has the CPU, so that no other thread acts in between.
CvPlaces ==
    /\ cv_queue \in [Conds -> Seq(Tids)]
    /\ cv_mutex \in [Tids -> Mutexes \union {NoMutex}]
    /\ cv_pc \in [Tids -> {"out", "block", "relock"}]
    /\ \A t \in Tids : cv_pc[t] # "out" => waiting[t] = NoMutex
    /\ \A t \in Tids : cv_pc[t] = "block" => on_cpu /\ current = t /\ ~ended[t]

\* CvQueueIsAsleep without its condition, and the threads in wait() are there.
CvCalm ==
    /\ \A t \in Tids : cv_pc[t] # "out" => t \in pool /\ ~finished[t]
    /\ \A c \in Conds : Distinct(cv_queue[c])
    /\ \A c, d \in Conds, t \in Tids :
          InQueue(cv_queue[c], t) /\ InQueue(cv_queue[d], t) => c = d
    /\ \A t \in Tids : Sleeping(t) <=> \E c \in Conds : InQueue(cv_queue[c], t)

CvInv == DetectorInv /\ WakeInv /\ CvPlaces /\ (meddled = 0 => CvCalm)

\* A step of CondVar is a step of Mutex, or one beside it.
LEMMA CvStepKinds == [CvNext]_all_vars => [Next]_vars \/ Beside
<1> SUFFICES ASSUME [CvNext]_all_vars PROVE [Next]_vars \/ Beside
  OBVIOUS
<1>1. CASE CvSched
  BY <1>1 DEF CvSched, CvBody, Next, SchedStep
<1>2. CASE WaitRelock
  BY <1>2 DEF WaitRelock, Next
<1>3. ASSUME NEW m \in Mutexes, CvLock(m) PROVE Next
  BY <1>3 DEF CvLock, Next
<1>4. ASSUME NEW m \in Mutexes, NEW c \in Conds, WaitRelease(c, m) PROVE Next
  BY <1>4 DEF WaitRelease, Next
<1>5. ASSUME NEW t \in Tids, CvMeddle(t) PROVE Next
  BY <1>5 DEF CvMeddle, Next
<1>6. CASE UNCHANGED all_vars
  BY <1>6 DEF all_vars
<1>7. QED
  BY <1>1, <1>2, <1>3, <1>4, <1>5, <1>6 DEF CvNext, Beside

\* broadcast wakes several threads at once, each as wakeThread would.
LEMMA BroadcastCoop ==
    ASSUME CoopInv, NEW c \in Conds, Broadcast(c)
    PROVE  CoopInv'
<1> DEFINE woken == {t \in pool : \E i \in 1..Len(cv_queue[c]) : cv_queue[c][i] = t}
<1>1. /\ UNCHANGED <<next_tid, pool, finished, ended, current, on_cpu>>
      /\ state' = [t \in Tids |-> IF t \in woken THEN AfterSetState(state[t], "READY")
                                                 ELSE state[t]]
      /\ self_woken' = self_woken \union {t \in woken : state[t] = "RUNNING"}
      /\ woken \subseteq pool
  BY DEF Broadcast, NotifyFrame
<1> HIDE DEF woken
<1> USE MaxThreadsAssumption DEF CoopInv, CoopTypeOK
<1>2. ASSUME NEW t \in Tids
      PROVE  /\ state'[t] \in ThreadState
             /\ t \in woken => t \in pool /\ state'[t] = IF state[t] \in {"RUNNING", "BLOCKED"}
                                                     THEN "READY" ELSE state[t]
             /\ t \notin woken => state'[t] = state[t]
             /\ t \in self_woken' <=> t \in self_woken \/ (t \in woken /\ state[t] = "RUNNING")
  <2>1. state[t] \in ThreadState
    OBVIOUS
  <2>2. QED
    BY <1>1, <2>1, SetStateTable DEF ThreadState
<1>3. CoopTypeOK'
  <2>1. state' \in [Tids -> ThreadState]
    BY <1>1, <1>2
  <2>2. self_woken' \in SUBSET Tids
    BY <1>1
  <2>3. QED
    BY <1>1, <2>1, <2>2
<1>4. OneRunning'
  BY <1>1, <1>2 DEF CoopSafety, OneRunning, Zombie
<1>5. CpuIsRunning'
  BY <1>1, <1>2 DEF CoopSafety, CpuIsRunning, NoThread
<1>6. EndedIsFinished'
  BY <1>1, <1>2 DEF CoopSafety, EndedIsFinished
<1>7. FreshTids'
  BY <1>1, <1>2 DEF FreshTids
<1>8. QED
  BY <1>3, <1>4, <1>5, <1>6, <1>7 DEF CoopSafety

\* The steps beside the mutexes keep the threads and the locks in order.
LEMMA BesideLock ==
    ASSUME LockInv, CvPlaces, Beside
    PROVE  LockInv' /\ UNCHANGED mutex_vars
<1>1. CoopInv /\ OwnersAgree /\ TypeOK
  BY DEF LockInv
<1>2. UNCHANGED mutex_vars
  BY DEF Beside, WaitBlock, Signal, Broadcast, NotifyFrame
<1>3. CoopInv'
  <2>1. CASE WaitBlock
    BY <1>1, <2>1, CoopNextInv DEF WaitBlock, CoopNext
  <2>2. ASSUME NEW c \in Conds, Signal(c) PROVE CoopInv'
    <3>1. CASE cv_queue[c] = << >>
      <4>1. UNCHANGED coop_vars
        BY <2>2, <3>1 DEF Signal, SignalEffect, NotifyFrame, coop_vars
      <4>2. QED
        BY <1>1, <4>1, CoopNextInv
    <3>2. CASE cv_queue[c] # << >>
      <4>1. Head(cv_queue[c]) \in Tids
        <5>1. cv_queue[c] \in Seq(Tids)
          BY DEF CvPlaces
        <5>2. QED
          BY <3>2, <5>1
      <4>2. WakeThread(Head(cv_queue[c]))
        BY <2>2, <3>2
           DEF Signal, SignalEffect, NotifyFrame, WakeThread, CvBody, InBody, ApiCallable
      <4>3. QED
        BY <1>1, <4>1, <4>2, CoopNextInv DEF CoopNext
    <3>3. QED
      BY <3>1, <3>2
  <2>3. ASSUME NEW c \in Conds, Broadcast(c) PROVE CoopInv'
    BY <1>1, <2>3, BroadcastCoop
  <2>4. QED
    BY <2>1, <2>2, <2>3 DEF Beside
<1>4. TypeOK'
  BY <1>1, <1>2, <1>3 DEF TypeOK, CoopInv, mutex_vars, lock_vars, graph_vars
<1>5. OwnersAgree'
  BY <1>1, <1>2 DEF OwnersAgree, mutex_vars, lock_vars
<1>6. QED
  BY <1>2, <1>3, <1>4, <1>5 DEF LockInv

\* They neither make nor break a deadlock.
LEMMA BesideDetector ==
    ASSUME DetectorInv, CvPlaces, Beside
    PROVE  DetectorInv' /\ \A K \in SUBSET Tids : Deadlocked(K)' <=> Deadlocked(K)
<1>1. LockInv' /\ UNCHANGED mutex_vars
  BY BesideLock DEF DetectorInv
<1>2. UNCHANGED <<owner, waiting, wait_edges, hold_edges, reported>>
  BY <1>1 DEF mutex_vars, lock_vars, graph_vars
<1>3. \A K \in SUBSET Tids : Deadlocked(K)' <=> Deadlocked(K)
  BY <1>2 DEF Deadlocked
<1>4. EdgesExact'
  BY <1>2 DEF DetectorInv, EdgesExact
<1>5. DetectorExact'
  BY <1>2, <1>3 DEF DetectorInv, DetectorExact
<1>6. QED
  BY <1>1, <1>3, <1>4, <1>5 DEF DetectorInv
\* Nobody is in wait() at first.
LEMMA InitCvInv == CvInit => CvInv
<1> SUFFICES ASSUME CvInit PROVE CvInv
  OBVIOUS
<1>1. DetectorInv /\ WakeInv
  BY InitDetectorInv, InitWakeInv DEF CvInit
<1>2. CvPlaces
  BY DEF CvInit, CvPlaces
<1>3. CvCalm
  BY DEF CvInit, CvCalm, Distinct, InQueue, Sleeping
<1>4. QED
  BY <1>1, <1>2, <1>3 DEF CvInv

\* No step but its own WaitBlock moves a thread that is about to block, and a
\* thread in wait() does not start to wait for a mutex.
LEMMA NextCvPlaces == LockInv /\ CvPlaces /\ [CvNext]_all_vars => CvPlaces'
<1> SUFFICES ASSUME LockInv, CvPlaces, [CvNext]_all_vars PROVE CvPlaces'
  OBVIOUS
<1>1. on_cpu => current \in Tids /\ current # NoThread
  BY DEF LockInv, CoopInv, CoopTypeOK
<1> USE MutexAssumption DEF CvPlaces, LockInv, TypeOK, CoopInv, CoopTypeOK
<1>2. CASE CvSched
  <2>1. UNCHANGED <<waiting, cv_queue, cv_mutex, cv_pc>>
    BY <1>2 DEF CvSched, mutex_vars, cv_vars
  <2>2. ASSUME NEW t \in Tids, cv_pc[t] = "block" PROVE on_cpu' /\ current' = t /\ ~ended'[t]
    <3>1. on_cpu /\ current = t /\ ~ended[t] /\ current # NoThread
      BY <1>1, <2>2
    <3>2. QED
      BY <1>2, <2>2, <3>1
         DEF CvSched, InMain, Dispatch, EndStep, CvBody, InBody, InThread, LinkReturn
  <2>3. QED
    BY <2>1, <2>2
<1>3. ASSUME NEW m \in Mutexes, LockFree(m) \/ LockBusy(m) \/ LockResume(m) \/ Unlock(m)
      PROVE  /\ \A t \in Tids : t # current => waiting'[t] = waiting[t]
             /\ ended' = ended /\ current' = current /\ current \in Tids
             /\ Unlock(m) => waiting' = waiting /\ on_cpu' = on_cpu
  BY <1>1, <1>3 DEF LockFree, LockBusy, LockResume, Unlock, Take, WaitFor, Block, coop_vars,
     InBody, InThread
<1>4. ASSUME NEW m \in Mutexes, CvLock(m) PROVE CvPlaces'
  <2>1. /\ UNCHANGED <<cv_queue, cv_mutex, cv_pc>>
        /\ LockFree(m) \/ LockBusy(m) \/ LockResume(m) \/ Unlock(m)
    BY <1>4 DEF CvLock, cv_vars
  <2>2. cv_pc[current] = "out"
    <3>1. CASE LockResume(m)
      <4>1. waiting[current] = m /\ current \in Tids
        BY <1>3, <3>1 DEF LockResume
      <4>2. QED
        BY <4>1
    <3>2. CASE ~LockResume(m)
      BY <1>4, <3>2 DEF CvLock, CvBody
    <3>3. QED
      BY <3>1, <3>2
  <2>3. \A t \in Tids : cv_pc[t] # "block"
    BY <2>2
  <2>4. QED
    BY <1>3, <2>1, <2>2, <2>3
<1>5. CASE WaitRelock
  <2>1. PICK m \in Mutexes : LockFree(m) \/ LockBusy(m)
    BY <1>5 DEF WaitRelock
  <2>2. /\ cv_pc[current] = "relock" /\ current \in Tids
        /\ cv_pc' = [cv_pc EXCEPT ![current] = "out"]
        /\ cv_mutex' = [cv_mutex EXCEPT ![current] = NoMutex] /\ cv_queue' = cv_queue
    BY <1>1, <1>5 DEF WaitRelock, InThread
  <2>3. \A t \in Tids : t # current => cv_pc[t] # "block"
    OBVIOUS
  <2>4. \A t \in Tids : t # current => waiting'[t] = waiting[t]
    BY <1>3, <2>1
  <2>5. \A t \in Tids : cv_pc'[t] = IF t = current THEN "out" ELSE cv_pc[t]
    BY <2>2
  <2>6. QED
    BY <2>2, <2>3, <2>4, <2>5
<1>6. ASSUME NEW m \in Mutexes, NEW c \in Conds, WaitRelease(c, m) PROVE CvPlaces'
  <2>1. /\ Unlock(m) /\ cv_queue' = [cv_queue EXCEPT ![c] = Append(@, current)]
        /\ cv_mutex' = [cv_mutex EXCEPT ![current] = m]
        /\ cv_pc' = [cv_pc EXCEPT ![current] = "block"]
    BY <1>6 DEF WaitRelease
  <2>2. /\ waiting' = waiting /\ UNCHANGED <<on_cpu, ended, current>> /\ current \in Tids
        /\ on_cpu /\ ~ended[current] /\ waiting[current] = NoMutex
        /\ cv_pc[current] = "out"
    BY <1>3, <1>6, <2>1 DEF Unlock, InBody, InThread, WaitRelease, CvBody
  <2>3. cv_queue' \in [Conds -> Seq(Tids)]
    <3>1. Append(cv_queue[c], current) \in Seq(Tids)
      BY <2>2
    <3>2. QED
      BY <2>1, <3>1
  <2>4. \A t \in Tids : cv_pc'[t] = IF t = current THEN "block" ELSE cv_pc[t]
    BY <2>1
  <2>5. QED
    BY <2>1, <2>2, <2>3, <2>4
<1>7. CASE WaitBlock
  <2>1. /\ cv_pc' = [cv_pc EXCEPT ![current] = "relock"] /\ cv_pc[current] = "block"
        /\ UNCHANGED <<waiting, cv_queue, cv_mutex>> /\ current \in Tids
    BY <1>1, <1>7 DEF WaitBlock, InThread, mutex_vars
  <2>2. \A t \in Tids : t # current => cv_pc[t] # "block"
    OBVIOUS
  <2>3. \A t \in Tids : cv_pc'[t] = IF t = current THEN "relock" ELSE cv_pc[t]
    BY <2>1
  <2>4. QED
    BY <2>1, <2>2, <2>3
<1>8. ASSUME NEW c \in Conds, Signal(c) \/ Broadcast(c) PROVE CvPlaces'
  <2>1. UNCHANGED <<waiting, cv_mutex, cv_pc, on_cpu, current, ended>>
    BY <1>8 DEF Signal, Broadcast, NotifyFrame, mutex_vars
  <2>2. cv_queue' \in [Conds -> Seq(Tids)]
    <3>1. CASE cv_queue' = cv_queue
      BY <3>1
    <3>2. CASE cv_queue[c] # << >> /\ cv_queue' = [cv_queue EXCEPT ![c] = Tail(@)]
      <4>1. Tail(cv_queue[c]) \in Seq(Tids)
        BY <3>2
      <4>2. QED
        BY <3>2, <4>1
    <3>3. CASE cv_queue' = [cv_queue EXCEPT ![c] = << >>]
      BY <3>3
    <3>4. QED
      BY <1>8, <3>1, <3>2, <3>3 DEF Signal, SignalEffect, Broadcast
  <2>3. QED
    BY <2>1, <2>2
<1>9. ASSUME NEW u \in Tids, CvMeddle(u) PROVE CvPlaces'
  <2>1. UNCHANGED <<waiting, cv_queue, cv_mutex, cv_pc>> /\ current = NoThread
    BY <1>9 DEF CvMeddle, Meddle, cv_vars, InMain
  <2>2. \A t \in Tids : cv_pc[t] # "block"
    BY <1>1, <2>1
  <2>3. QED
    BY <2>1, <2>2
<1>10. CASE UNCHANGED all_vars
  BY <1>10 DEF all_vars, vars, coop_vars, mutex_vars, cv_vars
<1>11. QED
  BY <1>2, <1>4, <1>5, <1>6, <1>7, <1>8, <1>9, <1>10 DEF CvNext
\* A thread that signal or broadcast finds in a queue is asleep in wait(): the
\* one that is still about to block would be running itself.
LEMMA QueuedIsAsleep ==
    ASSUME LockInv, CvPlaces, CvCalm, CvBody \/ InMain, NEW c \in Conds, NEW t \in Tids,
           InQueue(cv_queue[c], t)
    PROVE  cv_pc[t] = "relock" /\ state[t] = "BLOCKED" /\ waiting[t] = NoMutex /\ t \in pool
<1>1. Sleeping(t)
  BY DEF CvCalm
<1>2. cv_pc[t] # "block"
  <2>1. on_cpu => current # NoThread
    BY DEF LockInv, CoopInv, CoopTypeOK
  <2>2. QED
    BY <2>1 DEF CvPlaces, CvBody, InMain
<1>3. cv_pc[t] = "relock" /\ state[t] = "BLOCKED"
  BY <1>1, <1>2 DEF Sleeping
<1>4. QED
  BY <1>3 DEF CvPlaces, CvCalm

\* Steps that touch no mutex and move no thread that waits for one.
LEMMA CalmKept ==
    ASSUME LockInv, Calm, UNCHANGED <<mutex_vars, pool, finished, current, self_woken>>,
           \A t \in Tids : waiting[t] # NoMutex => state'[t] = state[t]
    PROVE  Calm'
<1>1. UNCHANGED <<locked, wait_queue, waiting>>
  BY DEF mutex_vars, lock_vars
<1>2. ASSUME NEW m \in Mutexes PROVE QueueOf(m)'
  BY <1>1, MutexAssumption DEF Calm, QueueOf
<1>3. ASSUME NEW m \in Mutexes PROVE WokenFor(m)'
  <2>1. \A t \in pool : t \in Tids
    BY DEF LockInv, CoopInv, CoopTypeOK
  <2>2. QED
    BY <1>1, <2>1, MutexAssumption DEF Calm, WokenFor
<1>4. QED
  BY <1>1, <1>2, <1>3 DEF Calm

\* What signal and broadcast do when the menu does not interfere: each thread
\* they take from the queue was asleep, and becomes READY.
LEMMA NotifyFacts ==
    ASSUME LockInv, Calm, CvPlaces, CvCalm, NEW c \in Conds, Signal(c) \/ Broadcast(c)
    PROVE  \E W \in SUBSET Tids :
              /\ \A t \in W : cv_pc[t] = "relock" /\ waiting[t] = NoMutex
              /\ \A t \in Tids : /\ t \in W => state'[t] = "READY" /\ InQueue(cv_queue[c], t)
                                 /\ t \notin W => state'[t] = state[t]
              /\ self_woken' = self_woken
              /\ \E q \in Seq(Tids) :
                    /\ cv_queue' = [cv_queue EXCEPT ![c] = q] /\ Distinct(q)
                    /\ \A t \in Tids : InQueue(q, t) <=> InQueue(cv_queue[c], t) /\ t \notin W
<1> USE DEF LockInv, TypeOK, CoopInv, CoopTypeOK
<1>1. /\ cv_queue \in [Conds -> Seq(Tids)] /\ cv_queue[c] \in Seq(Tids)
      /\ Distinct(cv_queue[c]) /\ (CvBody \/ InMain)
  BY DEF CvPlaces, CvCalm, Signal, Broadcast
<1>2. ASSUME NEW t \in Tids, InQueue(cv_queue[c], t)
      PROVE  /\ cv_pc[t] = "relock" /\ state[t] = "BLOCKED" /\ waiting[t] = NoMutex
             /\ t \in pool /\ AfterSetState(state[t], "READY") = "READY"
  <2>1. cv_pc[t] = "relock" /\ state[t] = "BLOCKED" /\ waiting[t] = NoMutex /\ t \in pool
    BY <1>1, <1>2, QueuedIsAsleep
  <2>2. QED
    BY <2>1, SetStateTable DEF ThreadState
<1> DEFINE Goal(W, q) ==
               /\ \A t \in W : cv_pc[t] = "relock" /\ waiting[t] = NoMutex
               /\ \A t \in Tids : /\ t \in W => state'[t] = "READY" /\ InQueue(cv_queue[c], t)
                                  /\ t \notin W => state'[t] = state[t]
               /\ self_woken' = self_woken
               /\ cv_queue' = [cv_queue EXCEPT ![c] = q] /\ Distinct(q)
               /\ \A t \in Tids : InQueue(q, t) <=> InQueue(cv_queue[c], t) /\ t \notin W
<1>3. CASE Signal(c) /\ cv_queue[c] = << >>
  <2>1. UNCHANGED <<cv_queue, state, self_woken>>
    BY <1>3 DEF Signal, SignalEffect
  <2>2. cv_queue' = [cv_queue EXCEPT ![c] = cv_queue[c]]
    BY <1>1, <2>1
  <2>3. Goal({}, cv_queue[c])
    BY <1>1, <2>1, <2>2
  <2>4. {} \in SUBSET Tids
    OBVIOUS
  <2>5. QED
    BY <1>1, <2>3, <2>4
<1>4. CASE Signal(c) /\ cv_queue[c] # << >>
  <2> DEFINE h == Head(cv_queue[c])
             q == Tail(cv_queue[c])
  <2>1. /\ InQueue(cv_queue[c], h) /\ h \in Tids /\ Distinct(q)
        /\ \A u \in Tids : InQueue(q, u) <=> InQueue(cv_queue[c], u) /\ u # h
    <3> DEFINE p == cv_queue[c]
    <3>1. p \in Seq(Tids) /\ p # << >> /\ Distinct(p)
      BY <1>1, <1>4
    <3> HIDE DEF p
    <3>2. /\ InQueue(p, Head(p)) /\ Head(p) \in Tids /\ Distinct(Tail(p))
          /\ \A u \in Tids : InQueue(Tail(p), u) <=> InQueue(p, u) /\ u # Head(p)
      BY <3>1, PopFacts
    <3>3. QED
      BY <3>2 DEF p
  <2>2. q \in Seq(Tids)
    BY <1>1, <1>4
  <2>3. cv_queue' = [cv_queue EXCEPT ![c] = q] /\ WakeEffect(h)
    BY <1>4 DEF Signal, SignalEffect
  <2> HIDE DEF h, q
  <2>4. /\ cv_pc[h] = "relock" /\ state[h] = "BLOCKED" /\ waiting[h] = NoMutex
        /\ h \in pool /\ AfterSetState(state[h], "READY") = "READY"
    BY <1>2, <2>1
  <2>5. state' = [state EXCEPT ![h] = "READY"] /\ self_woken' = self_woken
    BY <2>3, <2>4 DEF WakeEffect
  <2>6. \A t \in Tids : state'[t] = IF t = h THEN "READY" ELSE state[t]
    BY <2>5
  <2>7. Goal({h}, q)
    BY <2>1, <2>3, <2>4, <2>5, <2>6
  <2>8. {h} \in SUBSET Tids
    BY <2>1
  <2> HIDE DEF Goal
  <2>9. QED
    BY <2>2, <2>7, <2>8 DEF Goal
<1>5. CASE Broadcast(c)
  <2> DEFINE W == {t \in pool : \E i \in 1..Len(cv_queue[c]) : cv_queue[c][i] = t}
  <2>1. /\ state' = [t \in Tids |-> IF t \in W THEN AfterSetState(state[t], "READY")
                                              ELSE state[t]]
        /\ self_woken' = self_woken \union {t \in W : state[t] = "RUNNING"}
        /\ cv_queue' = [cv_queue EXCEPT ![c] = << >>]
    BY <1>5 DEF Broadcast
  <2>2. \A t \in Tids : t \in W <=> InQueue(cv_queue[c], t)
    BY <1>2 DEF InQueue
  <2>3. W \in SUBSET Tids
    OBVIOUS
  <2> HIDE DEF W
  <2>4. \A t \in W : /\ cv_pc[t] = "relock" /\ waiting[t] = NoMutex /\ state[t] = "BLOCKED"
                     /\ AfterSetState(state[t], "READY") = "READY"
    BY <1>2, <2>2, <2>3
  <2>5. self_woken' = self_woken
    BY <2>1, <2>4
  <2>6. \A t \in Tids : /\ t \in W => state'[t] = "READY" /\ InQueue(cv_queue[c], t)
                        /\ t \notin W => state'[t] = state[t]
    BY <2>1, <2>2, <2>4
  <2>7. Distinct(<< >>) /\ << >> \in Seq(Tids) /\ \A t \in Tids : ~InQueue(<< >>, t)
    BY DEF Distinct, InQueue
  <2>8. Goal(W, << >>)
    BY <2>1, <2>2, <2>4, <2>5, <2>6, <2>7
  <2> HIDE DEF Goal
  <2>9. QED
    BY <2>3, <2>7, <2>8 DEF Goal
<1>6. QED
  BY <1>3, <1>4, <1>5

\* Without interference, signal, broadcast and wait leave the mutexes' waiters
\* as they are.
LEMMA BesideCalm ==
    ASSUME LockInv, Calm, CvPlaces, CvCalm, Beside
    PROVE  Calm'
<1>0. ASSUME NEW c \in Conds, Signal(c) \/ Broadcast(c)
      PROVE  \E W \in SUBSET Tids :
                /\ \A t \in W : cv_pc[t] = "relock" /\ waiting[t] = NoMutex
                /\ \A t \in Tids : /\ t \in W => state'[t] = "READY"
                                   /\ t \notin W => state'[t] = state[t]
                /\ self_woken' = self_woken
  <2>1. PICK W \in SUBSET Tids :
              /\ \A t \in W : cv_pc[t] = "relock" /\ waiting[t] = NoMutex
              /\ \A t \in Tids : /\ t \in W => state'[t] = "READY" /\ InQueue(cv_queue[c], t)
                                 /\ t \notin W => state'[t] = state[t]
              /\ self_woken' = self_woken
              /\ \E q \in Seq(Tids) :
                    /\ cv_queue' = [cv_queue EXCEPT ![c] = q] /\ Distinct(q)
                    /\ \A t \in Tids : InQueue(q, t) <=> InQueue(cv_queue[c], t) /\ t \notin W
    BY <1>0, NotifyFacts, Zenon
  <2>2. QED
    BY <2>1
<1> USE DEF LockInv, TypeOK, CoopInv, CoopTypeOK
<1>1. CASE WaitBlock
  <2>1. /\ UNCHANGED <<mutex_vars, pool, finished, current, self_woken>>
        /\ state' = [state EXCEPT ![current] = AfterSetState(@, "BLOCKED")]
        /\ cv_pc[current] = "block" /\ current \in Tids
    BY <1>1 DEF WaitBlock, Block, InThread
  <2>2. waiting[current] = NoMutex
    BY <2>1 DEF CvPlaces
  <2>3. \A t \in Tids : waiting[t] # NoMutex => state'[t] = state[t]
    BY <2>1, <2>2
  <2>4. QED
    BY <2>1, <2>3, CalmKept
<1>2. ASSUME NEW c \in Conds, Signal(c) \/ Broadcast(c) PROVE Calm'
  <2>1. PICK W \in SUBSET Tids :
            /\ \A t \in W : waiting[t] = NoMutex
            /\ \A t \in Tids : t \notin W => state'[t] = state[t]
            /\ self_woken' = self_woken
    BY <1>0, <1>2
  <2>2. UNCHANGED <<mutex_vars, pool, finished, current>>
    BY <1>2 DEF Signal, Broadcast, NotifyFrame
  <2>3. QED
    BY <2>1, <2>2, CalmKept
<1>3. QED
  BY <1>1, <1>2 DEF Beside

\* What a call of the mutexes does to the threads in wait(): nothing.
LEMMA LockSteps ==
    ASSUME LockInv, Calm, CvPlaces, NEW m \in Mutexes,
           LockFree(m) \/ LockBusy(m) \/ LockResume(m) \/ Unlock(m)
    PROVE  /\ UNCHANGED <<pool, finished, current>>
           /\ current \in Tids /\ state[current] = "RUNNING" /\ current \in pool
           /\ ~finished[current]
           /\ \A t \in Tids : t # current /\ cv_pc[t] # "out" => state'[t] = state[t]
           /\ Unlock(m) => state'[current] = state[current]
<1> USE DEF LockInv, TypeOK, CoopInv, CoopTypeOK
<1>1. InThread /\ current \in Tids
  BY DEF LockFree, LockBusy, LockResume, Unlock, InBody, InThread
<1>2. state[current] = "RUNNING"
  BY <1>1 DEF Calm, CoopSafety, CpuIsRunning, InThread
<1>3. current \in pool /\ ~finished[current]
  BY <1>1, <1>2 DEF Calm, CoopSafety, EndedIsFinished, NoThread, Tids
<1>4. UNCHANGED <<pool, finished, current>>
  BY DEF LockFree, LockBusy, LockResume, Unlock, Take, WaitFor, Block, coop_vars
<1>5. ASSUME NEW t \in Tids, cv_pc[t] # "out" \/ t = current, Unlock(m)
      PROVE  state'[t] = state[t]
  <2>1. CASE wait_queue[m] = << >>
    BY <1>5, <2>1 DEF Unlock, WakeFirst
  <2>2. CASE wait_queue[m] # << >>
    <3> DEFINE h == Head(wait_queue[m])
    <3>1. h \in Tids /\ InQueue(wait_queue[m], h)
      BY <2>2, PopFacts DEF Calm, QueueOf
    <3>2. WakeEffect(h)
      BY <1>5, <2>2 DEF Unlock, WakeFirst
    <3> HIDE DEF h
    <3>3. waiting[h] = m /\ state[h] = "BLOCKED"
      BY <3>1 DEF Calm, QueueOf
    <3>4. h # t
      BY <1>2, <1>5, <3>3, MutexAssumption DEF CvPlaces
    <3>5. QED
      BY <3>1, <3>2, <3>4 DEF WakeEffect
  <2>3. QED
    BY <2>1, <2>2
<1>6. ASSUME NEW t \in Tids, t # current, ~Unlock(m) PROVE state'[t] = state[t]
  BY <1>6 DEF LockFree, LockBusy, LockResume, Take, WaitFor, Block, coop_vars
<1>7. QED
  BY <1>1, <1>2, <1>3, <1>4, <1>5, <1>6

\* Steps that leave the condition variables and the threads in wait() alone.
LEMMA CvCalmKept ==
    ASSUME CvCalm, UNCHANGED cv_vars,
           \A t \in Tids : cv_pc[t] # "out" =>
               /\ (t \in pool => t \in pool') /\ (finished'[t] <=> finished[t])
               /\ (state'[t] = "BLOCKED" <=> state[t] = "BLOCKED")
    PROVE  CvCalm'
<1>1. UNCHANGED <<cv_queue, cv_pc>>
  BY DEF cv_vars
<1>2. \A t \in Tids : Sleeping(t)' <=> Sleeping(t)
  BY <1>1 DEF Sleeping
<1>3. QED
  BY <1>1, <1>2 DEF CvCalm

\* The scheduler moves no sleeping thread, and no thread returns inside wait().
LEMMA CvSchedCalm ==
    ASSUME LockInv, Calm, CvPlaces, CvCalm, CvSched
    PROVE  CvCalm'
<1> USE DEF LockInv, TypeOK, CoopInv, CoopTypeOK
<1>1. UNCHANGED cv_vars
  BY DEF CvSched
<1>2. on_cpu => current \in Tids /\ state[current] = "RUNNING"
  BY DEF Calm, CoopSafety, CpuIsRunning
<1> DEFINE Kept(t) ==
      /\ (t \in pool => t \in pool') /\ (finished'[t] <=> finished[t])
      /\ (state'[t] = "BLOCKED" <=> state[t] = "BLOCKED")
<1>3. SUFFICES ASSUME NEW t \in Tids, cv_pc[t] # "out" PROVE Kept(t)
  BY <1>1, CvCalmKept
<1>4. CASE InMain /\ CreateThread
  <2>1. t # next_tid
    <3>1. t \in pool
      BY <1>3 DEF CvCalm
    <3>2. QED
      BY <1>4, <3>1, MaxThreadsAssumption DEF FreshTids, CreateThread, Tids
  <2>2. /\ pool' = pool \union {next_tid}
        /\ state' = [state EXCEPT ![next_tid] = "READY"]
        /\ finished' = [finished EXCEPT ![next_tid] = FALSE]
    BY <1>4 DEF CreateThread
  <2>3. QED
    BY <2>1, <2>2
<1>5. ASSUME NEW u \in Tids, Dispatch(u) PROVE Kept(t)
  BY <1>5, SetStateTable DEF Dispatch
<1>6. CASE CvBody /\ (Yield \/ Return)
  <2>1. t # current
    BY <1>3, <1>6 DEF CvBody
  <2>2. QED
    BY <1>6, <2>1 DEF Yield, Return, ExitCurrent
<1>7. CASE EndStep \/ LinkReturn
  BY <1>7 DEF EndStep, LinkReturn
<1>8. QED
  BY <1>4, <1>5, <1>6, <1>7 DEF CvSched

\* The calls of lock, tryLock and unlock outside wait().
LEMMA CvLockCalm ==
    ASSUME LockInv, Calm, CvPlaces, CvCalm, NEW m \in Mutexes, CvLock(m)
    PROVE  CvCalm'
<1>1. /\ LockFree(m) \/ LockBusy(m) \/ LockResume(m) \/ Unlock(m)
      /\ UNCHANGED cv_vars
  BY DEF CvLock
<1>2. /\ UNCHANGED <<pool, finished>> /\ current \in Tids
      /\ \A t \in Tids : t # current /\ cv_pc[t] # "out" => state'[t] = state[t]
  BY <1>1, LockSteps
<1>3. cv_pc[current] = "out"
  <2>1. CASE LockResume(m)
    <3>1. waiting[current] = m
      BY <2>1 DEF LockResume
    <3>2. QED
      BY <1>2, <3>1, MutexAssumption DEF CvPlaces
  <2>2. CASE ~LockResume(m)
    BY <2>2 DEF CvLock, CvBody
  <2>3. QED
    BY <2>1, <2>2
<1>4. QED
  BY <1>1, <1>2, <1>3, CvCalmKept

\* wait() queues up the thread that it is about to put to sleep.
LEMMA WaitReleaseCalm ==
    ASSUME LockInv, Calm, CvPlaces, CvCalm,
           NEW m \in Mutexes, NEW c \in Conds, WaitRelease(c, m)
    PROVE  CvCalm'
<1>1. /\ Unlock(m) /\ cv_queue' = [cv_queue EXCEPT ![c] = Append(@, current)]
      /\ cv_pc' = [cv_pc EXCEPT ![current] = "block"] /\ cv_pc[current] = "out"
  BY DEF WaitRelease, CvBody
<1>2. /\ UNCHANGED <<pool, finished>> /\ current \in Tids /\ current \in pool
      /\ ~finished[current]
      /\ \A t \in Tids : cv_pc[t] # "out" => state'[t] = state[t]
  BY <1>1, LockSteps
<1>3. /\ cv_queue \in [Conds -> Seq(Tids)] /\ cv_pc \in [Tids -> {"out", "block", "relock"}]
      /\ cv_queue[c] \in Seq(Tids) /\ Distinct(cv_queue[c])
  BY DEF CvPlaces, CvCalm
<1>4. \A d \in Conds : ~InQueue(cv_queue[d], current)
  BY <1>1, <1>2 DEF CvCalm, Sleeping
<1>5. /\ Distinct(cv_queue'[c])
      /\ \A t \in Tids : InQueue(cv_queue'[c], t) <=> InQueue(cv_queue[c], t) \/ t = current
  <2> DEFINE p == cv_queue[c]
  <2>1. p \in Seq(Tids) /\ Distinct(p) /\ ~InQueue(p, current)
    BY <1>3, <1>4
  <2>2. cv_queue'[c] = Append(p, current)
    BY <1>1, <1>3
  <2> HIDE DEF p
  <2>3. /\ Distinct(Append(p, current))
        /\ \A t \in Tids : InQueue(Append(p, current), t) <=> InQueue(p, t) \/ t = current
    BY <1>2, <2>1, PushFacts
  <2>4. QED
    BY <2>2, <2>3 DEF p
<1>6. \A d \in Conds : d # c => cv_queue'[d] = cv_queue[d]
  BY <1>1, <1>3
<1>7. \A t \in Tids : cv_pc'[t] = IF t = current THEN "block" ELSE cv_pc[t]
  BY <1>1, <1>3
<1>8. \A t \in Tids : Sleeping(t)' <=> Sleeping(t) \/ t = current
  BY <1>1, <1>2, <1>7 DEF Sleeping
<1>9. \A d \in Conds, t \in Tids :
          InQueue(cv_queue'[d], t) <=> InQueue(cv_queue[d], t) \/ (d = c /\ t = current)
  BY <1>5, <1>6
<1> USE DEF CvCalm
<1>10. \A t \in Tids : cv_pc'[t] # "out" => t \in pool' /\ ~finished'[t]
  BY <1>2, <1>7
<1>11. \A d \in Conds : Distinct(cv_queue'[d])
  BY <1>5, <1>6
<1>12. \A d, e \in Conds, t \in Tids :
           InQueue(cv_queue'[d], t) /\ InQueue(cv_queue'[e], t) => d = e
  BY <1>4, <1>9
<1>13. \A t \in Tids : Sleeping(t)' <=> \E d \in Conds : InQueue(cv_queue'[d], t)
  BY <1>8, <1>9
<1>14. QED
  BY <1>10, <1>11, <1>12, <1>13

\* Back from wait(): the thread is awake and in no queue.
LEMMA WaitRelockCalm ==
    ASSUME LockInv, Calm, CvPlaces, CvCalm, WaitRelock
    PROVE  CvCalm'
<1>1. PICK m \in Mutexes : LockFree(m) \/ LockBusy(m)
  BY DEF WaitRelock
<1>2. /\ cv_pc' = [cv_pc EXCEPT ![current] = "out"] /\ cv_queue' = cv_queue
      /\ cv_pc[current] = "relock"
  BY DEF WaitRelock
<1>3. /\ UNCHANGED <<pool, finished>> /\ current \in Tids /\ state[current] = "RUNNING"
      /\ \A t \in Tids : t # current /\ cv_pc[t] # "out" => state'[t] = state[t]
  BY <1>1, LockSteps
<1>4. \A t \in Tids : cv_pc'[t] = IF t = current THEN "out" ELSE cv_pc[t]
  BY <1>2 DEF CvPlaces
<1>5. \A t \in Tids : Sleeping(t)' <=> Sleeping(t)
  BY <1>2, <1>3, <1>4 DEF Sleeping
<1>6. \A t \in Tids : cv_pc'[t] # "out" => t \in pool' /\ ~finished'[t]
  BY <1>3, <1>4 DEF CvCalm
<1>7. QED
  BY <1>2, <1>5, <1>6 DEF CvCalm

\* wait() puts to sleep the thread that it has queued.
LEMMA WaitBlockCalm ==
    ASSUME LockInv, Calm, CvPlaces, CvCalm, WaitBlock
    PROVE  CvCalm'
<1> USE DEF LockInv, TypeOK, CoopInv, CoopTypeOK
<1>1. /\ cv_pc' = [cv_pc EXCEPT ![current] = "relock"] /\ cv_queue' = cv_queue
      /\ cv_pc[current] = "block" /\ current \in Tids /\ on_cpu
      /\ UNCHANGED <<pool, finished>>
      /\ state' = [state EXCEPT ![current] = AfterSetState(@, "BLOCKED")]
  BY DEF WaitBlock, Block, InThread
<1>2. state[current] = "RUNNING"
  BY <1>1 DEF Calm, CoopSafety, CpuIsRunning
<1>3. \A t \in Tids : state'[t] = IF t = current THEN "BLOCKED" ELSE state[t]
  BY <1>1, <1>2, SetStateTable DEF ThreadState
<1>4. \A t \in Tids : cv_pc'[t] = IF t = current THEN "relock" ELSE cv_pc[t]
  BY <1>1 DEF CvPlaces
<1>5. \A t \in Tids : Sleeping(t)' <=> Sleeping(t)
  BY <1>1, <1>3, <1>4 DEF Sleeping
<1>6. \A t \in Tids : cv_pc'[t] # "out" => t \in pool' /\ ~finished'[t]
  BY <1>1, <1>4 DEF CvCalm
<1>7. QED
  BY <1>1, <1>5, <1>6 DEF CvCalm

\* signal and broadcast take from the queue the threads that they wake.
LEMMA NotifyCalm ==
    ASSUME LockInv, Calm, CvPlaces, CvCalm, NEW c \in Conds, Signal(c) \/ Broadcast(c)
    PROVE  CvCalm'
<1>1. PICK W \in SUBSET Tids :
          /\ \A t \in W : cv_pc[t] = "relock" /\ waiting[t] = NoMutex
          /\ \A t \in Tids : /\ t \in W => state'[t] = "READY" /\ InQueue(cv_queue[c], t)
                             /\ t \notin W => state'[t] = state[t]
          /\ \E q \in Seq(Tids) :
                /\ cv_queue' = [cv_queue EXCEPT ![c] = q] /\ Distinct(q)
                /\ \A t \in Tids : InQueue(q, t) <=> InQueue(cv_queue[c], t) /\ t \notin W
  BY NotifyFacts
<1>2. PICK q \in Seq(Tids) :
          /\ cv_queue' = [cv_queue EXCEPT ![c] = q] /\ Distinct(q)
          /\ \A t \in Tids : InQueue(q, t) <=> InQueue(cv_queue[c], t) /\ t \notin W
  BY <1>1
<1>3. UNCHANGED <<cv_pc, pool, finished>>
  BY DEF Signal, Broadcast, NotifyFrame
<1>4. cv_queue'[c] = q /\ \A d \in Conds : d # c => cv_queue'[d] = cv_queue[d]
  BY <1>2 DEF CvPlaces
<1> USE DEF CvCalm
<1>5. \A d \in Conds, t \in Tids :
          InQueue(cv_queue'[d], t) <=> (InQueue(cv_queue[d], t) /\ t \notin W)
  <2>1. ASSUME NEW t \in Tids
        PROVE  InQueue(cv_queue'[c], t) <=> (InQueue(cv_queue[c], t) /\ t \notin W)
    BY <1>2, <1>4
  <2>2. ASSUME NEW d \in Conds, d # c, NEW t \in Tids
        PROVE  InQueue(cv_queue'[d], t) <=> (InQueue(cv_queue[d], t) /\ t \notin W)
    <3>1. cv_queue'[d] = cv_queue[d]
      BY <1>4, <2>2
    <3>2. t \in W => ~InQueue(cv_queue[d], t)
      BY <1>1, <2>2
    <3>3. QED
      BY <3>1, <3>2
  <2>3. QED
    BY <2>1, <2>2
<1>6. \A t \in Tids : Sleeping(t)' <=> Sleeping(t) /\ t \notin W
  <2>1. ASSUME NEW t \in W PROVE ~Sleeping(t)'
    BY <1>1, <1>3 DEF Sleeping
  <2>2. ASSUME NEW t \in Tids, t \notin W PROVE Sleeping(t)' <=> Sleeping(t)
    <3>1. state'[t] = state[t] /\ cv_pc' = cv_pc
      BY <1>1, <1>3, <2>2
    <3>2. QED
      BY <3>1 DEF Sleeping
  <2>3. QED
    BY <2>1, <2>2
<1>7. \A d \in Conds : Distinct(cv_queue'[d])
  BY <1>2, <1>4
<1>8. \A d, e \in Conds, t \in Tids :
          InQueue(cv_queue'[d], t) /\ InQueue(cv_queue'[e], t) => d = e
  BY <1>5
<1>9. \A t \in Tids : Sleeping(t)' <=> \E d \in Conds : InQueue(cv_queue'[d], t)
  BY <1>5, <1>6
<1>10. QED
  BY <1>3, <1>7, <1>8, <1>9

\* The account of calls from the menu never goes down.
LEMMA MeddledStays == ASSUME CvInv, [CvNext]_all_vars, meddled' = 0 PROVE meddled = 0
<1>1. WakeInv /\ CvPlaces /\ LockInv
  BY DEF CvInv, WakeInv
<1>2. [Next]_vars \/ Beside
  BY CvStepKinds
<1>3. ASSUME NEW t \in Tids, Meddle(t) PROVE meddled' # 0
  BY <1>1, <1>3 DEF Meddle, LockInv, TypeOK
<1>4. CASE Beside
  BY <1>1, <1>4, BesideLock DEF mutex_vars
<1>5. CASE [Next]_vars
  <2>1. CASE SchedStep \/ UNCHANGED vars
    BY <2>1 DEF SchedStep, vars, mutex_vars
  <2>2. ASSUME NEW m \in Mutexes, LockFree(m) \/ LockBusy(m) \/ LockResume(m) \/ Unlock(m)
        PROVE  meddled' = meddled
    BY <2>2 DEF LockFree, LockBusy, LockResume, Unlock, Take, WaitFor
  <2>3. QED
    BY <1>3, <1>5, <2>1, <2>2 DEF Next
<1>6. QED
  BY <1>2, <1>4, <1>5

\* The invariant of mutexes and condition variables together.
LEMMA NextCvInv == CvInv /\ [CvNext]_all_vars => CvInv'
<1> SUFFICES ASSUME CvInv, [CvNext]_all_vars PROVE CvInv'
  OBVIOUS
<1>1. DetectorInv /\ WakeInv /\ CvPlaces /\ LockInv /\ (meddled = 0 => Calm /\ CvCalm)
  BY DEF CvInv, WakeInv
<1>2. CvPlaces'
  BY <1>1, NextCvPlaces
<1>3. [Next]_vars \/ Beside
  BY CvStepKinds
<1>4. DetectorInv'
  BY <1>1, <1>3, NextDetectorInv, BesideDetector
<1>5. meddled' = 0 => meddled = 0
  BY MeddledStays
<1>6. WakeInv'
  <2>1. CASE [Next]_vars
    BY <1>1, <2>1, NextWakeInv
  <2>2. CASE Beside
    <3>1. LockInv'
      BY <1>1, <2>2, BesideLock
    <3>2. meddled' = 0 => Calm'
      BY <1>1, <1>5, <2>2, BesideCalm
    <3>3. QED
      BY <3>1, <3>2 DEF WakeInv
  <2>3. QED
    BY <1>3, <2>1, <2>2
<1>7. ASSUME meddled' = 0 PROVE CvCalm'
  <2>1. Calm /\ CvCalm
    BY <1>1, <1>5, <1>7
  <2>2. CASE CvSched
    BY <1>1, <2>1, <2>2, CvSchedCalm
  <2>3. CASE WaitBlock
    BY <1>1, <2>1, <2>3, WaitBlockCalm
  <2>4. CASE WaitRelock
    BY <1>1, <2>1, <2>4, WaitRelockCalm
  <2>5. ASSUME NEW m \in Mutexes, CvLock(m) PROVE CvCalm'
    BY <1>1, <2>1, <2>5, CvLockCalm
  <2>6. ASSUME NEW m \in Mutexes, NEW c \in Conds, WaitRelease(c, m) PROVE CvCalm'
    BY <1>1, <2>1, <2>6, WaitReleaseCalm
  <2>7. ASSUME NEW c \in Conds, Signal(c) \/ Broadcast(c) PROVE CvCalm'
    BY <1>1, <2>1, <2>7, NotifyCalm
  <2>8. ASSUME NEW t \in Tids, CvMeddle(t) PROVE FALSE
    BY <1>1, <1>7, <2>8 DEF CvMeddle, Meddle, LockInv, TypeOK
  <2>9. CASE UNCHANGED all_vars
    <3>1. UNCHANGED cv_vars /\ UNCHANGED <<pool, finished, state>>
      BY <2>9 DEF all_vars, vars, coop_vars
    <3>2. QED
      BY <2>1, <3>1, CvCalmKept
  <2>10. QED
    BY <2>2, <2>3, <2>4, <2>5, <2>6, <2>7, <2>8, <2>9 DEF CvNext
<1>8. QED
  BY <1>2, <1>4, <1>6, <1>7 DEF CvInv

\* Mutexes, detector and condition variables are in order in every state.
THEOREM CvInvariant == CvSpec => []CvInv
BY InitCvInv, NextCvInv, PTL DEF CvSpec

\* What the invariant says of the properties of Mutex and CondVar.
LEMMA CvPromises ==
    CvInv => /\ TypeOK /\ MutualExclusion /\ DetectorExact /\ NoLostWakeup /\ QueueIsBlocked
             /\ CvQueueIsAsleep
<1>1. CvInv => TypeOK /\ MutualExclusion /\ DetectorExact
  BY DEF CvInv, DetectorInv, LockInv, OwnersAgree, MutualExclusion, TypeOK
<1>2. WakeInv => NoLostWakeup
  BY DEF WakeInv, Calm, WokenFor, NoLostWakeup
<1>3. WakeInv => QueueIsBlocked
  BY DEF WakeInv, Calm, QueueOf, Distinct, InQueue, QueueIsBlocked
<1>4. CvInv => CvQueueIsAsleep
  <2>1. SUFFICES ASSUME CvPlaces, CvCalm
                 PROVE  CvQueueIsAsleep
    BY DEF CvInv, CvQueueIsAsleep
  <2>2. ASSUME NEW c \in Conds, NEW d \in Conds,
               NEW i \in 1..Len(cv_queue[c]), NEW j \in 1..Len(cv_queue[d]),
               cv_queue[c][i] = cv_queue[d][j]
        PROVE  c = d /\ i = j
    <3>1. cv_queue[c][i] \in Tids
      <4>1. cv_queue[c] \in Seq(Tids)
        BY <2>1 DEF CvPlaces
      <4>2. QED
        BY <4>1
    <3>2. c = d
      BY <2>1, <2>2, <3>1 DEF CvCalm, InQueue
    <3>3. QED
      BY <2>1, <2>2, <3>2 DEF CvCalm, Distinct
  <2>3. \A t \in Tids : Sleeping(t) <=> \E c \in Conds : InQueue(cv_queue[c], t)
    BY <2>1 DEF CvCalm
  <2>4. QED
    BY <2>2, <2>3 DEF CvQueueIsAsleep, InQueue
<1>5. QED
  BY <1>1, <1>2, <1>3, <1>4 DEF CvInv

\* As long as nobody meddles, the queues of the condition variables hold exactly
\* the threads asleep in wait(), each in one queue and once: no signal is spent
\* on a thread that is not there (wait, signal and broadcast).
THEOREM CvQueuesAreAsleep == CvSpec => []CvQueueIsAsleep
BY CvInvariant, CvPromises, PTL

\* What Mutex promises still holds when threads use condition variables too.
THEOREM CvMutexes ==
    CvSpec => [](TypeOK /\ MutualExclusion /\ DetectorExact /\ NoLostWakeup /\ QueueIsBlocked)
BY CvInvariant, CvPromises, PTL

\* Signals and broadcasts get no thread out of a deadlock either.
THEOREM CvDeadlockForEver == CvSpec => DeadlockIsStable
<1>1. CvInv /\ [CvNext]_all_vars => KeepsDeadlocks
  <2>1. SUFFICES ASSUME CvInv, [CvNext]_all_vars, NEW K \in SUBSET Tids, Deadlocked(K)
                 PROVE  Deadlocked(K)'
    BY DEF KeepsDeadlocks
  <2>2. QED
    BY <2>1, CvStepKinds, DeadlockedStep, BesideDetector DEF CvInv
<1>2. UNCHANGED all_vars => UNCHANGED vars
  BY DEF all_vars
<1>3. QED
  BY <1>1, <1>2, CvInvariant, PTL DEF CvSpec, DeadlockIsStable
=============================================================================
