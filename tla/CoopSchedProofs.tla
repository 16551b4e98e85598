-------------------------- MODULE CoopSchedProofs --------------------------
(***************************************************************************)
(* Proofs about CoopSched, for any number of threads.  The invariant that  *)
(* is inductive joins the type invariant, the three safety invariants and  *)
(* FreshTids: EndedIsFinished says that a thread about to leave through    *)
(* uc_link is a zombie, which OneRunning needs, and FreshTids says that    *)
(* createThread overwrites the record of no earlier thread.                *)
(***************************************************************************)
EXTENDS CoopSched, Sequences, FiniteSetTheorems, TLAPS

\* What TCB::setState makes of each request, state by state.
LEMMA SetStateTable ==
    ASSUME NEW s \in ThreadState
    PROVE  /\ AfterSetState(s, "READY") =
                IF s \in {"RUNNING", "BLOCKED"} THEN "READY" ELSE s
           /\ AfterSetState(s, "RUNNING") = IF s = "READY" THEN "RUNNING" ELSE s
           /\ AfterSetState(s, "BLOCKED") = IF s = "RUNNING" THEN "BLOCKED" ELSE s
           /\ AfterSetState(s, "FINISHED") = IF s = "RUNNING" THEN "FINISHED" ELSE s
           /\ SetStateOk(s, "BLOCKED") <=> s = "RUNNING"
           /\ SetStateOk(s, "FINISHED") <=> s = "RUNNING"
BY DEF AfterSetState, SetStateOk, Successors, ThreadState

\* TCB::setState stays within the states of a thread.
LEMMA SetStateType ==
    ASSUME NEW s \in ThreadState, NEW n \in ThreadState
    PROVE  AfterSetState(s, n) \in ThreadState
BY DEF AfterSetState

CoopInv == CoopTypeOK /\ CoopSafety /\ FreshTids

\* The invariant holds when the runtime is constructed.
LEMMA CoopInitInv == CoopInit => CoopInv
<1> SUFFICES ASSUME CoopInit PROVE CoopInv
  OBVIOUS
<1> USE MaxThreadsAssumption DEF CoopInit, Tids, NoThread
<1>1. CoopTypeOK
  <2>1. finished \in [Tids -> BOOLEAN] /\ ended \in [Tids -> BOOLEAN] /\ on_cpu \in BOOLEAN
    BY Zenon
  <2>2. QED
    BY <2>1 DEF CoopTypeOK, ThreadState
<1>2. CoopSafety
  BY DEF CoopSafety, OneRunning, CpuIsRunning, EndedIsFinished
<1>3. FreshTids
  BY DEF FreshTids
<1>4. QED
  BY <1>1, <1>2, <1>3 DEF CoopInv

\* Every action, and a stuttering step, preserves the invariant.
LEMMA CoopNextInv == CoopInv /\ [CoopNext]_coop_vars => CoopInv'
<1> SUFFICES ASSUME CoopInv, [CoopNext]_coop_vars PROVE CoopInv'
  OBVIOUS
<1> USE MaxThreadsAssumption DEF CoopInv, CoopTypeOK, CoopSafety, OneRunning,
        CpuIsRunning, EndedIsFinished, FreshTids, Zombie, Tids, NoThread
<1>1. CASE CreateThread
  BY <1>1 DEF CreateThread, ApiCallable, InMain, InThread, ThreadState
<1>2. CASE Clear
  BY <1>2 DEF Clear, InMain
<1>3. ASSUME NEW t \in Tids, RemoveThread(t) PROVE CoopInv'
  BY <1>3 DEF RemoveThread, ApiCallable, InMain, InThread
<1>4. ASSUME NEW t \in Tids, WakeThread(t) PROVE CoopInv'
  BY <1>4, SetStateTable DEF WakeThread, WakeEffect, ApiCallable, InMain, InThread, ThreadState
<1>5. ASSUME NEW t \in Tids, ForceBlock(t) PROVE CoopInv'
  BY <1>5, SetStateTable DEF ForceBlock, InMain, ThreadState
<1>6. ASSUME NEW t \in Tids, Dispatch(t) PROVE CoopInv'
  BY <1>6, SetStateTable DEF Dispatch, ThreadState
<1>7. CASE Yield
  BY <1>7, SetStateTable DEF Yield, InThread, ThreadState
<1>8. CASE Block
  BY <1>8, SetStateTable DEF Block, InThread, ThreadState
<1>9. CASE Exit
  BY <1>9, SetStateTable
     DEF Exit, ExitCurrent, AfterMarkFinished, InThread, ThreadState
<1>10. CASE Return
  BY <1>10, SetStateTable
     DEF Return, ExitCurrent, AfterMarkFinished, InThread, ThreadState
<1>11. CASE LinkReturn
  BY <1>11 DEF LinkReturn
<1>12. CASE EndStep
  BY <1>12 DEF EndStep
<1>13. CASE UNCHANGED coop_vars
  BY <1>13 DEF coop_vars
<1>14. QED
  BY <1>1, <1>2, <1>3, <1>4, <1>5, <1>6, <1>7, <1>8, <1>9, <1>10, <1>11,
     <1>12, <1>13 DEF CoopNext

\* Every state of every behaviour satisfies the invariant.
THEOREM CoopInvariant == CoopSpec => []CoopInv
BY CoopInitInv, CoopNextInv, PTL DEF CoopSpec

\* Type correctness of the cooperative threads.
THEOREM CoopTypeCorrect == CoopSpec => []CoopTypeOK
BY CoopInvariant, PTL DEF CoopInv

\* At most one thread runs, whatever wakes, blocks and removals are mixed in;
\* the exception is a thread that wakeThread hit while it was running.
THEOREM CoopOneRunning == CoopSpec => []OneRunning
BY CoopInvariant, PTL DEF CoopInv, CoopSafety

\* The thread on the CPU is the one that dispatchThread marked RUNNING, with
\* the same exception.
THEOREM CoopCpuIsRunning == CoopSpec => []CpuIsRunning
BY CoopInvariant, PTL DEF CoopInv, CoopSafety

\* TCB::finished_ and the state FINISHED agree, and a thread whose function has
\* returned is finished for both, with the same exception.
THEOREM CoopEndedIsFinished == CoopSpec => []EndedIsFinished
BY CoopInvariant, PTL DEF CoopInv, CoopSafety

\* No tid is given out twice, whatever is removed or cleared in between.
THEOREM CoopFreshTids == CoopSpec => []FreshTids
BY CoopInvariant, PTL DEF CoopInv

\* A step from a state of the invariant leaves finished threads finished and
\* off the CPU.
LEMMA FinishedStep ==
    ASSUME CoopInv, [CoopNext]_coop_vars, NEW t \in Tids, finished[t]
    PROVE  finished'[t] /\ ~(on_cpu' /\ current' = t /\ ~on_cpu)
<1> USE DEF CoopInv, CoopTypeOK, CoopSafety, EndedIsFinished, FreshTids
<1>1. state[t] = "FINISHED" /\ t < next_tid
  BY MaxThreadsAssumption DEF Tids
<1>2. CASE CreateThread
  BY <1>1, <1>2 DEF CreateThread
<1>3. CASE Exit \/ Return
  BY <1>3 DEF Exit, Return, ExitCurrent, AfterMarkFinished
<1>4. ASSUME NEW u \in Tids, Dispatch(u) PROVE finished'[t] /\ current' # t
  BY <1>1, <1>4 DEF Dispatch
<1>5. CASE \/ Clear \/ Yield \/ Block \/ LinkReturn \/ EndStep \/ UNCHANGED coop_vars
           \/ \E u \in Tids : RemoveThread(u) \/ WakeThread(u) \/ ForceBlock(u)
  BY <1>5 DEF Clear, Yield, Block, LinkReturn, EndStep, coop_vars, RemoveThread,
              WakeThread, ForceBlock
<1>6. QED
  BY <1>2, <1>3, <1>4, <1>5 DEF CoopNext

\* FINISHED is final, and a finished thread never gets the CPU again.
THEOREM CoopFinishedIsFinal == CoopSpec => FinishedIsFinal
<1>1. CoopInv /\ [CoopNext]_coop_vars => KeepsFinished
  BY FinishedStep DEF KeepsFinished
<1>2. QED
  BY <1>1, CoopInvariant, PTL DEF CoopSpec, FinishedIsFinal

-----------------------------------------------------------------------------
(* The wait queues of the synchronisation objects: queues of tids in which  *)
(* no thread is twice.                                                      *)

InQueue(q, t) == \E i \in 1..Len(q) : q[i] = t
Distinct(q) == \A i, j \in 1..Len(q) : q[i] = q[j] => i = j

\* wait_queue_.push of a thread that is not queued.
LEMMA PushFacts ==
    ASSUME NEW q \in Seq(Tids), NEW t \in Tids, ~InQueue(q, t), Distinct(q)
    PROVE  /\ Distinct(Append(q, t))
           /\ \A u \in Tids : InQueue(Append(q, t), u) <=> InQueue(q, u) \/ u = t
<1> USE DEF InQueue, Distinct
<1>1. Len(Append(q, t)) = Len(q) + 1 /\ Append(q, t)[Len(q) + 1] = t
  OBVIOUS
<1>2. \A i \in 1..Len(q) : Append(q, t)[i] = q[i]
  OBVIOUS
<1>3. 1..(Len(q) + 1) = (1..Len(q)) \union {Len(q) + 1} /\ Len(q) + 1 \notin 1..Len(q)
  OBVIOUS
<1>4. Distinct(Append(q, t))
  BY <1>1, <1>2, <1>3
<1>5. QED
  BY <1>1, <1>2, <1>3, <1>4

\* wait_queue_.front and pop of a queue without repetition.
LEMMA PopFacts ==
    ASSUME NEW q \in Seq(Tids), q # << >>, Distinct(q)
    PROVE  /\ InQueue(q, Head(q)) /\ Head(q) \in Tids
           /\ Distinct(Tail(q))
           /\ \A u \in Tids : InQueue(Tail(q), u) <=> InQueue(q, u) /\ u # Head(q)
<1> USE DEF InQueue, Distinct
<1>1. Len(q) \in Nat \ {0} /\ Len(Tail(q)) = Len(q) - 1 /\ Head(q) = q[1]
  OBVIOUS
<1>2. \A i \in 1..(Len(q) - 1) : Tail(q)[i] = q[i + 1]
  BY <1>1
<1>3. InQueue(q, Head(q)) /\ Head(q) \in Tids
  BY <1>1
<1>4. Distinct(Tail(q))
  BY <1>1, <1>2
<1>5. ASSUME NEW u \in Tids, InQueue(Tail(q), u) PROVE InQueue(q, u) /\ u # Head(q)
  BY <1>1, <1>2, <1>5
<1>6. ASSUME NEW u \in Tids, InQueue(q, u), u # Head(q) PROVE InQueue(Tail(q), u)
  <2>1. PICK i \in 1..Len(q) : q[i] = u
    BY <1>6
  <2>2. i - 1 \in 1..(Len(q) - 1) /\ Tail(q)[i - 1] = u
    BY <1>1, <1>2, <1>6, <2>1
  <2>3. QED
    BY <1>1, <2>2
<1>7. QED
  BY <1>3, <1>4, <1>5, <1>6

\* Sets of threads are finite, and a part has at most as many as the whole.
LEMMA TidSets ==
    ASSUME NEW S \in SUBSET Tids
    PROVE  /\ IsFiniteSet(S) /\ Cardinality(S) \in Nat
           /\ \A T \in SUBSET S : Cardinality(T) <= Cardinality(S)
           /\ \A t \in Tids : t \notin S => Cardinality(S \union {t}) = Cardinality(S) + 1
           /\ \A t \in S : Cardinality(S \ {t}) = Cardinality(S) - 1
<1>1. IsFiniteSet(Tids)
  BY FS_Interval, MaxThreadsAssumption DEF Tids
<1>2. IsFiniteSet(S)
  BY <1>1, FS_Subset
<1>3. Cardinality(S) \in Nat
  BY <1>2, FS_CardinalityType
<1>4. \A T \in SUBSET S : Cardinality(T) <= Cardinality(S)
  BY <1>2, FS_Subset
<1>5. \A t \in Tids : t \notin S => Cardinality(S \union {t}) = Cardinality(S) + 1
  BY <1>2, FS_AddElement
<1>6. \A t \in S : Cardinality(S \ {t}) = Cardinality(S) - 1
  BY <1>2, FS_RemoveElement
<1>7. QED
  BY <1>2, <1>3, <1>4, <1>5, <1>6

\* A set that loses at most one thread loses at most one in number.
LEMMA LosesOne ==
    ASSUME NEW S \in SUBSET Tids, NEW T \in SUBSET Tids, NEW t, S \ {t} \subseteq T
    PROVE  Cardinality(S) - 1 <= Cardinality(T)
<1>1. Cardinality(S \ {t}) <= Cardinality(T)
  BY TidSets
<1>2. CASE t \in S
  BY <1>1, <1>2, TidSets
<1>3. CASE t \notin S
  <2>1. S \ {t} = S
    BY <1>3
  <2>2. Cardinality(S) \in Nat /\ Cardinality(T) \in Nat
    BY TidSets
  <2>3. QED
    BY <1>1, <2>1, <2>2
<1>4. QED
  BY <1>2, <1>3
=============================================================================
