--------------------------- MODULE UThreadProofs ---------------------------
(***************************************************************************)
(* Proofs about UThread, for any number of threads and any arguments of    *)
(* the setters: the type invariant, the order of the pool, and that the    *)
(* runtime implements CoopSched.                                           *)
(***************************************************************************)
EXTENDS UThread, SequenceTheorems, TLAPS

\* What TCB::setState makes of each request, state by state.
LEMMA SetStateTable ==
    ASSUME NEW s \in ThreadState
    PROVE  /\ AfterSetState(s, "READY") =
                IF s \in {"RUNNING", "BLOCKED"} THEN "READY" ELSE s
           /\ AfterSetState(s, "RUNNING") = IF s = "READY" THEN "RUNNING" ELSE s
           /\ AfterSetState(s, "BLOCKED") = IF s = "RUNNING" THEN "BLOCKED" ELSE s
           /\ AfterSetState(s, "FINISHED") = IF s = "RUNNING" THEN "FINISHED" ELSE s
           /\ SetStateOk(s, "BLOCKED") <=> s = "RUNNING"
           /\ SetStateOk(s, "FINISHED") <=> s = "RUNNING"
BY DEF AfterSetState, SetStateOk, Successors, ThreadState

\* TCB::setState stays within the states of a thread.
LEMMA SetStateType ==
    ASSUME NEW s \in ThreadState, NEW n \in ThreadState
    PROVE  AfterSetState(s, n) \in ThreadState
BY DEF AfterSetState

\* The priority and burst that a TCB keeps are within their ranges.
LEMMA ClampRange ==
    ASSUME NEW x \in Int
    PROVE  ClampPriority(x) \in MinPriority..MaxPriority /\ ClampBurst(x) \in Nat \ {0}
BY DEF ClampPriority, ClampBurst, MinPriority, MaxPriority

\* The state of the thread on the CPU, and of one that has just yielded.
CpuState ==
    /\ pc = "thread" => state[current] \in {"RUNNING", "READY"} /\ reason = "NONE"
    /\ (pc = "returned" /\ reason = "YIELD") => state[current] = "READY"

UInv == TypeOK /\ PoolOrdered /\ CpuState

\* std::vector::erase of one entry.
LEMMA EraseFacts ==
    ASSUME NEW S, NEW s \in Seq(S), NEW i \in 1..Len(s)
    PROVE  /\ RemoveAt(s, i) \in Seq(S)
           /\ Len(RemoveAt(s, i)) = Len(s) - 1
           /\ \A j \in 1..(Len(s) - 1) : RemoveAt(s, i)[j] = IF j < i THEN s[j] ELSE s[j + 1]
<1> DEFINE a == SubSeq(s, 1, i - 1)
           b == SubSeq(s, i + 1, Len(s))
<1>1. /\ a \in Seq(S) /\ Len(a) = i - 1
      /\ \A j \in 1..(i - 1) : a[j] = s[j]
  <2>1. \A j \in 1..(i - 1) : s[j] \in S
    OBVIOUS
  <2>2. QED
    BY <2>1, SubSeqProperties
<1>2. /\ b \in Seq(S) /\ Len(b) = Len(s) - i
      /\ \A j \in 1..(Len(s) - i) : b[j] = s[i + j]
  <2>1. \A j \in (i + 1)..Len(s) : s[j] \in S
    OBVIOUS
  <2>2. QED
    BY <2>1, SubSeqProperties
<1> HIDE DEF a, b
<1>3. /\ a \o b \in Seq(S) /\ Len(a \o b) = Len(s) - 1
      /\ \A j \in 1..(Len(s) - 1) : (a \o b)[j] = IF j <= i - 1 THEN a[j] ELSE b[j - (i - 1)]
  <2>1. /\ a \o b \in Seq(S) /\ Len(a \o b) = Len(a) + Len(b)
        /\ \A j \in 1..(Len(a) + Len(b)) :
              (a \o b)[j] = IF j <= Len(a) THEN a[j] ELSE b[j - Len(a)]
    BY <1>1, <1>2, ConcatProperties
  <2>2. Len(a) + Len(b) = Len(s) - 1
    BY <1>1, <1>2
  <2>3. QED
    BY <1>1, <2>1, <2>2
<1>4. ASSUME NEW j \in 1..(Len(s) - 1)
      PROVE  (a \o b)[j] = IF j < i THEN s[j] ELSE s[j + 1]
  <2>1. CASE j < i
    BY <1>1, <1>3, <2>1
  <2>2. CASE ~(j < i)
    <3>1. j - (i - 1) \in 1..(Len(s) - i) /\ i + (j - (i - 1)) = j + 1
      BY <2>2
    <3>2. QED
      BY <1>2, <1>3, <2>2, <3>1
  <2>3. QED
    BY <2>1, <2>2
<1>5. RemoveAt(s, i) = a \o b
  BY DEF RemoveAt, a, b
<1>6. QED
  BY <1>3, <1>4, <1>5

\* Erasing an entry of an ordered vector keeps the order, and takes exactly
\* the erased id out of the set of ids.
LEMMA EraseOrdered ==
    ASSUME NEW s \in Seq(Tids), NEW i \in 1..Len(s), NEW r, r = RemoveAt(s, i),
           \A j, k \in 1..Len(s) : j < k => s[j] < s[k]
    PROVE  /\ \A j, k \in 1..Len(r) : j < k => r[j] < r[k]
           /\ {r[j] : j \in 1..Len(r)} = {s[j] : j \in 1..Len(s)} \ {s[i]}
<1>1. /\ r \in Seq(Tids) /\ Len(r) = Len(s) - 1
      /\ \A j \in 1..(Len(s) - 1) : r[j] = IF j < i THEN s[j] ELSE s[j + 1]
  BY EraseFacts, SMTT(30)
<1>2. \A j \in 1..Len(s) : s[j] \in Int
  <2>1. \A j \in 1..Len(s) : s[j] \in Tids
    OBVIOUS
  <2>2. QED
    BY <2>1 DEF Tids
<1>3. ASSUME NEW j \in 1..Len(r), NEW k \in 1..Len(r), j < k PROVE r[j] < r[k]
  <2>1. CASE k < i
    BY <1>1, <1>3, <2>1
  <2>2. CASE j < i /\ ~(k < i)
    BY <1>1, <1>3, <2>2
  <2>3. CASE ~(j < i)
    BY <1>1, <1>3, <2>3
  <2>4. QED
    BY <1>3, <2>1, <2>2, <2>3
<1>4. ASSUME NEW j \in 1..Len(r)
      PROVE  \E k \in 1..Len(s) : r[j] = s[k] /\ s[k] # s[i]
  <2>1. CASE j < i
    <3>1. j \in 1..Len(s) /\ r[j] = s[j] /\ s[j] < s[i]
      BY <1>1, <2>1
    <3>2. QED
      BY <1>2, <3>1
  <2>2. CASE ~(j < i)
    <3>1. j + 1 \in 1..Len(s) /\ i < j + 1 /\ r[j] = s[j + 1]
      BY <1>1, <2>2
    <3>2. s[i] < s[j + 1]
      BY <3>1
    <3>3. QED
      BY <1>2, <3>1, <3>2
  <2>3. QED
    BY <2>1, <2>2
<1>5. ASSUME NEW k \in 1..Len(s), s[k] # s[i]
      PROVE  \E j \in 1..Len(r) : r[j] = s[k]
  <2>1. CASE k < i
    BY <1>1, <2>1
  <2>2. CASE k > i
    <3>1. k - 1 \in 1..Len(r) /\ r[k - 1] = s[k]
      BY <1>1, <2>2
    <3>2. QED
      BY <3>1
  <2>3. QED
    BY <1>5, <2>1, <2>2
<1>6. {r[j] : j \in 1..Len(r)} = {s[j] : j \in 1..Len(s)} \ {s[i]}
  <2>1. ASSUME NEW x \in {r[j] : j \in 1..Len(r)}
        PROVE  x \in {s[j] : j \in 1..Len(s)} \ {s[i]}
    <3>1. PICK j \in 1..Len(r) : x = r[j]
      OBVIOUS
    <3>2. PICK k \in 1..Len(s) : r[j] = s[k] /\ s[k] # s[i]
      BY <1>4
    <3>3. QED
      BY <3>1, <3>2
  <2>2. ASSUME NEW x \in {s[j] : j \in 1..Len(s)} \ {s[i]}
        PROVE  x \in {r[j] : j \in 1..Len(r)}
    <3>1. PICK k \in 1..Len(s) : x = s[k]
      OBVIOUS
    <3>2. PICK j \in 1..Len(r) : r[j] = s[k]
      BY <1>5, <3>1
    <3>3. QED
      BY <3>1, <3>2
  <2>3. QED
    BY <2>1, <2>2
<1>7. QED
  BY <1>3, <1>6

\* The invariant holds after the constructors of pool and scheduler.
LEMMA InitUInv == Init => UInv
<1> SUFFICES ASSUME Init PROVE UInv
  OBVIOUS
<1>1. finished \in [Tids -> BOOLEAN] /\ ended \in [Tids -> BOOLEAN]
  BY Zenon DEF Init
<1>2. TypeOK
  BY <1>1, UThreadAssumption
     DEF Init, TypeOK, ThreadState, SchedulePolicy, SwitchReason, DefaultQuantum,
         MinPriority, MaxPriority, NoTick, NoThread, Tids
<1>3. PoolOrdered /\ CpuState
  BY DEF Init, PoolOrdered, CpuState, Size
<1>4. QED
  BY <1>2, <1>3 DEF UInv

\* The clock stays within its bound.
LEMMA TickType == ASSUME NEW c \in 0..MaxClock PROVE Tick(c) \in 0..MaxClock
BY UThreadAssumption DEF Tick

\* createThread appends a tid larger than all the others.
LEMMA CreateInv == ASSUME UInv, NEW p \in PriorityArgs, CreateThread(p) PROVE UInv'
<1> USE UThreadAssumption DEF UInv, CreateThread, PushBack
<1>1. ClampPriority(p) \in MinPriority..MaxPriority
  BY ClampRange
<1>2. threads' \in Seq(Tids) /\ Len(threads') = Len(threads) + 1
      /\ threads'[Len(threads) + 1] = next_tid
      /\ \A i \in 1..Len(threads) : threads'[i] = threads[i]
  BY DEF TypeOK
<1>3. TypeOK'
  <2>1. /\ state' \in [Tids -> ThreadState]
        /\ priority' \in [Tids -> MinPriority..MaxPriority]
        /\ burst' \in [Tids -> Nat \ {0}]
    BY <1>1 DEF TypeOK, ThreadState
  <2>2. finished' \in [Tids -> BOOLEAN] /\ ended' \in [Tids -> BOOLEAN]
    BY DEF TypeOK
  <2>3. /\ first_run_tick' \in [Tids -> {NoTick} \union 0..MaxClock]
        /\ finish_tick' \in [Tids -> {NoTick} \union 0..MaxClock]
    BY DEF TypeOK
  <2>4. next_tid' \in 1..(MaxThreads + 1)
    BY DEF Tids
  <2>5. QED
    BY <1>2, <2>1, <2>2, <2>3, <2>4 DEF TypeOK, config_vars, call_vars, cpu_vars
<1>4. PoolOrdered'
  <2>1. \A i \in 1..Len(threads) : threads[i] \in Int /\ threads[i] < next_tid
    <3>1. \A i \in 1..Len(threads) : threads[i] \in Tids
      BY DEF TypeOK
    <3>2. QED
      BY <3>1 DEF PoolOrdered, Size, Tids
  <2>2. /\ Len(threads) \in Nat /\ next_tid \in Int /\ next_tid' = next_tid + 1
        /\ \A i, j \in 1..Len(threads) : i < j => threads[i] < threads[j]
    BY DEF PoolOrdered, Size, TypeOK
  <2> HIDE DEF UInv, CreateThread
  <2>3. \A i \in 1..Len(threads') : threads'[i] < next_tid'
    BY <1>2, <2>1, <2>2
  <2>4. ASSUME NEW i \in 1..Len(threads'), NEW j \in 1..Len(threads'), i < j
        PROVE  threads'[i] < threads'[j]
    <3>1. i \in 1..Len(threads) /\ threads'[i] = threads[i]
      BY <1>2, <2>2, <2>4
    <3>2. CASE j = Len(threads) + 1
      BY <1>2, <2>1, <3>1, <3>2
    <3>3. CASE j \in 1..Len(threads)
      BY <1>2, <2>2, <2>4, <3>1, <3>3
    <3>4. QED
      BY <1>2, <2>2, <3>2, <3>3
  <2>5. QED
    BY <2>3, <2>4 DEF PoolOrdered, Size
<1>5. CpuState'
  BY DEF CpuState, cpu_vars, TypeOK, ApiCallable, MainIdle, InThread
<1>6. QED
  BY <1>3, <1>4, <1>5

\* removeThread keeps the rest of the vector in order.
LEMMA RemoveInv == ASSUME UInv, NEW i \in 1..Size, RemoveThread(i) PROVE UInv'
<1> USE UThreadAssumption DEF UInv, RemoveThread
<1>1. threads' \in Seq(Tids) /\ Len(threads') = Len(threads) - 1
  BY EraseFacts DEF TypeOK, Size
<1>2. rr_index' \in Nat
  BY DEF TypeOK, AdjustRRIndex, Size
<1>3. TypeOK'
  BY <1>1, <1>2 DEF TypeOK, tcb_vars, attr_vars, tick_vars, config_vars, call_vars, cpu_vars
<1>4. PoolOrdered'
  <2>1. /\ \A j, k \in 1..Len(threads') : j < k => threads'[j] < threads'[k]
        /\ {threads'[j] : j \in 1..Len(threads')}
               = {threads[j] : j \in 1..Len(threads)} \ {threads[i]}
    <3>1. /\ threads \in Seq(Tids) /\ i \in 1..Len(threads) /\ threads' = RemoveAt(threads, i)
          /\ \A j, k \in 1..Len(threads) : j < k => threads[j] < threads[k]
      BY DEF TypeOK, PoolOrdered, Size
    <3>2. QED
      BY <3>1, EraseOrdered
  <2>2. ASSUME NEW j \in 1..Len(threads') PROVE threads'[j] < next_tid
    <3>1. threads'[j] \in {threads[k] : k \in 1..Len(threads)}
      BY <2>1
    <3>2. PICK k \in 1..Len(threads) : threads'[j] = threads[k]
      BY <3>1
    <3>3. threads[k] < next_tid
      BY DEF PoolOrdered, Size
    <3>4. QED
      BY <3>2, <3>3
  <2>3. QED
    BY <2>1, <2>2 DEF PoolOrdered, Size
<1>5. CpuState'
  BY DEF CpuState, cpu_vars, tcb_vars
<1>6. QED
  BY <1>3, <1>4, <1>5

\* Calls that change neither the pool nor who is on the CPU.
LEMMA CallInv ==
    ASSUME UInv,
           \/ \E t \in Tids : \/ WakeThread(t) \/ HandleBlock(t) \/ StartJoin(t)
                              \/ \E p \in PriorityArgs : SetPriority(t, p)
                              \/ \E b \in BurstArgs : SetBurstTime(t, b)
           \/ \E p \in Policies : SetPolicy(p)
           \/ \E q \in QuantumArgs : SetQuantum(q)
           \/ \E c \in {"step", "run"} : StartLoop(c)
           \/ ResetLogicalClock \/ LoopReturns
    PROVE  UInv'
<1> USE UThreadAssumption
        DEF UInv, tcb_vars, pool_vars, attr_vars, tick_vars, config_vars, call_vars, cpu_vars
<1>1. ASSUME NEW t \in Tids, WakeThread(t) PROVE UInv'
  <2>1. state' \in [Tids -> ThreadState]
    BY <1>1, SetStateType DEF WakeThread, TypeOK, ThreadState
  <2>2. TypeOK' /\ PoolOrdered'
    BY <1>1, <2>1 DEF WakeThread, TypeOK, PoolOrdered, Size
  <2>3. CpuState'
    BY <1>1, SetStateTable DEF WakeThread, CpuState, TypeOK, ApiCallable, MainIdle, InThread
  <2>4. QED
    BY <2>2, <2>3
<1>2. ASSUME NEW t \in Tids, HandleBlock(t) PROVE UInv'
  <2>1. state' \in [Tids -> ThreadState]
    BY <1>2, SetStateType DEF HandleBlock, TypeOK, ThreadState
  <2>2. QED
    BY <1>2, <2>1 DEF HandleBlock, TypeOK, PoolOrdered, Size, CpuState, MainIdle
<1>3. ASSUME NEW t \in Tids, StartJoin(t) PROVE UInv'
  <2>1. t # NoThread /\ loop' = "join" /\ target' = t
    BY <1>3 DEF StartJoin, NoThread, Tids
  <2>2. QED
    BY <1>3, <2>1 DEF StartJoin, TypeOK, PoolOrdered, Size, CpuState
<1>4. ASSUME NEW t \in Tids, NEW p \in PriorityArgs, SetPriority(t, p) PROVE UInv'
  <2>1. ClampPriority(p) \in MinPriority..MaxPriority
    BY ClampRange
  <2>2. QED
    BY <1>4, <2>1 DEF SetPriority, TypeOK, PoolOrdered, Size, CpuState
<1>5. ASSUME NEW t \in Tids, NEW b \in BurstArgs, SetBurstTime(t, b) PROVE UInv'
  <2>1. ClampBurst(b) \in Nat \ {0}
    BY ClampRange
  <2>2. QED
    BY <1>5, <2>1 DEF SetBurstTime, TypeOK, PoolOrdered, Size, CpuState
<1>6. ASSUME NEW p \in Policies, SetPolicy(p) PROVE UInv'
  BY <1>6 DEF SetPolicy, TypeOK, PoolOrdered, Size, CpuState
<1>7. ASSUME NEW q \in QuantumArgs, SetQuantum(q) PROVE UInv'
  BY <1>7 DEF SetQuantum, TypeOK, PoolOrdered, Size, CpuState
<1>8. ASSUME NEW c \in {"step", "run"}, StartLoop(c) PROVE UInv'
  BY <1>8 DEF StartLoop, TypeOK, PoolOrdered, Size, CpuState
<1>9. CASE ResetLogicalClock
  BY <1>9 DEF ResetLogicalClock, TypeOK, PoolOrdered, Size, CpuState
<1>10. CASE LoopReturns
  BY <1>10 DEF LoopReturns, TypeOK, PoolOrdered, Size, CpuState
<1>11. QED
  BY <1>1, <1>2, <1>3, <1>4, <1>5, <1>6, <1>7, <1>8, <1>9, <1>10

\* clear leaves an empty vector.
LEMMA ClearInv == ASSUME UInv, ClearPool PROVE UInv'
BY DEF ClearPool, UInv, TypeOK, PoolOrdered, Size, CpuState, tcb_vars, attr_vars,
       tick_vars, config_vars, call_vars, cpu_vars

\* What a dispatch does to the fields of the TCB.
LEMMA DispatchType ==
    ASSUME TypeOK, NEW t \in Tids, NEW now \in 0..MaxClock, DispatchThread(t, now)
    PROVE  /\ state' \in [Tids -> ThreadState]
           /\ first_run_tick' \in [Tids -> {NoTick} \union 0..MaxClock]
BY SetStateType DEF DispatchThread, TypeOK, ThreadState

\* step dispatches a READY thread, which is RUNNING then.
LEMMA StepDispatchInv == ASSUME UInv, StepDispatch PROVE UInv'
<1> USE UThreadAssumption
        DEF UInv, pool_vars, attr_vars, config_vars, call_vars
<1>1. PICK i \in 1..Size : SelectNext(i) /\ DispatchThread(threads[i], logical_clock)
  BY DEF StepDispatch
<1>2. threads[i] \in Tids /\ threads[i] # NoThread
  <2>1. threads \in Seq(Tids) /\ Size = Len(threads)
    BY DEF TypeOK, Size
  <2>2. threads[i] \in Tids
    BY <2>1
  <2>3. QED
    BY <2>2 DEF Tids, NoThread
<1>3. rr_index' \in Nat
  <2>1. Size \in Nat \ {0} /\ i \in Nat
    BY <1>1 DEF TypeOK, Size
  <2>2. i % Size \in Nat
    BY <2>1
  <2>3. QED
    BY <1>1, <2>2 DEF SelectNext, CursorAfter, TypeOK
<1>4. /\ state' \in [Tids -> ThreadState]
      /\ first_run_tick' \in [Tids -> {NoTick} \union 0..MaxClock]
  BY <1>1, <1>2, DispatchType DEF TypeOK
<1>5. slice' \in Nat
  BY DEF StepDispatch, TypeOK
<1>6. TypeOK'
  BY <1>1, <1>2, <1>3, <1>4, <1>5 DEF StepDispatch, DispatchThread, TypeOK, SwitchReason
<1>7. PoolOrdered'
  BY DEF StepDispatch, PoolOrdered, Size
<1>8. CpuState'
  BY <1>1, <1>2, SetStateTable DEF SelectNext, DispatchThread, CpuState, TypeOK
<1>9. QED
  BY <1>6, <1>7, <1>8

\* yield, blockCurrent, exitCurrent and the return through uc_link hand
\* back a thread whose state fits the reason.
LEMMA SwitchInv == ASSUME UInv, ThreadSwitch PROVE UInv'
<1> USE DEF UInv, SwitchToMain, pool_vars, attr_vars, tick_vars, config_vars, call_vars
<1>0. pc = "thread" /\ current \in Tids /\ current # NoThread /\ loop # "none"
  BY DEF ThreadSwitch, Yield, BlockCurrent, CallExit, BodyReturn, ExitCurrent, LinkReturn,
         InThread, TypeOK
<1>1. CASE Yield
  <2>1. state' = [state EXCEPT ![current] = "READY"]
    <3>1. state[current] \in {"RUNNING", "READY"} /\ state[current] \in ThreadState
      BY <1>0 DEF CpuState, TypeOK
    <3>2. AfterSetState(state[current], "READY") = "READY"
      BY <3>1, SetStateTable
    <3>3. QED
      BY <1>1, <3>2 DEF Yield
  <2>2. TypeOK'
    BY <1>0, <1>1, <2>1 DEF Yield, TypeOK, SwitchReason, ThreadState
  <2>3. QED
    BY <1>0, <1>1, <2>1, <2>2 DEF Yield, PoolOrdered, Size, CpuState, TypeOK
<1>2. CASE BlockCurrent
  <2>1. state' \in [Tids -> ThreadState]
    BY <1>0, <1>2, SetStateType DEF BlockCurrent, TypeOK, ThreadState
  <2>2. QED
    BY <1>0, <1>2, <2>1 DEF BlockCurrent, TypeOK, SwitchReason, PoolOrdered, Size, CpuState
<1>3. CASE CallExit \/ BodyReturn
  <2>1. ExitCurrent
    BY <1>3 DEF CallExit, BodyReturn
  <2>2. finished' \in [Tids -> BOOLEAN] /\ ended' \in [Tids -> BOOLEAN]
    BY <1>0, <1>3 DEF CallExit, BodyReturn, ExitCurrent, AfterMarkFinished, TypeOK
  <2>3. state' \in [Tids -> ThreadState]
    <3>1. /\ "FINISHED" \in ThreadState
          /\ state' = [state EXCEPT ![current] = AfterSetState(@, "FINISHED")]
      BY <2>1 DEF ExitCurrent, ThreadState
    <3>2. QED
      BY <1>0, <3>1, SetStateType DEF TypeOK
  <2>4. QED
    BY <1>0, <2>1, <2>2, <2>3 DEF ExitCurrent, TypeOK, SwitchReason, PoolOrdered, Size, CpuState
<1>4. CASE LinkReturn
  BY <1>0, <1>4 DEF LinkReturn, TypeOK, PoolOrdered, Size, CpuState
<1>5. QED
  BY <1>1, <1>2, <1>3, <1>4 DEF ThreadSwitch

\* The clock and the finish ticks stay within the bound of the clock.
LEMMA AccountType ==
    ASSUME TypeOK, AccountSlice, current \in Tids
    PROVE  /\ logical_clock' \in 0..MaxClock
           /\ finish_tick' \in [Tids -> {NoTick} \union 0..MaxClock]
BY TickType DEF TypeOK, AccountSlice

\* runRoundRobinSlice resumes, or step ends, with the invariant intact.
LEMMA ReturnedInv == ASSUME UInv, ResumeSlice \/ EndStep PROVE UInv'
<1> USE DEF UInv, tcb_vars, pool_vars, attr_vars, config_vars, call_vars
<1>1. /\ current \in Tids /\ current # NoThread /\ loop # "none"
      /\ logical_clock' \in 0..MaxClock
      /\ finish_tick' \in [Tids -> {NoTick} \union 0..MaxClock]
  BY AccountType DEF ResumeSlice, EndStep, TypeOK
<1>2. CASE ResumeSlice
  <2>1. /\ state' \in [Tids -> ThreadState]
        /\ first_run_tick' \in [Tids -> {NoTick} \union 0..MaxClock]
    BY <1>1, <1>2, DispatchType DEF ResumeSlice
  <2>2. slice' \in Nat
    BY <1>2 DEF ResumeSlice, SliceContinues, TypeOK
  <2>3. TypeOK'
    BY <1>1, <1>2, <2>1, <2>2 DEF ResumeSlice, DispatchThread, TypeOK, SwitchReason
  <2>4. CpuState'
    BY <1>1, <1>2, SetStateTable
       DEF ResumeSlice, SliceContinues, DispatchThread, CpuState, TypeOK
  <2>5. QED
    BY <1>2, <2>3, <2>4 DEF ResumeSlice, PoolOrdered, Size
<1>3. CASE EndStep
  BY <1>1, <1>3 DEF EndStep, TypeOK, SwitchReason, PoolOrdered, Size, CpuState
<1>4. QED
  BY <1>2, <1>3

\* Every action of the runtime preserves the invariant.
LEMMA NextUInv == UInv /\ [Next]_vars => UInv'
<1> SUFFICES ASSUME UInv, [Next]_vars PROVE UInv'
  OBVIOUS
<1>1. CASE SchedulerStep
  BY <1>1, StepDispatchInv, CallInv, ReturnedInv DEF SchedulerStep
<1>2. CASE ThreadSwitch
  BY <1>2, SwitchInv
<1>3. CASE MainCall
  BY <1>3, ClearInv, CallInv DEF MainCall
<1>4. CASE ApiCall
  BY <1>4, CreateInv, RemoveInv, CallInv DEF ApiCall
<1>5. CASE UNCHANGED vars
  BY <1>5 DEF vars, UInv, TypeOK, PoolOrdered, Size, CpuState, tcb_vars, pool_vars,
              attr_vars, tick_vars, config_vars, call_vars, cpu_vars
<1>6. QED
  BY <1>1, <1>2, <1>3, <1>4, <1>5 DEF Next

\* The invariant of the runtime holds in every state.
LEMMA UInvariant == Spec => []UInv
BY InitUInv, NextUInv, PTL DEF Spec

\* Type correctness of the runtime.
THEOREM UThreadTypeCorrect == Spec => []TypeOK
BY UInvariant, PTL DEF UInv

\* The pool stays in tid order without repetition.
THEOREM UThreadPoolOrdered == Spec => []PoolOrdered
BY UInvariant, PTL DEF UInv

\* A slice is resumed only for a thread that is READY.
THEOREM UThreadSliceReady == Spec => []SliceResumesReady
<1>1. UInv => SliceResumesReady
  BY DEF UInv, CpuState, SliceResumesReady, SliceContinues
<1>2. QED
  BY <1>1, UInvariant, PTL

-----------------------------------------------------------------------------
(* Refinement: on_cpu is pc = "thread" and the pool is the set of ids in    *)
(* the vector.  Configuration, priorities, clock and cursor are invisible   *)
(* to CoopSched, so the calls that change only those are stuttering steps.  *)

\* The entries of the vector.
LEMMA PoolEntries ==
    ASSUME TypeOK, NEW i \in 1..Size
    PROVE  threads[i] \in Tids /\ threads[i] \in Pool
BY DEF TypeOK, Size, Pool

\* createThread adds its tid to the pool.
LEMMA CreatePool ==
    ASSUME TypeOK, next_tid \in Tids, threads' = Append(threads, next_tid)
    PROVE  Pool' = Pool \union {next_tid}
<1>1. /\ Len(threads) \in Nat /\ Len(threads') = Len(threads) + 1
      /\ threads'[Len(threads) + 1] = next_tid
      /\ \A i \in 1..Len(threads) : threads'[i] = threads[i]
  BY DEF TypeOK
<1>2. 1..(Len(threads) + 1) = (1..Len(threads)) \union {Len(threads) + 1}
  BY <1>1
<1>3. QED
  BY <1>1, <1>2 DEF Pool, Size

\* removeThread takes one id out of the pool.
LEMMA RemovePool ==
    ASSUME TypeOK, PoolOrdered, NEW i \in 1..Size, threads' = RemoveAt(threads, i)
    PROVE  Pool' = Pool \ {threads[i]}
<1>1. /\ threads \in Seq(Tids) /\ i \in 1..Len(threads) /\ threads' = RemoveAt(threads, i)
      /\ \A j, k \in 1..Len(threads) : j < k => threads[j] < threads[k]
  BY DEF TypeOK, PoolOrdered, Size
<1>2. {threads'[j] : j \in 1..Len(threads')} = {threads[j] : j \in 1..Len(threads)} \ {threads[i]}
  <2>1. /\ \A j, k \in 1..Len(threads') : j < k => threads'[j] < threads'[k]
        /\ {threads'[j] : j \in 1..Len(threads')}
               = {threads[j] : j \in 1..Len(threads)} \ {threads[i]}
    BY <1>1, EraseOrdered
  <2>2. QED
    BY <2>1
<1>3. QED
  BY <1>2 DEF Pool, Size

\* A new runtime is a new cooperative scheduler.
LEMMA InitRefines == Init => CS!CoopInit
BY DEF Init, CS!CoopInit, Pool, Size, CS!Tids, Tids, CS!NoThread, NoThread

\* Every step of the runtime is a step of cooperative scheduling, or none.
LEMMA StepRefines == UInv /\ [Next]_vars => [CS!CoopNext]_CS!coop_vars
<1> SUFFICES ASSUME UInv, [Next]_vars PROVE [CS!CoopNext]_CS!coop_vars
  OBVIOUS
<1> USE DEF UInv, CS!CoopNext, CS!Tids, Tids, CS!NoThread, NoThread
<1>0. ASSUME ApiCallable PROVE CS!ApiCallable
  BY <1>0 DEF ApiCallable, MainIdle, InThread, CS!ApiCallable, CS!InMain, CS!InThread, TypeOK
<1>a. ASSUME MainIdle PROVE CS!InMain
  BY <1>a DEF MainIdle, CS!InMain, TypeOK
<1>b. ASSUME InThread PROVE CS!InThread
  BY <1>b DEF InThread, CS!InThread
<1>1. ASSUME NEW p \in PriorityArgs, CreateThread(p) PROVE CS!CreateThread
  <2>1. Pool' = Pool \union {next_tid}
    BY <1>1, CreatePool DEF CreateThread, PushBack
  <2>2. QED
    BY <1>0, <1>1, <2>1 DEF CreateThread, CS!CreateThread, cpu_vars
<1>2. ASSUME NEW i \in 1..Size, RemoveThread(i) PROVE CS!RemoveThread(threads[i])
  <2>1. Pool' = Pool \ {threads[i]}
    BY <1>2, RemovePool DEF RemoveThread
  <2>2. threads[i] \in Pool
    BY PoolEntries
  <2>3. QED
    BY <1>0, <1>2, <2>1, <2>2 DEF RemoveThread, CS!RemoveThread, cpu_vars, tcb_vars
<1>3. ASSUME NEW t \in Tids, WakeThread(t) PROVE CS!WakeThread(t)
  <2>1. Pool' = Pool
    BY <1>3 DEF WakeThread, pool_vars, Pool, Size
  <2>2. QED
    BY <1>0, <1>3, <2>1
       DEF WakeThread, CS!WakeThread, CS!WakeEffect, CS!AfterSetState, CS!SetStateOk,
           CS!Successors, AfterSetState, SetStateOk, Successors, cpu_vars, pool_vars
<1>4. ASSUME NEW t \in Tids, HandleBlock(t) PROVE CS!ForceBlock(t)
  <2>1. Pool' = Pool
    BY <1>4 DEF HandleBlock, pool_vars, Pool, Size
  <2>2. QED
    BY <1>a, <1>4, <2>1
       DEF HandleBlock, CS!ForceBlock, CS!AfterSetState, CS!SetStateOk,
           CS!Successors, AfterSetState, SetStateOk, Successors, cpu_vars, pool_vars
<1>5. CASE ClearPool
  <2>1. Pool' = {}
    BY <1>5 DEF ClearPool, Pool, Size
  <2>2. CS!Clear
    BY <1>a, <1>5, <2>1 DEF ClearPool, CS!Clear, cpu_vars, tcb_vars
  <2>3. QED
    BY <2>2
<1>6. CASE StepDispatch
  <2>1. PICK i \in 1..Size : SelectNext(i) /\ DispatchThread(threads[i], logical_clock)
    BY <1>6 DEF StepDispatch
  <2>2. threads[i] \in Tids /\ threads[i] \in Pool /\ state[threads[i]] = "READY"
    BY <2>1, PoolEntries DEF SelectNext
  <2>3. Pool' = Pool
    BY <1>6 DEF StepDispatch, pool_vars, Pool, Size
  <2>4. CS!Dispatch(threads[i])
    BY <1>6, <2>1, <2>2, <2>3
       DEF StepDispatch, DispatchThread, CS!Dispatch, CS!AfterSetState, CS!SetStateOk,
           CS!Successors, AfterSetState, SetStateOk, Successors, TypeOK, pool_vars
  <2>5. QED
    BY <2>2, <2>4
<1>7. CASE ResumeSlice
  <2>1. current \in Tids /\ state[current] = "READY" /\ pc = "returned"
    BY <1>7 DEF ResumeSlice, SliceContinues, CpuState, TypeOK
  <2>2. Pool' = Pool
    BY <1>7 DEF ResumeSlice, pool_vars, Pool, Size
  <2>3. CS!Dispatch(current)
    BY <1>7, <2>1, <2>2
       DEF ResumeSlice, DispatchThread, CS!Dispatch, CS!AfterSetState, CS!SetStateOk,
           CS!Successors, AfterSetState, SetStateOk, Successors, pool_vars
  <2>4. QED
    BY <2>1, <2>3
<1>8. CASE EndStep
  <2>1. Pool' = Pool
    BY <1>8 DEF EndStep, pool_vars, Pool, Size
  <2>2. CS!EndStep
    BY <1>8, <2>1 DEF EndStep, CS!EndStep, TypeOK, pool_vars, tcb_vars
  <2>3. QED
    BY <2>2
<1>9. CASE ThreadSwitch
  <2>1. Pool' = Pool
    BY <1>9 DEF ThreadSwitch, Yield, BlockCurrent, CallExit, BodyReturn, ExitCurrent,
                LinkReturn, SwitchToMain, pool_vars, Pool, Size
  <2>2. CASE Yield
    BY <1>b, <2>1, <2>2
       DEF Yield, SwitchToMain, CS!Yield, CS!AfterSetState, CS!SetStateOk,
           CS!Successors, AfterSetState, SetStateOk, Successors, pool_vars
  <2>3. CASE BlockCurrent
    BY <1>b, <2>1, <2>3
       DEF BlockCurrent, SwitchToMain, CS!Block, CS!AfterSetState, CS!SetStateOk,
           CS!Successors, AfterSetState, SetStateOk, Successors, pool_vars
  <2>4. CASE CallExit
    BY <1>b, <2>1, <2>4
       DEF CallExit, ExitCurrent, SwitchToMain, CS!Exit, CS!ExitCurrent, CS!AfterMarkFinished,
           CS!AfterSetState, CS!SetStateOk, CS!Successors, AfterMarkFinished,
           AfterSetState, SetStateOk, Successors, pool_vars
  <2>5. CASE BodyReturn
    BY <1>b, <2>1, <2>5
       DEF BodyReturn, ExitCurrent, SwitchToMain, CS!Return, CS!ExitCurrent, CS!AfterMarkFinished,
           CS!AfterSetState, CS!SetStateOk, CS!Successors, AfterMarkFinished,
           AfterSetState, SetStateOk, Successors, pool_vars
  <2>6. CASE LinkReturn
    BY <2>1, <2>6 DEF LinkReturn, SwitchToMain, CS!LinkReturn, pool_vars
  <2>7. QED
    BY <1>9, <2>2, <2>3, <2>4, <2>5, <2>6 DEF ThreadSwitch
<1> DEFINE Invisible ==
      \/ LoopReturns \/ ResetLogicalClock
      \/ \E p \in Policies : SetPolicy(p)
      \/ \E q \in QuantumArgs : SetQuantum(q)
      \/ \E t \in Tids : \/ StartJoin(t)
                         \/ \E p \in PriorityArgs : SetPriority(t, p)
                         \/ \E x \in BurstArgs : SetBurstTime(t, x)
      \/ \E c \in {"step", "run"} : StartLoop(c)
      \/ UNCHANGED vars
<1>10. CASE Invisible
  <2>1. UNCHANGED <<tcb_vars, pool_vars, cpu_vars>>
    BY <1>10 DEF LoopReturns, ResetLogicalClock, SetPolicy, SetQuantum, StartJoin,
                 SetPriority, SetBurstTime, StartLoop, vars
  <2>2. QED
    BY <2>1 DEF CS!coop_vars, tcb_vars, pool_vars, cpu_vars, Pool, Size
<1>11. QED
  <2>1. ASSUME NEW i \in 1..Size PROVE threads[i] \in Tids
    BY PoolEntries
  <2>2. \/ SchedulerStep \/ ThreadSwitch \/ MainCall \/ ApiCall \/ UNCHANGED vars
    BY DEF Next
  <2>3. CASE SchedulerStep
    BY <2>3, <1>6, <1>7, <1>8, <1>10 DEF SchedulerStep
  <2>4. CASE MainCall
    BY <2>4, <1>4, <1>5, <1>10 DEF MainCall
  <2>5. CASE ApiCall
    BY <2>1, <2>5, <1>1, <1>2, <1>3 DEF ApiCall
  <2>6. QED
    BY <2>2, <2>3, <2>4, <2>5, <1>9, <1>10

\* The runtime implements cooperative scheduling, whatever the policy, the
\* quantum and the attributes of the threads.
THEOREM UThreadRefinesCoopSched == Spec => ImplementsCoopSched
BY InitRefines, StepRefines, UInvariant, PTL DEF Spec, ImplementsCoopSched, CS!CoopSpec

-----------------------------------------------------------------------------
(* The ticks.  A thread gets its finish tick in the accounting of the slice *)
(* in which it has finished, which is its last one: finished_ and state     *)
(* agree, so that a finished thread is not READY and is never selected.     *)

FinishedAgrees ==
    /\ current < next_tid
    /\ \A t \in Tids : finished[t] <=> state[t] = "FINISHED"

\* What TicksOrdered says of t, and that its first run is not in the future.
TickOK(t) ==
    /\ finish_tick[t] # NoTick => finished[t]
    /\ finished[t] /\ current # t => finish_tick[t] # NoTick
    /\ current = t \/ finish_tick[t] # NoTick => first_run_tick[t] # NoTick
    /\ first_run_tick[t] # NoTick /\ t \notin retimed => first_run_tick[t] <= logical_clock
    /\ (finish_tick[t] # NoTick /\ t \notin retimed) =>
          /\ first_run_tick[t] <= finish_tick[t]
          /\ first_run_tick[t] < MaxClock => first_run_tick[t] < finish_tick[t]

TickInv == UInv /\ FinishedAgrees /\ \A t \in Tids : TickOK(t)

\* Nobody has run yet.
LEMMA InitTickInv == Init => TickInv
<1> SUFFICES ASSUME Init PROVE TickInv
  OBVIOUS
<1>1. UInv
  BY InitUInv
<1>2. FinishedAgrees
  BY DEF Init, FinishedAgrees, NoThread
<1>3. \A t \in Tids : TickOK(t)
  BY DEF Init, TickOK, NoThread, Tids
<1>4. QED
  BY <1>1, <1>2, <1>3 DEF TickInv

\* The kinds of steps as far as the ticks are concerned.
LEMMA TickSteps ==
    ASSUME [Next]_vars
    PROVE  \/ \E p \in PriorityArgs : CreateThread(p)
           \/ StepDispatch \/ ResumeSlice \/ EndStep \/ ThreadSwitch \/ ResetLogicalClock
           \/ (\E t \in Tids : WakeThread(t) \/ HandleBlock(t)) /\ UNCHANGED <<tick_vars, finished>>
           \/ UNCHANGED <<tick_vars, tcb_vars, current, next_tid>>
<1>1. CASE MainCall
  BY <1>1 DEF MainCall, ClearPool, SetPolicy, SetQuantum, HandleBlock, StartJoin, SetPriority,
              SetBurstTime, StartLoop, cpu_vars, pool_vars
<1>2. CASE ApiCall
  BY <1>2 DEF ApiCall, RemoveThread, WakeThread, cpu_vars
<1>3. CASE SchedulerStep
  BY <1>3 DEF SchedulerStep, LoopReturns, cpu_vars, pool_vars
<1>4. CASE UNCHANGED vars
  BY <1>4 DEF vars, cpu_vars, pool_vars
<1>5. QED
  BY <1>1, <1>2, <1>3, <1>4 DEF Next

\* dispatchThread of a READY thread.
LEMMA DispatchAgrees ==
    ASSUME TypeOK, FinishedAgrees, NEW t \in Tids, t < next_tid, state[t] = "READY", NEW now,
           DispatchThread(t, now), UNCHANGED <<finished, next_tid>>
    PROVE  FinishedAgrees'
<1>1. AfterSetState(state[t], "RUNNING") = "RUNNING"
  BY SetStateTable DEF TypeOK
<1>2. state' = [state EXCEPT ![t] = "RUNNING"] /\ current' = t
  BY <1>1 DEF DispatchThread
<1>3. QED
  BY <1>2 DEF FinishedAgrees, TypeOK

\* What a switch leaves of the running thread: markFinished records exactly
\* what setState accepts.
LEMMA SwitchAgrees ==
    ASSUME UInv, FinishedAgrees, ThreadSwitch
    PROVE  /\ FinishedAgrees' /\ UNCHANGED <<tick_vars, current>> /\ current \in Tids
           /\ \A t \in Tids : t # current => finished'[t] = finished[t]
           /\ \A t \in Tids : finished[t] => finished'[t]
<1>1. /\ pc = "thread" /\ current \in Tids /\ state[current] \in {"RUNNING", "READY"}
      /\ UNCHANGED <<tick_vars, current, next_tid>>
  BY DEF ThreadSwitch, Yield, BlockCurrent, CallExit, BodyReturn, ExitCurrent, LinkReturn,
         InThread, SwitchToMain, pool_vars, UInv, TypeOK, CpuState
<1>2. /\ state \in [Tids -> ThreadState] /\ finished \in [Tids -> BOOLEAN]
      /\ ~finished[current] /\ state[current] \in ThreadState
  BY <1>1 DEF UInv, TypeOK, FinishedAgrees
<1>3. CASE Yield \/ BlockCurrent
  <2>1. \E s \in {"READY", "BLOCKED"} : state' = [state EXCEPT ![current] = s]
    BY <1>1, <1>2, <1>3, SetStateTable DEF Yield, BlockCurrent
  <2>2. finished' = finished
    BY <1>3 DEF Yield, BlockCurrent
  <2>3. QED
    BY <1>1, <1>2, <2>1, <2>2 DEF FinishedAgrees
<1>4. CASE CallExit \/ BodyReturn
  <2>1. /\ state' = [state EXCEPT ![current] = AfterSetState(@, "FINISHED")]
        /\ finished' = [finished EXCEPT ![current] = AfterMarkFinished(state[current], @)]
    BY <1>4 DEF CallExit, BodyReturn, ExitCurrent
  <2>2. /\ AfterSetState(state[current], "FINISHED") = "FINISHED" <=> state[current] = "RUNNING"
        /\ AfterMarkFinished(state[current], finished[current]) <=> state[current] = "RUNNING"
    BY <1>1, <1>2, SetStateTable DEF AfterMarkFinished
  <2>3. /\ \A t \in Tids : t # current => state'[t] = state[t] /\ finished'[t] = finished[t]
        /\ state'[current] = AfterSetState(state[current], "FINISHED")
        /\ finished'[current] = AfterMarkFinished(state[current], finished[current])
    BY <1>1, <1>2, <2>1
  <2>4. QED
    BY <1>1, <1>2, <2>2, <2>3 DEF FinishedAgrees
<1>5. CASE LinkReturn
  BY <1>1, <1>5 DEF LinkReturn, FinishedAgrees
<1>6. QED
  BY <1>3, <1>4, <1>5 DEF ThreadSwitch

\* Accounting a slice records the finish tick of a thread that has finished,
\* later than its first run if the clock has room.
LEMMA AccountTicks ==
    ASSUME UInv, NEW t \in Tids, TickOK(t), current \in Tids, AccountSlice
    PROVE  /\ finish_tick'[t] # NoTick <=> finished[t]
           /\ current = t \/ finished[t] => first_run_tick[t] # NoTick
           /\ first_run_tick[t] # NoTick /\ t \notin retimed => first_run_tick[t] <= logical_clock'
           /\ (finish_tick'[t] # NoTick /\ t \notin retimed) =>
                 /\ first_run_tick[t] <= finish_tick'[t]
                 /\ first_run_tick[t] < MaxClock => first_run_tick[t] < finish_tick'[t]
<1>1. /\ logical_clock \in 0..MaxClock /\ MaxClock \in Nat
      /\ first_run_tick[t] \in {NoTick} \union 0..MaxClock
      /\ finish_tick \in [Tids -> {NoTick} \union 0..MaxClock]
  BY UThreadAssumption DEF UInv, TypeOK
<1>2. /\ logical_clock' \in 0..MaxClock /\ logical_clock <= logical_clock'
      /\ logical_clock < MaxClock => logical_clock' = logical_clock + 1
      /\ logical_clock' # NoTick
  BY <1>1 DEF AccountSlice, Tick, NoTick
<1>3. finish_tick'[t] = IF t = current /\ finished[current] THEN logical_clock' ELSE finish_tick[t]
  BY <1>1 DEF AccountSlice
<1>4. CASE t = current /\ finished[current]
  <2>1. finish_tick'[t] = logical_clock' /\ first_run_tick[t] # NoTick
    BY <1>3, <1>4 DEF TickOK
  <2>2. t \notin retimed => first_run_tick[t] <= logical_clock
    BY <2>1 DEF TickOK
  <2>3. QED
    BY <1>1, <1>2, <1>4, <2>1, <2>2
<1>5. CASE ~(t = current /\ finished[current])
  <2>1. finish_tick'[t] = finish_tick[t]
    BY <1>3, <1>5
  <2>2. first_run_tick[t] # NoTick /\ t \notin retimed => first_run_tick[t] <= logical_clock'
    BY <1>1, <1>2 DEF TickOK, NoTick
  <2>3. QED
    BY <1>5, <2>1, <2>2 DEF TickOK
<1>6. QED
  BY <1>4, <1>5

\* Every step keeps the ticks in order.
LEMMA NextTickInv == TickInv /\ [Next]_vars => TickInv'
<1> SUFFICES ASSUME TickInv, [Next]_vars PROVE TickInv'
  OBVIOUS
<1>1. UInv /\ UInv' /\ FinishedAgrees /\ \A t \in Tids : TickOK(t)
  BY NextUInv DEF TickInv
<1>2. /\ first_run_tick \in [Tids -> {NoTick} \union 0..MaxClock]
      /\ finish_tick \in [Tids -> {NoTick} \union 0..MaxClock]
      /\ state \in [Tids -> ThreadState] /\ finished \in [Tids -> BOOLEAN]
      /\ logical_clock \in 0..MaxClock /\ MaxClock \in Nat /\ next_tid \in Nat /\ current \in Nat
  BY <1>1, UThreadAssumption DEF UInv, TypeOK, Tids, NoThread
<1>3. ASSUME NEW p \in PriorityArgs, CreateThread(p) PROVE TickInv'
  <2>1. FinishedAgrees'
    BY <1>1, <1>2, <1>3 DEF CreateThread, FinishedAgrees, cpu_vars
  <2>2. ASSUME NEW t \in Tids PROVE TickOK(t)'
    <3>1. CASE t = next_tid
      <4>1. current' # t
        BY <1>1, <1>2, <1>3, <3>1 DEF CreateThread, FinishedAgrees, cpu_vars
      <4>2. finish_tick'[t] = NoTick /\ first_run_tick'[t] = NoTick /\ ~finished'[t]
        BY <1>2, <1>3, <3>1 DEF CreateThread
      <4>3. QED
        BY <4>1, <4>2 DEF TickOK
    <3>2. CASE t # next_tid
      <4>1. /\ finish_tick'[t] = finish_tick[t] /\ first_run_tick'[t] = first_run_tick[t]
            /\ finished'[t] = finished[t] /\ UNCHANGED <<current, logical_clock, retimed>>
        BY <1>2, <1>3, <3>2 DEF CreateThread, cpu_vars
      <4>2. QED
        BY <1>1, <4>1 DEF TickOK
    <3>3. QED
      BY <3>1, <3>2
  <2>3. QED
    BY <1>1, <2>1, <2>2 DEF TickInv
<1>4. CASE StepDispatch
  <2>1. PICK i \in 1..Size : SelectNext(i) /\ DispatchThread(threads[i], logical_clock)
    BY <1>4 DEF StepDispatch
  <2> DEFINE u == threads[i]
  <2>2. u \in Tids /\ u < next_tid /\ state[u] = "READY"
    BY <1>1, <2>1, PoolEntries DEF UInv, PoolOrdered, SelectNext
  <2> HIDE DEF u
  <2>3. /\ UNCHANGED <<finished, finish_tick, logical_clock, retimed, next_tid>>
        /\ current = NoThread
    BY <1>1, <1>4 DEF StepDispatch, pool_vars, UInv, TypeOK
  <2>4. FinishedAgrees'
    BY <1>1, <2>1, <2>2, <2>3, DispatchAgrees DEF UInv, u
  <2>5. ASSUME NEW t \in Tids PROVE TickOK(t)'
    <3>1. current' = u /\ ~finished[u]
      BY <1>1, <2>1, <2>2 DEF DispatchThread, FinishedAgrees, u
    <3>2. first_run_tick'[t] = IF t = u /\ first_run_tick[t] = NoTick THEN logical_clock
                               ELSE first_run_tick[t]
      BY <1>2, <2>1, <2>2 DEF DispatchThread, u
    <3>3. t # NoThread
      BY DEF Tids, NoThread
    <3>4. CASE t = u /\ first_run_tick[t] = NoTick
      <4>1. first_run_tick'[t] = logical_clock /\ logical_clock # NoTick /\ finish_tick[t] = NoTick
        BY <1>1, <1>2, <3>1, <3>2, <3>4 DEF NoTick, TickOK
      <4>2. QED
        BY <1>2, <2>3, <3>1, <3>4, <4>1 DEF TickOK
    <3>5. CASE ~(t = u /\ first_run_tick[t] = NoTick)
      <4>1. first_run_tick'[t] = first_run_tick[t]
        BY <3>2, <3>5
      <4>2. QED
        BY <1>1, <2>3, <3>1, <3>3, <3>5, <4>1 DEF TickOK
    <3>6. QED
      BY <3>4, <3>5
  <2>6. QED
    BY <1>1, <2>4, <2>5 DEF TickInv
<1>5. CASE ResumeSlice
  <2>1. /\ current \in Tids /\ state[current] = "READY" /\ current < next_tid
        /\ UNCHANGED <<finished, retimed, next_tid>> /\ AccountSlice
        /\ DispatchThread(current, logical_clock')
    BY <1>1, <1>5 DEF ResumeSlice, SliceContinues, pool_vars, UInv, CpuState, TypeOK,
                      FinishedAgrees
  <2>2. FinishedAgrees'
    BY <1>1, <2>1, DispatchAgrees DEF UInv
  <2>3. first_run_tick' = first_run_tick /\ current' = current
    <3>1. first_run_tick[current] # NoTick
      BY <1>1, <2>1 DEF TickOK
    <3>2. QED
      BY <1>2, <2>1, <3>1 DEF DispatchThread
  <2>4. \A t \in Tids : TickOK(t)'
    BY <1>1, <2>1, <2>3, AccountTicks DEF TickOK
  <2>5. QED
    BY <1>1, <2>2, <2>4 DEF TickInv
<1>6. CASE EndStep
  <2>1. /\ current \in Tids /\ AccountSlice /\ current' = NoThread
        /\ UNCHANGED <<finished, retimed, first_run_tick, state, next_tid>>
    BY <1>1, <1>6 DEF EndStep, pool_vars, tcb_vars, UInv, TypeOK
  <2>2. FinishedAgrees'
    BY <1>1, <1>2, <2>1 DEF FinishedAgrees, NoThread, Tids
  <2>3. \A t \in Tids : t # NoThread
    BY DEF Tids, NoThread
  <2>4. \A t \in Tids : TickOK(t)'
    BY <1>1, <2>1, <2>3, AccountTicks DEF TickOK
  <2>5. QED
    BY <1>1, <2>2, <2>4 DEF TickInv
<1>7. CASE ThreadSwitch
  <2>1. /\ FinishedAgrees' /\ UNCHANGED <<tick_vars, current>> /\ current \in Tids
        /\ \A t \in Tids : t # current => finished'[t] = finished[t]
        /\ \A t \in Tids : finished[t] => finished'[t]
    BY <1>1, <1>7, SwitchAgrees
  <2>2. \A t \in Tids : TickOK(t)'
    BY <1>1, <2>1 DEF TickOK, tick_vars
  <2>3. QED
    BY <1>1, <2>1, <2>2 DEF TickInv
<1>8. CASE ResetLogicalClock
  <2>1. /\ retimed' = {t \in Tids : first_run_tick[t] # NoTick}
        /\ UNCHANGED <<first_run_tick, finish_tick, finished, state, current, next_tid>>
    BY <1>8 DEF ResetLogicalClock, tcb_vars, cpu_vars, pool_vars
  <2>2. FinishedAgrees'
    BY <1>1, <2>1 DEF FinishedAgrees
  <2>3. \A t \in Tids : TickOK(t)'
    BY <1>1, <2>1 DEF TickOK
  <2>4. QED
    BY <1>1, <2>2, <2>3 DEF TickInv
<1>9. ASSUME NEW t \in Tids, WakeThread(t) \/ HandleBlock(t), UNCHANGED <<tick_vars, finished>>
      PROVE  TickInv'
  <2>1. UNCHANGED <<current, next_tid>>
    BY <1>9 DEF WakeThread, HandleBlock, cpu_vars, pool_vars
  <2>2. \A s \in Tids : state'[s] = "FINISHED" <=> state[s] = "FINISHED"
    <3>1. \A s \in ThreadState :
              /\ AfterSetState(s, "READY") = "FINISHED" <=> s = "FINISHED"
              /\ SetStateOk(s, "BLOCKED") => s # "FINISHED"
              /\ s = "READY" => AfterSetState(AfterSetState(s, "RUNNING"), "BLOCKED") = "BLOCKED"
      BY SetStateTable DEF ThreadState
    <3>2. QED
      BY <1>2, <1>9, <3>1 DEF WakeThread, HandleBlock
  <2>3. FinishedAgrees'
    BY <1>1, <1>9, <2>1, <2>2 DEF FinishedAgrees
  <2>4. \A s \in Tids : TickOK(s)'
    BY <1>1, <1>9, <2>1 DEF TickOK, tick_vars
  <2>5. QED
    BY <1>1, <2>3, <2>4 DEF TickInv
<1>10. CASE UNCHANGED <<tick_vars, tcb_vars, current, next_tid>>
  BY <1>1, <1>10 DEF TickInv, FinishedAgrees, TickOK, tick_vars, tcb_vars
<1>11. QED
  BY <1>3, <1>4, <1>5, <1>6, <1>7, <1>8, <1>9, <1>10, TickSteps

\* The finish tick of every thread is recorded when the scheduler is done with
\* it, and lies after its first run (dispatchThread, resetLogicalClock).
THEOREM UThreadTicksOrdered == Spec => []TicksOrdered
<1>1. Spec => []TickInv
  BY InitTickInv, NextTickInv, PTL DEF Spec
<1>2. TickInv => TicksOrdered
  BY DEF TickInv, TickOK, TicksOrdered
<1>3. QED
  BY <1>1, <1>2, PTL

-----------------------------------------------------------------------------
(* The round-robin order.  The cursor and the offsets stay below twice the  *)
(* size of the vector, where % subtracts the size at most once.             *)

Wrapped(x, n) == IF x < n THEN x ELSE x - n

LEMMA ModWrapped ==
    ASSUME NEW n \in Nat \ {0}, NEW x \in Nat, x < n + n
    PROVE  x % n = Wrapped(x, n) /\ Wrapped(x, n) \in 0..(n - 1)
<1>1. x % n \in 0..(n - 1) /\ x = (n * (x \div n)) + (x % n) /\ x \div n \in Int
  OBVIOUS
<1>2. \A q \in Int, r \in 0..(n - 1) : x = (n * q) + r => r = Wrapped(x, n)
  <2> SUFFICES ASSUME NEW q \in Int, NEW r \in 0..(n - 1), x = (n * q) + r
               PROVE  r = Wrapped(x, n)
    OBVIOUS
  <2>1. CASE q = 0
    BY <2>1 DEF Wrapped
  <2>2. CASE q = 1
    BY <2>2 DEF Wrapped
  <2>3. CASE q >= 2
    <3>1. n * q >= n + n
      BY <2>3
    <3>2. QED
      BY <3>1
  <2>4. CASE q <= -1
    <3>1. n * q <= -n
      BY <2>4
    <3>2. QED
      BY <3>1
  <2>5. QED
    BY <2>1, <2>2, <2>3, <2>4
<1>3. QED
  BY <1>1, <1>2 DEF Wrapped

\* Rotation and Turn of a vector q with the cursor at r.
RotationOf(q, r) == [k \in 1..Len(q) |-> q[((r + k - 1) % Len(q)) + 1]]

TurnOf(q, r, t) == CHOOSE k \in 1..Len(q) : RotationOf(q, r)[k] = t

\* The turn of entry j in a vector of n entries.
Place(j, r, n) == IF j > r THEN j - r ELSE j - r + n

LEMMA TheTurns ==
    /\ Rotation = RotationOf(threads, rr_index)
    /\ Rotation' = RotationOf(threads', rr_index')
    /\ \A t : Turn(t) = TurnOf(threads, rr_index, t) /\ Turn(t)' = TurnOf(threads', rr_index', t)
BY DEF Rotation, Turn, RotationOf, TurnOf, Size

LEMMA RotationFacts ==
    ASSUME NEW q \in Seq(Tids), NEW r \in Nat, r < Len(q)
    PROVE  /\ RotationOf(q, r) \in [1..Len(q) -> Tids]
           /\ \A k \in 1..Len(q) : /\ Wrapped(r + k - 1, Len(q)) + 1 \in 1..Len(q)
                                   /\ RotationOf(q, r)[k] = q[Wrapped(r + k - 1, Len(q)) + 1]
<1> DEFINE n == Len(q)
<1>1. n \in Nat \ {0} /\ r < n /\ q \in [1..n -> Tids]
  OBVIOUS
<1>2. RotationOf(q, r) = [k \in 1..n |-> q[((r + k - 1) % n) + 1]]
  BY DEF RotationOf
<1> HIDE DEF n
<1>3. ASSUME NEW k \in 1..n
      PROVE  /\ (r + k - 1) % n = Wrapped(r + k - 1, n)
             /\ Wrapped(r + k - 1, n) + 1 \in 1..n
  <2> DEFINE x == r + k - 1
  <2>1. x \in Nat /\ x < n + n
    BY <1>1
  <2> HIDE DEF x
  <2>2. x % n = Wrapped(x, n) /\ Wrapped(x, n) \in 0..(n - 1)
    BY <1>1, <2>1, ModWrapped
  <2>3. Wrapped(x, n) + 1 \in 1..n
    BY <1>1, <2>2
  <2>4. QED
    BY <2>2, <2>3 DEF x
<1>4. \A k \in 1..n : q[((r + k - 1) % n) + 1] \in Tids
  BY <1>1, <1>3
<1>5. QED
  BY <1>2, <1>3, <1>4 DEF n

LEMMA TurnFacts ==
    ASSUME NEW q \in Seq(Tids), NEW r \in Nat, r < Len(q), NEW j \in 1..Len(q),
           \A k, m \in 1..Len(q) : k < m => q[k] < q[m]
    PROVE  TurnOf(q, r, q[j]) = Place(j, r, Len(q)) /\ Place(j, r, Len(q)) \in 1..Len(q)
<1>1. Len(q) \in Nat
  OBVIOUS
<1>2. /\ Place(j, r, Len(q)) \in 1..Len(q)
      /\ Wrapped(r + Place(j, r, Len(q)) - 1, Len(q)) + 1 = j
      /\ \A k \in 1..Len(q) : Wrapped(r + k - 1, Len(q)) + 1 = j => k = Place(j, r, Len(q))
  BY <1>1 DEF Place, Wrapped
<1>3. \A m \in 1..Len(q) : q[m] = q[j] => m = j
  <2>1. \A m \in 1..Len(q) : q[m] \in Tids
    OBVIOUS
  <2>2. \A m \in 1..Len(q) : q[m] \in Int
    BY <2>1 DEF Tids
  <2>3. \A m \in 1..Len(q) : m < j \/ m = j \/ j < m
    BY <1>1
  <2>4. QED
    BY <2>2, <2>3
<1>4. \A k \in 1..Len(q) : RotationOf(q, r)[k] = q[j] <=> k = Place(j, r, Len(q))
  <2>1. \A k \in 1..Len(q) : /\ Wrapped(r + k - 1, Len(q)) + 1 \in 1..Len(q)
                             /\ RotationOf(q, r)[k] = q[Wrapped(r + k - 1, Len(q)) + 1]
    BY RotationFacts
  <2>2. ASSUME NEW k \in 1..Len(q), RotationOf(q, r)[k] = q[j] PROVE k = Place(j, r, Len(q))
    <3>1. Wrapped(r + k - 1, Len(q)) + 1 = j
      BY <1>3, <2>1, <2>2
    <3>2. QED
      BY <1>2, <3>1
  <2>3. RotationOf(q, r)[Place(j, r, Len(q))] = q[j]
    BY <1>2, <2>1
  <2>4. QED
    BY <2>2, <2>3
<1>5. QED
  BY <1>2, <1>4 DEF TurnOf

\* The place in a sequence of the entry m that is left when entry i is removed.
Source(i, m) == IF m < i THEN m ELSE m + 1

\* Where adjustRRIndex puts the cursor, entry i of n being removed, what becomes
\* of the turns of the other entries, and which entry is at turn k afterwards.
LEMMA AdjustFacts ==
    ASSUME NEW n \in Nat, n >= 2, NEW r \in 0..(n - 1), NEW i \in 1..n
    PROVE  /\ AdjustRRIndex(r, i - 1, n - 1) \in 0..(n - 2)
           /\ \A j \in 1..(n - 1) :
                 Place(j, AdjustRRIndex(r, i - 1, n - 1), n - 1) <= Place(Source(i, j), r, n)
           /\ \A k \in 1..(n - 1) :
                 Source(i, Wrapped(AdjustRRIndex(r, i - 1, n - 1) + k - 1, n - 1) + 1) =
                    Wrapped(r + Source(Place(i, r, n), k) - 1, n) + 1
<1> DEFINE a == AdjustRRIndex(r, i - 1, n - 1)
<1>1. a = IF i <= r THEN r - 1 ELSE IF r = n - 1 THEN 0 ELSE r
  BY DEF AdjustRRIndex
<1> HIDE DEF a
<1>2. CASE i <= r
  <2>1. a = r - 1 /\ Place(i, r, n) = i - r + n
    BY <1>1, <1>2 DEF Place
  <2>2. QED
    BY <1>2, <2>1 DEF Place, Wrapped, Source, a
<1>3. CASE i > r /\ r # n - 1
  <2>1. a = r /\ Place(i, r, n) = i - r
    BY <1>1, <1>3 DEF Place
  <2>2. QED
    BY <1>3, <2>1 DEF Place, Wrapped, Source, a
<1>4. CASE i > r /\ r = n - 1
  <2>1. a = 0 /\ Place(i, r, n) = 1 /\ i = n
    BY <1>1, <1>4 DEF Place
  <2>2. QED
    BY <1>4, <2>1 DEF Place, Wrapped, Source, a
<1>5. QED
  BY <1>2, <1>3, <1>4

\* A selection of entry i puts the cursor behind it.
LEMMA CursorFacts ==
    ASSUME NEW n \in Nat, NEW r \in 0..(n - 1), NEW i \in 1..n, NEW j \in 1..n, j # i,
           Place(i, r, n) <= Place(j, r, n)
    PROVE  Place(j, Wrapped(i, n), n) < Place(j, r, n)
<1>1. CASE i = n
  BY <1>1 DEF Place, Wrapped
<1>2. CASE i < n
  <2>1. Wrapped(i, n) = i
    BY <1>2 DEF Wrapped
  <2>2. QED
    BY <1>2, <2>1 DEF Place
<1>3. QED
  BY <1>1, <1>2

\* The vector, its size n and the cursor, when the cursor is inside.
LEMMA VectorFacts ==
    ASSUME UInv, rr_index < Size
    PROVE  /\ threads \in Seq(Tids) /\ Size \in Nat /\ Size = Len(threads)
           /\ rr_index \in Nat /\ rr_index \in 0..(Size - 1)
           /\ \A k, m \in 1..Len(threads) : k < m => threads[k] < threads[m]
BY DEF UInv, TypeOK, PoolOrdered, Size

\* What removeThread makes of them.
LEMMA RemovedFacts ==
    ASSUME UInv, rr_index < Size, NEW i \in 1..Size, RemoveThread(i)
    PROVE  /\ threads' \in Seq(Tids) /\ Len(threads') = Size - 1
           /\ \A m \in 1..(Size - 1) : threads'[m] = threads[Source(i, m)]
           /\ \A k, m \in 1..Len(threads') : k < m => threads'[k] < threads'[m]
           /\ Pool' = Pool \ {threads[i]}
           /\ rr_index' = AdjustRRIndex(rr_index, i - 1, Size - 1)
<1>1. /\ threads \in Seq(Tids) /\ i \in 1..Len(threads) /\ threads' = RemoveAt(threads, i)
      /\ \A j, k \in 1..Len(threads) : j < k => threads[j] < threads[k]
  BY VectorFacts DEF RemoveThread, Size
<1>2. /\ threads' \in Seq(Tids) /\ Len(threads') = Len(threads) - 1
      /\ \A m \in 1..(Len(threads) - 1) :
            threads'[m] = IF m < i THEN threads[m] ELSE threads[m + 1]
  BY <1>1, EraseFacts, SMTT(30)
<1>3. /\ \A j, k \in 1..Len(threads') : j < k => threads'[j] < threads'[k]
      /\ {threads'[j] : j \in 1..Len(threads')}
            = {threads[j] : j \in 1..Len(threads)} \ {threads[i]}
  <2> DEFINE q == threads'
  <2>1. q = RemoveAt(threads, i)
    BY <1>1
  <2> HIDE DEF q
  <2>2. /\ \A j, k \in 1..Len(q) : j < k => q[j] < q[k]
        /\ {q[j] : j \in 1..Len(q)} = {threads[j] : j \in 1..Len(threads)} \ {threads[i]}
    BY <1>1, <2>1, EraseOrdered, SMTT(30)
  <2>3. QED
    BY <2>2 DEF q
<1>4. \A m \in 1..(Len(threads) - 1) : threads'[m] = threads[Source(i, m)]
  BY <1>2 DEF Source
<1>5. QED
  BY <1>1, <1>2, <1>3, <1>4 DEF RemoveThread, Pool, Size

LEMMA SameFunction ==
    ASSUME NEW D, NEW S, NEW f \in [D -> S], NEW g \in [D -> S], \A x \in D : f[x] = g[x]
    PROVE  f = g
OBVIOUS

LEMMA RemoveRotation ==
    ASSUME UInv, NEW i \in 1..Size, RemoveThread(i), rr_index < Size
    PROVE  Rotation' = RemoveAt(Rotation, Turn(threads[i]))
<1> DEFINE n == Size
           old == RotationOf(threads, rr_index)
           new == RotationOf(threads', rr_index')
           p == Place(i, rr_index, n)
           rest == RemoveAt(old, p)
<1>1. /\ threads \in Seq(Tids) /\ n \in Nat /\ n = Len(threads) /\ i \in 1..n
      /\ rr_index \in Nat /\ rr_index \in 0..(n - 1)
  BY VectorFacts
<1>2. /\ threads' \in Seq(Tids) /\ Len(threads') = n - 1
      /\ \A m \in 1..(n - 1) : threads'[m] = threads[Source(i, m)]
      /\ rr_index' = AdjustRRIndex(rr_index, i - 1, n - 1)
  BY RemovedFacts
<1>3. Turn(threads[i]) = p /\ p \in 1..n
  <2>1. i \in 1..Len(threads) /\ rr_index < Len(threads)
    BY <1>1
  <2>2. /\ TurnOf(threads, rr_index, threads[i]) = Place(i, rr_index, Len(threads))
        /\ Place(i, rr_index, Len(threads)) \in 1..Len(threads)
    BY <1>1, <2>1, VectorFacts, TurnFacts
  <2>3. QED
    BY <1>1, <2>2, TheTurns
<1> HIDE DEF n
<1>4. /\ old \in [1..n -> Tids]
      /\ \A k \in 1..n : old[k] = threads[Wrapped(rr_index + k - 1, n) + 1]
  <2>1. rr_index < Len(threads)
    BY <1>1
  <2>2. /\ old \in [1..Len(threads) -> Tids]
        /\ \A k \in 1..Len(threads) : old[k] = threads[Wrapped(rr_index + k - 1, Len(threads)) + 1]
    BY <1>1, <2>1, RotationFacts
  <2>3. QED
    BY <1>1, <2>2
<1> HIDE DEF old, p
<1>5. /\ rest \in Seq(Tids) /\ Len(rest) = n - 1
      /\ \A k \in 1..(n - 1) : rest[k] = old[Source(p, k)]
  <2>1. old \in Seq(Tids) /\ Len(old) = n
    BY <1>1, <1>4
  <2>2. /\ rest \in Seq(Tids) /\ Len(rest) = n - 1
        /\ \A k \in 1..(n - 1) : rest[k] = IF k < p THEN old[k] ELSE old[k + 1]
    BY <1>3, <2>1, EraseFacts
  <2>3. QED
    BY <2>2 DEF Source
<1> HIDE DEF rest
<1>6. CASE n = 1
  <2>1. new = << >>
    BY <1>2, <1>6 DEF RotationOf
  <2>2. rest = << >>
    BY <1>5, <1>6
  <2>3. QED
    BY <1>3, <2>1, <2>2, TheTurns DEF old, rest
<1>7. CASE n >= 2
  <2>1. /\ rr_index' \in 0..(n - 2)
        /\ \A k \in 1..(n - 1) : Source(i, Wrapped(rr_index' + k - 1, n - 1) + 1) =
                                    Wrapped(rr_index + Source(p, k) - 1, n) + 1
    BY <1>1, <1>2, <1>7, AdjustFacts DEF p
  <2>2. /\ new \in [1..(n - 1) -> Tids]
        /\ \A k \in 1..(n - 1) : /\ Wrapped(rr_index' + k - 1, n - 1) + 1 \in 1..(n - 1)
                                 /\ new[k] = threads'[Wrapped(rr_index' + k - 1, n - 1) + 1]
    <3>1. rr_index' \in Nat /\ rr_index' < Len(threads')
      BY <1>1, <1>2, <2>1
    <3>2. /\ new \in [1..Len(threads') -> Tids]
          /\ \A k \in 1..Len(threads') :
                /\ Wrapped(rr_index' + k - 1, Len(threads')) + 1 \in 1..Len(threads')
                /\ new[k] = threads'[Wrapped(rr_index' + k - 1, Len(threads')) + 1]
      BY <1>2, <3>1, RotationFacts
    <3>3. QED
      BY <1>2, <3>2
  <2> HIDE DEF new
  <2>3. ASSUME NEW k \in 1..(n - 1) PROVE new[k] = rest[k]
    <3> DEFINE m == Wrapped(rr_index' + k - 1, n - 1) + 1
               k2 == Source(p, k)
    <3>1. m \in 1..(n - 1) /\ new[k] = threads'[m]
      BY <2>2
    <3>2. Source(i, m) = Wrapped(rr_index + k2 - 1, n) + 1
      BY <2>1
    <3>3. k2 \in 1..n
      BY <1>1 DEF Source
    <3> HIDE DEF m, k2
    <3>4. threads'[m] = threads[Source(i, m)]
      BY <1>2, <3>1
    <3>5. old[k2] = threads[Wrapped(rr_index + k2 - 1, n) + 1]
      BY <1>4, <3>3
    <3>6. rest[k] = old[k2]
      BY <1>5 DEF k2
    <3>7. QED
      BY <3>1, <3>2, <3>4, <3>5, <3>6
  <2>4. rest \in [1..(n - 1) -> Tids]
    BY <1>5
  <2>5. new = rest
    <3> DEFINE D == 1..(n - 1)
    <3>1. new \in [D -> Tids] /\ rest \in [D -> Tids] /\ \A k \in D : new[k] = rest[k]
      BY <2>2, <2>3, <2>4
    <3> HIDE DEF D
    <3>2. QED
      BY <3>1, SameFunction
  <2>6. QED
    BY <1>3, <2>5, TheTurns DEF old, new, rest
<1>8. QED
  BY <1>1, <1>6, <1>7

\* removeThread takes its thread out of the round-robin order and leaves the
\* turns of all the others (adjustRRIndex).
THEOREM UThreadRotationPreserved == Spec => RotationPreserved
<1>1. UInv => \A i \in 1..Size : RemoveThread(i) /\ rr_index < Size =>
                  Rotation' = RemoveAt(Rotation, Turn(threads[i]))
  BY RemoveRotation
<1>2. QED
  BY <1>1, UInvariant, PTL DEF Spec, RotationPreserved

\* The turn of the thread at position j.
LEMMA TurnAt ==
    ASSUME UInv, rr_index < Size, NEW j \in 1..Size
    PROVE  Turn(threads[j]) = Place(j, rr_index, Size) /\ Place(j, rr_index, Size) \in 1..Size
<1>1. j \in 1..Len(threads) /\ rr_index < Len(threads)
  BY DEF Size
<1>2. /\ TurnOf(threads, rr_index, threads[j]) = Place(j, rr_index, Len(threads))
      /\ Place(j, rr_index, Len(threads)) \in 1..Len(threads)
  BY <1>1, VectorFacts, TurnFacts
<1>3. QED
  BY <1>2, TheTurns DEF Size

\* A selection moves every other READY thread closer to its turn.
LEMMA SelectTurn ==
    ASSUME UInv, UInv', StepDispatch, policy = "RR", rr_index < Size, NEW t \in Ready, t # current'
    PROVE  Turn(t)' < Turn(t)
<1> DEFINE n == Size
<1>1. /\ threads' = threads /\ Size' = n /\ n \in Nat \ {0} /\ rr_index \in 0..(n - 1)
  BY VectorFacts DEF StepDispatch, pool_vars, Size
<1>2. PICK i \in 1..n : SelectNext(i) /\ current' = threads[i]
  BY DEF StepDispatch, DispatchThread
<1>3. PICK j \in 1..n : t = threads[j] /\ state[threads[j]] = "READY"
  BY DEF Ready, Pool
<1>4. j # i
  BY <1>2, <1>3
<1>5. Offset(i) <= Offset(j) /\ rr_index' = i % n
  BY <1>2, <1>3 DEF SelectNext, SelectRR, CursorAfter
<1>6. \A k : Offset(k) = (k - 1 + n - (rr_index % n)) % n
  BY DEF Offset
<1>7. /\ Turn(t) = Place(j, rr_index, n)
      /\ rr_index' < n => Turn(t)' = Place(j, rr_index', n)
  <2>1. Turn(t) = Place(j, rr_index, n)
    BY <1>3, TurnAt
  <2>2. ASSUME rr_index' < n PROVE Turn(t)' = Place(j, rr_index', n)
    <3>1. rr_index' \in Nat
      BY DEF UInv, TypeOK
    <3>2. /\ threads \in Seq(Tids) /\ n = Len(threads) /\ j \in 1..Len(threads)
          /\ \A k, m \in 1..Len(threads) : k < m => threads[k] < threads[m]
      BY VectorFacts
    <3>3. TurnOf(threads, rr_index', threads[j]) = Place(j, rr_index', Len(threads))
      BY <2>2, <3>1, <3>2, TurnFacts
    <3>4. QED
      BY <1>1, <1>3, <3>2, <3>3, TheTurns
  <2>3. QED
    BY <2>1, <2>2
<1> HIDE DEF n
<1>8. ASSUME NEW k \in 1..n PROVE Offset(k) = Place(k, rr_index, n) - 1
  <2>1. rr_index % n = rr_index
    BY <1>1, ModWrapped DEF Wrapped
  <2> DEFINE x == k - 1 + n - rr_index
  <2>2. Offset(k) = x % n
    BY <1>6, <2>1
  <2>3. x \in Nat /\ x < n + n
    BY <1>1
  <2> HIDE DEF x
  <2>4. x % n = Wrapped(x, n)
    BY <1>1, <2>3, ModWrapped
  <2>5. Wrapped(x, n) = Place(k, rr_index, n) - 1
    BY <1>1 DEF Wrapped, Place, x
  <2>6. QED
    BY <2>2, <2>4, <2>5
<1>9. rr_index' = Wrapped(i, n) /\ rr_index' < n
  <2>1. i \in Nat /\ i < n + n
    BY <1>1
  <2>2. i % n = Wrapped(i, n) /\ Wrapped(i, n) \in 0..(n - 1)
    BY <1>1, <2>1, ModWrapped
  <2>3. QED
    BY <1>1, <1>5, <2>2
<1>10. Place(i, rr_index, n) <= Place(j, rr_index, n)
  <2>1. Place(i, rr_index, n) \in Int /\ Place(j, rr_index, n) \in Int
    BY <1>1 DEF Place
  <2>2. QED
    BY <1>5, <1>8, <2>1
<1>11. Place(j, Wrapped(i, n), n) < Place(j, rr_index, n)
  BY <1>1, <1>4, <1>10, CursorFacts
<1>12. QED
  BY <1>7, <1>9, <1>11

\* A removal puts nobody back.
LEMMA RemoveTurn ==
    ASSUME UInv, NEW i \in 1..Size, RemoveThread(i), rr_index < Size, NEW t \in Pool, t \in Pool'
    PROVE  Turn(t)' <= Turn(t)
<1> DEFINE n == Size
<1>1. n \in Nat /\ rr_index \in 0..(n - 1) /\ i \in 1..n
  BY VectorFacts
<1>2. /\ threads' \in Seq(Tids) /\ Len(threads') = n - 1
      /\ \A m \in 1..(n - 1) : threads'[m] = threads[Source(i, m)]
      /\ \A k, m \in 1..Len(threads') : k < m => threads'[k] < threads'[m]
      /\ rr_index' = AdjustRRIndex(rr_index, i - 1, n - 1)
  BY RemovedFacts
<1>3. PICK j \in 1..(n - 1) : t = threads'[j]
  BY <1>2 DEF Pool, Size
<1>4. Source(i, j) \in 1..n /\ n >= 2
  BY <1>1 DEF Source
<1>5. Turn(t) = Place(Source(i, j), rr_index, n)
  BY <1>2, <1>3, <1>4, TurnAt
<1> HIDE DEF n
<1>6. /\ rr_index' \in 0..(n - 2)
      /\ Place(j, rr_index', n - 1) <= Place(Source(i, j), rr_index, n)
  BY <1>1, <1>2, <1>4, AdjustFacts
<1>7. Turn(t)' = Place(j, rr_index', n - 1)
  <2>1. rr_index' \in Nat /\ rr_index' < Len(threads') /\ j \in 1..Len(threads')
    BY <1>1, <1>2, <1>6
  <2>2. TurnOf(threads', rr_index', threads'[j]) = Place(j, rr_index', Len(threads'))
    BY <1>2, <2>1, TurnFacts
  <2>3. QED
    BY <1>2, <1>3, <2>2, TheTurns
<1>8. QED
  BY <1>5, <1>6, <1>7

\* Inside run(), only these two and the creation of a thread move anybody.
LEMMA OrderKept ==
    ASSUME [Next]_vars, loop = "run", next_tid' = next_tid, UInv, ~StepDispatch,
           \A i \in 1..Size : ~RemoveThread(i)
    PROVE  UNCHANGED <<threads, rr_index>>
<1>1. CASE SchedulerStep
  BY <1>1 DEF SchedulerStep, LoopReturns, ResumeSlice, EndStep, pool_vars
<1>2. CASE ThreadSwitch
  BY <1>2 DEF ThreadSwitch, Yield, BlockCurrent, CallExit, BodyReturn, ExitCurrent, LinkReturn,
              SwitchToMain, pool_vars
<1>3. CASE MainCall
  BY <1>3 DEF MainCall, MainIdle, ClearPool, ResetLogicalClock, SetPolicy, SetQuantum, HandleBlock,
              StartJoin, SetPriority, SetBurstTime, StartLoop
<1>4. CASE ApiCall
  <2>1. \A p \in PriorityArgs : ~CreateThread(p)
    BY DEF CreateThread, UInv, TypeOK
  <2>2. QED
    BY <1>4, <2>1 DEF ApiCall, WakeThread, pool_vars
<1>5. CASE UNCHANGED vars
  BY <1>5 DEF vars, pool_vars
<1>6. QED
  BY <1>1, <1>2, <1>3, <1>4, <1>5 DEF Next

\* While run() is scheduling round robin nobody loses a turn, and every
\* selection of another thread brings a READY thread strictly closer.
THEOREM UThreadTurnAdvances == Spec => TurnAdvances
<1> DEFINE Advance ==
      (loop = "run" /\ policy = "RR" /\ rr_index < Size /\ next_tid' = next_tid) =>
          \A t \in Ready :
              (t \in Pool' /\ t # current') =>
                  IF StepDispatch THEN Turn(t)' < Turn(t) ELSE Turn(t)' <= Turn(t)
<1>1. UInv /\ [Next]_vars => Advance
  <2> SUFFICES ASSUME UInv, [Next]_vars, loop = "run", policy = "RR", rr_index < Size,
                      next_tid' = next_tid, NEW t \in Ready, t \in Pool', t # current'
               PROVE  IF StepDispatch THEN Turn(t)' < Turn(t) ELSE Turn(t)' <= Turn(t)
    OBVIOUS
  <2>1. t \in Pool
    BY DEF Ready
  <2>2. CASE StepDispatch
    BY <2>2, NextUInv, SelectTurn
  <2>3. ASSUME ~StepDispatch, NEW i \in 1..Size, RemoveThread(i) PROVE Turn(t)' <= Turn(t)
    BY <2>1, <2>3, RemoveTurn
  <2>4. ASSUME ~StepDispatch, \A i \in 1..Size : ~RemoveThread(i) PROVE Turn(t)' <= Turn(t)
    <3>1. Turn(t)' = Turn(t)
      BY <2>4, OrderKept, TheTurns
    <3>2. PICK j \in 1..Size : t = threads[j]
      BY <2>1 DEF Pool
    <3>3. Turn(t) \in 1..Size /\ Size \in Nat
      BY <3>2, TurnAt, VectorFacts
    <3>4. QED
      BY <3>1, <3>3
  <2>5. QED
    BY <2>2, <2>3, <2>4
<1>2. QED
  BY <1>1, UInvariant, PTL DEF Spec, TurnAdvances
=============================================================================
