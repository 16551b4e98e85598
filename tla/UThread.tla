------------------------------ MODULE UThread ------------------------------
(***************************************************************************)
(* UThreadRuntime with its ThreadPool and Scheduler: the pool as the       *)
(* ordered vector the code keeps, the four policies, the round-robin       *)
(* cursor and slice, the logical clock with the ticks it stamps, and the   *)
(* loops step, run and joinThread of the main program.                     *)
(*                                                                         *)
(*   threads          ThreadPool::threads_, as the tids in vector order    *)
(*   policy, quantum  Scheduler::policy_ and quantum_                      *)
(*   rr_index         Scheduler::rr_index_, counted from 0 as in the code  *)
(*   slice            remaining_slice of runRoundRobinSlice (0 elsewhere)  *)
(*   reason           Scheduler::last_switch_reason_                       *)
(*   logical_clock    Scheduler::logical_clock_, saturated at MaxClock     *)
(*   priority, burst, first_run_tick, finish_tick   fields of the TCBs     *)
(*   pc               "main": outside dispatchThread; "thread": a thread   *)
(*                    is executing; "returned": back in dispatchThread     *)
(*   loop             the call of the main program that is in progress:    *)
(*                    "none", "step", "run" or "join"                      *)
(*   target           the tid joinThread waits for                         *)
(*   retimed          history: threads whose first_run_tick_ was recorded  *)
(*                    before the last resetLogicalClock                    *)
(* The other variables are those of CoopSched, which this module refines.  *)
(***************************************************************************)
EXTENDS Tcb, SequencesExt

CONSTANTS MaxThreads,        \* bound on createThread calls
          MaxClock,          \* where the logical clock saturates
          Policies,          \* the policies setPolicy is called with
          QuantumArgs,       \* the arguments of setQuantum
          PriorityArgs,      \* the priorities given to create and setPriority
          BurstArgs          \* the arguments of setBurstTime

DefaultQuantum == 2
SchedulePolicy == {"FIFO", "SJF", "RR", "PRIORITY"}
SwitchReason == {"NONE", "YIELD", "BLOCK", "EXIT"}

ASSUME UThreadAssumption ==
    /\ MaxThreads \in Nat
    /\ MaxClock \in Nat
    /\ Policies \subseteq SchedulePolicy
    /\ QuantumArgs \subseteq Int
    /\ PriorityArgs \subseteq Int
    /\ BurstArgs \subseteq Int

VARIABLES next_tid, threads, state, finished, ended, current, self_woken,
          policy, quantum, rr_index, slice, reason, logical_clock,
          priority, burst, first_run_tick, finish_tick,
          pc, loop, target, retimed

tcb_vars  == <<state, finished, ended, self_woken>>
pool_vars == <<next_tid, threads>>
attr_vars == <<priority, burst>>
tick_vars == <<logical_clock, first_run_tick, finish_tick, retimed>>
config_vars == <<policy, quantum>>
call_vars == <<loop, target>>
cpu_vars  == <<current, pc, slice, reason>>

vars == <<tcb_vars, pool_vars, attr_vars, tick_vars, config_vars, call_vars,
          cpu_vars, rr_index>>

Tids == 1..MaxThreads
NoThread == 0
Size == Len(threads)
Pool == {threads[i] : i \in 1..Size}
Ready == {t \in Pool : state[t] = "READY"}

\* ++logical_clock_, up to the bound.
Tick(c) == IF c < MaxClock THEN c + 1 ELSE c

-----------------------------------------------------------------------------
Init ==
    /\ next_tid = 1 /\ threads = << >>
    /\ state = [t \in Tids |-> "READY"]
    /\ finished = [t \in Tids |-> FALSE]
    /\ ended = [t \in Tids |-> FALSE]
    /\ self_woken = {}
    /\ current = NoThread /\ pc = "main" /\ slice = 0 /\ reason = "NONE"
    /\ policy = "FIFO" /\ quantum = DefaultQuantum /\ rr_index = 0
    /\ priority = [t \in Tids |-> MinPriority]
    /\ burst = [t \in Tids |-> 1]
    /\ logical_clock = 0
    /\ first_run_tick = [t \in Tids |-> NoTick]
    /\ finish_tick = [t \in Tids |-> NoTick]
    /\ retimed = {}
    /\ loop = "none" /\ target = NoThread

\* The main program is between two calls of the runtime.
MainIdle == pc = "main" /\ loop = "none"

\* The body of thread "current" is executing.
InThread == pc = "thread" /\ ~ended[current]

ApiCallable == MainIdle \/ InThread

-----------------------------------------------------------------------------
(* UThreadRuntime: calls of the main program and of thread bodies.         *)

\* Mutant: the new thread is put in front of the vector.
MutantPushBack(seq, tid) == <<tid>> \o seq

\* threads_.push_back(tcb).
PushBack(seq, tid) == Append(seq, tid)

\* UThreadRuntime::createThread, ThreadPool::createThread, TCB::TCB.
CreateThread(p) ==
    /\ ApiCallable
    /\ next_tid \in Tids
    /\ threads' = PushBack(threads, next_tid)
    /\ next_tid' = next_tid + 1
    /\ state' = [state EXCEPT ![next_tid] = "READY"]
    /\ finished' = [finished EXCEPT ![next_tid] = FALSE]
    /\ ended' = [ended EXCEPT ![next_tid] = FALSE]
    /\ priority' = [priority EXCEPT ![next_tid] = ClampPriority(p)]
    /\ burst' = [burst EXCEPT ![next_tid] = 1]
    /\ first_run_tick' = [first_run_tick EXCEPT ![next_tid] = NoTick]
    /\ finish_tick' = [finish_tick EXCEPT ![next_tid] = NoTick]
    /\ UNCHANGED <<self_woken, logical_clock, retimed, config_vars, call_vars,
                   cpu_vars, rr_index>>

\* Mutant: the cursor also moves back when it stands on the removed entry.
MutantAdjustRRIndex(rr, removed_index, size) ==
    LET moved == IF rr >= removed_index /\ rr > 0 THEN rr - 1 ELSE rr
    IN  IF size = 0 \/ moved >= size THEN 0 ELSE moved

\* Scheduler::adjustRRIndex, called with the size left after the removal.
AdjustRRIndex(rr, removed_index, size) ==
    LET moved == IF rr > removed_index THEN rr - 1 ELSE rr
    IN  IF size = 0 \/ moved >= size THEN 0 ELSE moved

\* UThreadRuntime::removeThread of the thread at position i of the vector.
RemoveThread(i) ==
    /\ ApiCallable
    /\ threads' = RemoveAt(threads, i)
    /\ rr_index' = AdjustRRIndex(rr_index, i - 1, Size - 1)
    /\ UNCHANGED <<next_tid, tcb_vars, attr_vars, tick_vars, config_vars,
                   call_vars, cpu_vars>>

\* Scheduler::wakeThread; the tid may be that of no thread of the pool.
WakeThread(t) ==
    /\ ApiCallable
    /\ state' = IF t \in Pool
                THEN [state EXCEPT ![t] = AfterSetState(@, "READY")]
                ELSE state
    /\ self_woken' = IF t \in Pool /\ state[t] = "RUNNING"
                     THEN self_woken \union {t} ELSE self_woken
    /\ UNCHANGED <<finished, ended, pool_vars, attr_vars, tick_vars,
                   config_vars, call_vars, cpu_vars, rr_index>>

-----------------------------------------------------------------------------
(* Calls of the main program only.                                         *)

\* UThreadRuntime::clear: neither next_tid_ nor rr_index_ is reset.
ClearPool ==
    /\ MainIdle
    /\ threads' = << >>
    /\ UNCHANGED <<next_tid, tcb_vars, attr_vars, tick_vars, config_vars,
                   call_vars, cpu_vars, rr_index>>

\* handleBlock of the menu.
HandleBlock(t) ==
    /\ MainIdle
    /\ t \in Pool
    /\ state' = [state EXCEPT ![t] =
                   IF SetStateOk(@, "BLOCKED") THEN "BLOCKED"
                   ELSE IF @ = "READY"
                        THEN AfterSetState(AfterSetState(@, "RUNNING"), "BLOCKED")
                        ELSE @]
    /\ UNCHANGED <<finished, ended, self_woken, pool_vars, attr_vars,
                   tick_vars, config_vars, call_vars, cpu_vars, rr_index>>

\* Scheduler::setPolicy.
SetPolicy(p) ==
    /\ MainIdle
    /\ policy' = p
    /\ rr_index' = 0
    /\ UNCHANGED <<quantum, tcb_vars, pool_vars, attr_vars, tick_vars,
                   call_vars, cpu_vars>>

\* Mutant: setQuantum stores what it is given.
MutantSetQuantum(q) ==
    /\ MainIdle
    /\ quantum' = q
    /\ UNCHANGED <<policy, tcb_vars, pool_vars, attr_vars, tick_vars,
                   call_vars, cpu_vars, rr_index>>

\* Scheduler::setQuantum ignores a non-positive quantum.
SetQuantum(q) ==
    /\ MainIdle
    /\ q > 0
    /\ quantum' = q
    /\ UNCHANGED <<policy, tcb_vars, pool_vars, attr_vars, tick_vars,
                   call_vars, cpu_vars, rr_index>>

\* TCB::setPriority, through the menu's handleSetPriority.
SetPriority(t, p) ==
    /\ MainIdle
    /\ t \in Pool
    /\ priority' = [priority EXCEPT ![t] = ClampPriority(p)]
    /\ UNCHANGED <<burst, tcb_vars, pool_vars, tick_vars, config_vars,
                   call_vars, cpu_vars, rr_index>>

\* TCB::setBurstTime.
SetBurstTime(t, b) ==
    /\ MainIdle
    /\ t \in Pool
    /\ burst' = [burst EXCEPT ![t] = ClampBurst(b)]
    /\ UNCHANGED <<priority, tcb_vars, pool_vars, tick_vars, config_vars,
                   call_vars, cpu_vars, rr_index>>

\* Scheduler::resetLogicalClock; the ticks already recorded keep their value.
ResetLogicalClock ==
    /\ MainIdle
    /\ logical_clock' = 0
    /\ retimed' = {t \in Tids : first_run_tick[t] # NoTick}
    /\ UNCHANGED <<first_run_tick, finish_tick, tcb_vars, pool_vars,
                   attr_vars, config_vars, call_vars, cpu_vars, rr_index>>

-----------------------------------------------------------------------------
(* Scheduler::selectNext: SelectX(t) says that the loop of policy X returns *)
(* t.  The vector is in increasing tid order (PoolOrdered), so the first    *)
(* READY entry that is best is the one with the least tid.                  *)

SelectFIFO(t) == \A u \in Ready : t <= u

SelectPriority(t) ==
    \A u \in Ready : \/ priority[t] < priority[u]
                     \/ priority[t] = priority[u] /\ t <= u

SelectSJF(t) ==
    \A u \in Ready : \/ burst[t] < burst[u]
                     \/ burst[t] = burst[u] /\ t <= u

\* Mutant: the search starts at the front of the vector.
MutantOffset(i) == i - 1

\* The number of entries selectRR passes over, from rr_index, before entry i.
Offset(i) == (i - 1 + Size - (rr_index % Size)) % Size

SelectRR(i) ==
    \A j \in 1..Size : state[threads[j]] = "READY" => Offset(i) <= Offset(j)

\* Mutant: the cursor stays on the thread selected.
MutantCursorAfter(i) == IF policy = "RR" THEN i - 1 ELSE rr_index

\* rr_index_ after the thread at position i (index i - 1) was selected.
CursorAfter(i) == IF policy = "RR" THEN i % Size ELSE rr_index

\* selectNext returns the thread at position i and has moved the cursor.
SelectNext(i) ==
    /\ state[threads[i]] = "READY"
    /\ CASE policy = "FIFO"     -> SelectFIFO(threads[i])
         [] policy = "SJF"      -> SelectSJF(threads[i])
         [] policy = "RR"       -> SelectRR(i)
         [] policy = "PRIORITY" -> SelectPriority(threads[i])
    /\ rr_index' = CursorAfter(i)

-----------------------------------------------------------------------------
(* The scheduler: step, run and joinThread, all called by the main program. *)

\* Entry of UThreadRuntime::step and run.
StartLoop(call) ==
    /\ MainIdle
    /\ loop' = call
    /\ UNCHANGED <<target, tcb_vars, pool_vars, attr_vars, tick_vars,
                   config_vars, cpu_vars, rr_index>>

\* Entry of UThreadRuntime::joinThread: false at once for an unknown tid.
StartJoin(t) ==
    /\ MainIdle
    /\ t \in Pool
    /\ loop' = "join"
    /\ target' = t
    /\ UNCHANGED <<tcb_vars, pool_vars, attr_vars, tick_vars, config_vars,
                   cpu_vars, rr_index>>

\* joinThread's loop condition is false.
JoinDone == loop = "join" /\ finished[target]

\* joinThread sees its target finished, or step found no READY thread and the
\* call in progress returns to the main program.
LoopReturns ==
    /\ pc = "main"
    /\ loop # "none"
    /\ JoinDone \/ Ready = {}
    /\ loop' = "none"
    /\ target' = NoThread
    /\ UNCHANGED <<tcb_vars, pool_vars, attr_vars, tick_vars, config_vars,
                   cpu_vars, rr_index>>

\* dispatchThread up to the switch, with the clock at the given time.
DispatchThread(t, now) ==
    /\ state' = [state EXCEPT ![t] = AfterSetState(@, "RUNNING")]
    /\ first_run_tick' = [first_run_tick EXCEPT ![t] =
                            IF @ = NoTick THEN now ELSE @]
    /\ current' = t
    /\ reason' = "NONE"
    /\ pc' = "thread"

\* Scheduler::step selects a thread and dispatches it, for the length of a
\* slice under round robin.
StepDispatch ==
    /\ pc = "main"
    /\ loop # "none"
    /\ ~JoinDone
    /\ \E i \in 1..Size : SelectNext(i) /\ DispatchThread(threads[i], logical_clock)
    /\ slice' = IF policy = "RR" THEN quantum ELSE 0
    /\ UNCHANGED <<finished, ended, self_woken, pool_vars, attr_vars,
                   logical_clock, finish_tick, retimed, config_vars, call_vars>>

-----------------------------------------------------------------------------
(* The running thread gives up the CPU.                                    *)

SwitchToMain(why) ==
    /\ reason' = why
    /\ pc' = "returned"
    /\ UNCHANGED <<current, slice, self_woken, pool_vars, attr_vars, tick_vars,
                   config_vars, call_vars, rr_index>>

\* Mutant: yield leaves its thread RUNNING.
MutantYield ==
    /\ InThread
    /\ SwitchToMain("YIELD")
    /\ UNCHANGED <<state, finished, ended>>

\* Scheduler::yield.
Yield ==
    /\ InThread
    /\ state' = [state EXCEPT ![current] = AfterSetState(@, "READY")]
    /\ SwitchToMain("YIELD")
    /\ UNCHANGED <<finished, ended>>

\* Scheduler::blockCurrent.
BlockCurrent ==
    /\ InThread
    /\ state' = [state EXCEPT ![current] = AfterSetState(@, "BLOCKED")]
    /\ SwitchToMain("BLOCK")
    /\ UNCHANGED <<finished, ended>>

\* Scheduler::exitCurrent, called by the body or by threadWrapper after it.
ExitCurrent ==
    /\ InThread
    /\ state' = [state EXCEPT ![current] = AfterSetState(@, "FINISHED")]
    /\ finished' = [finished EXCEPT ![current] =
                      AfterMarkFinished(state[current], @)]
    /\ SwitchToMain("EXIT")

CallExit   == ExitCurrent /\ UNCHANGED ended
BodyReturn == ExitCurrent /\ ended' = [ended EXCEPT ![current] = TRUE]

\* threadWrapper returns through uc_link; last_switch_reason_ stays NONE.
LinkReturn ==
    /\ pc = "thread"
    /\ ended[current]
    /\ SwitchToMain(reason)
    /\ UNCHANGED <<state, finished, ended>>

-----------------------------------------------------------------------------
(* dispatchThread after the switch back, and what its caller does next.    *)

\* Mutant: the finish tick is taken before the clock advances.
MutantAccountSlice ==
    /\ logical_clock' = Tick(logical_clock)
    /\ finish_tick' = [finish_tick EXCEPT ![current] =
                         IF finished[current] THEN logical_clock ELSE @]

\* ++logical_clock_, and the finish tick of a thread that has finished.
AccountSlice ==
    /\ logical_clock' = Tick(logical_clock)
    /\ finish_tick' = [finish_tick EXCEPT ![current] =
                         IF finished[current] THEN Tick(logical_clock) ELSE @]

\* Mutant: the slice goes on whatever made the thread switch.
MutantSliceContinues == slice > 1

\* runRoundRobinSlice goes round its loop.
SliceContinues ==
    /\ slice > 1
    /\ ~finished[current]
    /\ state[current] # "BLOCKED"
    /\ reason = "YIELD"

ResumeSlice ==
    /\ pc = "returned"
    /\ SliceContinues
    /\ AccountSlice
    /\ DispatchThread(current, logical_clock')
    /\ slice' = slice - 1
    /\ UNCHANGED <<finished, ended, self_woken, pool_vars, attr_vars, retimed,
                   config_vars, call_vars, rr_index>>

\* Scheduler::step returns true; run and joinThread go round their loops.
EndStep ==
    /\ pc = "returned"
    /\ ~SliceContinues
    /\ AccountSlice
    /\ current' = NoThread
    /\ reason' = "NONE"
    /\ slice' = 0
    /\ pc' = "main"
    /\ loop' = IF loop = "step" THEN "none" ELSE loop
    /\ UNCHANGED <<target, tcb_vars, pool_vars, attr_vars, first_run_tick,
                   retimed, config_vars, rr_index>>

-----------------------------------------------------------------------------
SchedulerStep == StepDispatch \/ LoopReturns \/ ResumeSlice \/ EndStep

ThreadSwitch == Yield \/ BlockCurrent \/ CallExit \/ BodyReturn \/ LinkReturn

MainCall ==
    \/ ClearPool
    \/ ResetLogicalClock
    \/ \E p \in Policies : SetPolicy(p)
    \/ \E q \in QuantumArgs : SetQuantum(q)
    \/ \E t \in Tids : \/ HandleBlock(t)
                       \/ StartJoin(t)
                       \/ \E p \in PriorityArgs : SetPriority(t, p)
                       \/ \E b \in BurstArgs : SetBurstTime(t, b)
    \/ \E c \in {"step", "run"} : StartLoop(c)

ApiCall ==
    \/ \E p \in PriorityArgs : CreateThread(p)
    \/ \E i \in 1..Size : RemoveThread(i)
    \/ \E t \in Tids : WakeThread(t)

Next == SchedulerStep \/ ThreadSwitch \/ MainCall \/ ApiCall

Spec == Init /\ [][Next]_vars

\* The scheduler's loop is ordinary sequential code, so it goes on while it
\* can; and a thread body that is executing reaches its next switch point.
Fairness == WF_vars(SchedulerStep) /\ WF_vars(ThreadSwitch)

LiveSpec == Spec /\ Fairness

-----------------------------------------------------------------------------
(* Correctness.                                                            *)

TypeOK ==
    /\ next_tid \in 1..(MaxThreads + 1)
    /\ threads \in Seq(Tids)
    /\ state \in [Tids -> ThreadState]
    /\ finished \in [Tids -> BOOLEAN]
    /\ ended \in [Tids -> BOOLEAN]
    /\ self_woken \in SUBSET Tids
    /\ policy \in SchedulePolicy
    /\ quantum \in Nat \ {0}
    /\ rr_index \in Nat
    /\ slice \in Nat
    /\ reason \in SwitchReason
    /\ logical_clock \in 0..MaxClock
    /\ priority \in [Tids -> MinPriority..MaxPriority]
    /\ burst \in [Tids -> Nat \ {0}]
    /\ first_run_tick \in [Tids -> {NoTick} \union 0..MaxClock]
    /\ finish_tick \in [Tids -> {NoTick} \union 0..MaxClock]
    /\ retimed \in SUBSET Tids
    /\ pc \in {"main", "thread", "returned"}
    /\ current \in Tids \union {NoThread}
    /\ current = NoThread <=> pc = "main"
    /\ loop \in {"none", "step", "run", "join"}
    /\ pc # "main" => loop # "none"
    /\ target \in Tids \union {NoThread}
    /\ loop = "join" => target # NoThread

\* The vector of threads is in creation order without repetition, whatever
\* was removed in between, and no tid is ever given out twice: getThread
\* finds at most one TCB, and the tie-breaks of selectPriority and selectSJF
\* by tid agree with the order of the vector.
PoolOrdered ==
    /\ \A i, j \in 1..Size : i < j => threads[i] < threads[j]
    /\ \A i \in 1..Size : threads[i] < next_tid

\* A thread that yields inside its slice is READY when runRoundRobinSlice
\* dispatches it again: dispatchThread ignores the result of setState, so
\* nothing else keeps a thread that is not READY from being resumed.
SliceResumesReady ==
    (pc = "returned" /\ SliceContinues) => state[current] = "READY"

\* Once the scheduler is done with a finished thread its finish tick is
\* recorded, no thread that is not finished has one, and it lies after the
\* tick of the first run (strictly, unless the clock is at its bound) for
\* every thread not caught by a resetLogicalClock in between.
TicksOrdered ==
    \A t \in Tids :
        /\ finish_tick[t] # NoTick => finished[t]
        /\ finished[t] /\ current # t => finish_tick[t] # NoTick
        /\ finish_tick[t] # NoTick => first_run_tick[t] # NoTick
        /\ (finish_tick[t] # NoTick /\ t \notin retimed) =>
              /\ first_run_tick[t] <= finish_tick[t]
              /\ first_run_tick[t] < MaxClock => first_run_tick[t] < finish_tick[t]

\* The threads in the order in which selectRR would look at them.
Rotation == [k \in 1..Size |-> threads[((rr_index + k - 1) % Size) + 1]]

\* How many entries selectRR looks at before it reaches t, t included.
Turn(t) == CHOOSE k \in 1..Size : Rotation[k] = t

\* removeThread takes its thread out of the round-robin order and leaves the
\* turns of all the others as they were (Scheduler::adjustRRIndex), when the
\* cursor is inside the vector: clear() can leave it beyond a shorter one.
RotationPreserved ==
    [][\A i \in 1..Size :
          RemoveThread(i) /\ rr_index < Size =>
              Rotation' = RemoveAt(Rotation, Turn(threads[i]))]_vars

\* While run() is scheduling round robin, no step pushes back the turn of a
\* READY thread, and every selection of another thread brings it strictly
\* closer, whichever threads block, finish or are removed meanwhile; only a
\* new thread may be put in front (Scheduler::selectRR, adjustRRIndex).
TurnAdvances ==
    [][(loop = "run" /\ policy = "RR" /\ rr_index < Size /\ next_tid' = next_tid) =>
          \A t \in Ready :
              (t \in Pool' /\ t # current') =>
                  IF StepDispatch THEN Turn(t)' < Turn(t) ELSE Turn(t)' <= Turn(t)]_vars

\* No starvation under round robin: while run() is scheduling, a READY thread
\* of the pool gets the CPU or is removed, whatever the others do, provided that
\* threads are not created for ever.  Newcomers join the vector at its end, and
\* if there is one for each thread that exits the cursor need not wrap
\* (Scheduler::selectRR).
RRNoStarvation ==
    <>[][next_tid' = next_tid]_vars =>
        \A t \in Tids :
            (loop = "run" /\ policy = "RR" /\ t \in Ready)
                ~> (pc = "thread" /\ current = t) \/ t \notin Pool

\* The runtime implements cooperative scheduling, with its policy as one way
\* to resolve the choice of the next thread.
CS == INSTANCE CoopSched WITH pool <- Pool, on_cpu <- (pc = "thread")

\* The runtime as a whole behaves as CoopSched specifies.
ImplementsCoopSched == CS!CoopSpec
=============================================================================
