----------------------------- MODULE RingBuffer -----------------------------
(***************************************************************************)
(* RingBuffer (src/ring_buffer.cpp): produce and consume on a circular     *)
(* array, guarded by one Mutex and two condition variables.  Every thread  *)
(* may call both, any number of times.                                     *)
(*                                                                         *)
(*   buffer, head, tail, count   the fields of RingBuffer                  *)
(*   call      the operation a thread is executing, or "none"              *)
(*   rb_pc     "test": in the loop on count_, or in a lock() or wait()     *)
(*             that leads back to it; "unlock": before the last unlock()   *)
(*   taken     the item that the latest consume() has taken                *)
(*                                                                         *)
(* Calls by the main program are left out: there lock() and wait() return  *)
(* at once, so that produce on a full buffer loops for ever.               *)
(***************************************************************************)
EXTENDS CondVar, FiniteSets

CONSTANTS Items, NoItem, capacity

ASSUME RingBufferAssumption ==
    /\ \E m \in Mutexes : Mutexes = {m}
    /\ Conds = {"not_full", "not_empty"}
    /\ capacity \in Nat
    /\ NoItem \notin Items

VARIABLES buffer, head, tail, count, call, rb_pc, taken

ring_vars == <<buffer, head, tail, count, taken>>
pc_vars == <<call, rb_pc>>
rb_vars == <<all_vars, ring_vars, pc_vars>>

mutex_ == CHOOSE m \in Mutexes : TRUE

RbInit ==
    /\ CvInit
    /\ buffer = [i \in 0..(capacity - 1) |-> NoItem]
    /\ head = 0 /\ tail = 0 /\ count = 0
    /\ taken = NoItem
    /\ call = [t \in Tids |-> "none"]
    /\ rb_pc = [t \in Tids |-> "test"]

\* The running thread is in the loop of the given operation, with the mutex.
AtTest(operation) == CvBody /\ call[current] = operation /\ rb_pc[current] = "test"

-----------------------------------------------------------------------------
\* Entry of produce or consume, up to the end of lock() or its first switch.
Enter(operation) ==
    /\ CvBody
    /\ call[current] = "none"
    /\ LockFree(mutex_) \/ LockBusy(mutex_)
    /\ call' = [call EXCEPT ![current] = operation]
    /\ rb_pc' = [rb_pc EXCEPT ![current] = "test"]
    /\ UNCHANGED <<cv_vars, ring_vars>>

\* not_full_.wait(mutex_) in produce, not_empty_.wait(mutex_) in consume.
WaitNotFull ==
    /\ AtTest("produce")
    /\ count = capacity
    /\ WaitRelease("not_full", mutex_)
    /\ UNCHANGED <<ring_vars, pc_vars>>

WaitNotEmpty ==
    /\ AtTest("consume")
    /\ count = 0
    /\ WaitRelease("not_empty", mutex_)
    /\ UNCHANGED <<ring_vars, pc_vars>>

\* Mutant: a producer goes on whatever the count is.
MutantProduce(x) ==
    /\ AtTest("produce")
    /\ capacity > 0
    /\ buffer' = [buffer EXCEPT ![tail] = x]
    /\ tail' = (tail + 1) % capacity
    /\ count' = count + 1
    /\ SignalEffect("not_empty")
    /\ rb_pc' = [rb_pc EXCEPT ![current] = "unlock"]
    /\ NotifyFrame
    /\ UNCHANGED <<head, taken, call>>

\* produce after its loop, the signal included.
Produce(x) ==
    /\ AtTest("produce")
    /\ count # capacity
    /\ buffer' = [buffer EXCEPT ![tail] = x]
    /\ tail' = (tail + 1) % capacity
    /\ count' = count + 1
    /\ SignalEffect("not_empty")
    /\ rb_pc' = [rb_pc EXCEPT ![current] = "unlock"]
    /\ NotifyFrame
    /\ UNCHANGED <<head, taken, call>>

\* Mutant: consume signals the condition its own kind waits for.
MutantConsume ==
    /\ AtTest("consume")
    /\ count # 0
    /\ taken' = buffer[head]
    /\ head' = (head + 1) % capacity
    /\ count' = count - 1
    /\ SignalEffect("not_empty")
    /\ rb_pc' = [rb_pc EXCEPT ![current] = "unlock"]
    /\ NotifyFrame
    /\ UNCHANGED <<buffer, tail, call>>

\* consume after its loop, the signal included.
Consume ==
    /\ AtTest("consume")
    /\ count # 0
    /\ taken' = buffer[head]
    /\ head' = (head + 1) % capacity
    /\ count' = count - 1
    /\ SignalEffect("not_full")
    /\ rb_pc' = [rb_pc EXCEPT ![current] = "unlock"]
    /\ NotifyFrame
    /\ UNCHANGED <<buffer, tail, call>>

\* The last statement of both: mutex_.unlock().
Leave ==
    /\ CvBody
    /\ rb_pc[current] = "unlock"
    /\ Unlock(mutex_)
    /\ call' = [call EXCEPT ![current] = "none"]
    /\ rb_pc' = [rb_pc EXCEPT ![current] = "test"]
    /\ UNCHANGED <<cv_vars, ring_vars>>

-----------------------------------------------------------------------------
(* Steps inside lock() and wait(), and steps of the scheduler and menu.    *)

Inside ==
    /\ WaitBlock \/ WaitRelock \/ (LockResume(mutex_) /\ UNCHANGED cv_vars)
    /\ UNCHANGED <<ring_vars, pc_vars>>

\* A body yields or returns between two operations only.
RbSwitch ==
    /\ CvBody /\ call[current] = "none"
    /\ Yield \/ Return
    /\ UNCHANGED <<mutex_vars, cv_vars, ring_vars, pc_vars>>

RbRun(t) == Dispatch(t) /\ UNCHANGED <<mutex_vars, cv_vars, ring_vars, pc_vars>>
RbEndStep == EndStep /\ UNCHANGED <<mutex_vars, cv_vars, ring_vars, pc_vars>>

RbSched ==
    /\ (InMain /\ CreateThread) \/ LinkReturn
    /\ UNCHANGED <<mutex_vars, cv_vars, ring_vars, pc_vars>>

RbMeddle(t) == CvMeddle(t) /\ UNCHANGED <<ring_vars, pc_vars>>

\* The thread that executes a call of the buffer goes on with it.
Operate ==
    \/ WaitNotFull \/ WaitNotEmpty \/ Consume \/ Leave \/ Inside
    \/ \E x \in Items : Produce(x)

RbNext ==
    \/ Operate \/ RbSwitch \/ RbSched \/ RbEndStep
    \/ \E o \in {"produce", "consume"} : Enter(o)
    \/ \E t \in Tids : RbRun(t) \/ RbMeddle(t)

RbSpec == RbInit /\ [][RbNext]_rb_vars

-----------------------------------------------------------------------------
(* Correctness.                                                            *)

\* The items in the buffer, oldest first.
Contents == [i \in 1..count |-> buffer[(head + i - 1) % capacity]]

BQ == INSTANCE BoundedQueue WITH queue <- Contents, last <- taken

\* The ring buffer is a bounded first-in-first-out queue: no item is lost,
\* repeated, overwritten or overtaken, with any number of producers and
\* consumers, whichever threads the menu wakes or removes in the middle of a
\* call (RingBuffer::produce, consume and their loops on count_).
ImplementsQueue == BQ!QueueSpec

\* The threads in the given operation that are awake and will test count_
\* again before anything is done for them.
OnTheWay(operation) ==
    {t \in Tids : call[t] = operation /\ rb_pc[t] = "test" /\ ~Sleeping(t)}

\* One signal per item is enough: while consumers sleep, every item in the
\* buffer has an awake consumer on its way to it, and while producers sleep,
\* every free place has an awake producer (if the menu does not interfere).
\* In particular producers and consumers never all sleep at the same time.
NoSleepBesideWork ==
    meddled = 0 =>
        /\ cv_queue["not_empty"] # << >> => Cardinality(OnTheWay("consume")) >= count
        /\ cv_queue["not_full"] # << >> =>
              Cardinality(OnTheWay("produce")) >= capacity - count
=============================================================================
